------------------------- MODULE DesktopToolsProofs -------------------------
(***************************************************************************)
(* The safety of DesktopTools for any set of calls, every setting and any  *)
(* number of changes of the lock.  None of its properties but the types is *)
(* inductive: what a capture may still find or leave depends on how far    *)
(* niri is with its file, and what a report says on where the tool has     *)
(* been.  Then that captures and launched programs come to an end.         *)
(***************************************************************************)
EXTENDS DesktopTools, TLAPS

\* A call is at a place of its tool.
ToolFits ==
  \A c \in Calls : pc[c] \notin {"idle", "done"} =>
    \/ tool[c] = "notify" /\ pc[c] \in {"notifying", "toasting"}
    \/ tool[c] = "launch" /\ pc[c] = "launching"
    \/ tool[c] = "screenshot" /\ pc[c] \in Blocking

\* A call in progress while the session is not locked is recorded, and so is a
\* capture that has passed its check.
LockFits ==
  \A c \in Calls :
    /\ pc[c] \notin {"idle", "done"} /\ ~locked => c \in unlockedIn
    /\ (HintKnown /\ pc[c] \in Blocking \ {"checking"}) => c \in unlockedIn

\* niri has a file only for a request it has accepted, and a PNG only once it
\* has begun to write; a capture that has read one or has ended otherwise is
\* not one niri has still to open a file for.
CaptureFits ==
  \A c \in Calls :
    /\ pc[c] \notin {"requested", "polling", "expiring", "removing", "done"}
         => niri[c] = "idle"
    /\ niri[c] \in {"idle", "accepted"} => file[c] = "none"
    /\ file[c] \in Bytes => niri[c] \in {"begun", "ended"}
    /\ pc[c] = "removing" => got[c] \in Bytes /\ niri[c] \in {"begun", "ended"}
    /\ (pc[c] = "done" /\ result[c] \notin {"timeout", "niri"})
         => file[c] = "none" /\ niri[c] # "accepted"

\* What has happened by the time it is reported.
ReportFits ==
  \A c \in Calls :
    /\ pc[c] = "toasting" => c \in shown
    /\ pc[c] # "done" => result[c] = "none" /\ child[c] = "none"

SafetyInv ==
  /\ TypeOK /\ ToolFits /\ LockFits /\ CaptureFits /\ ReportFits
  /\ LockedIsNotCaptured /\ ReportsAreTrue

-----------------------------------------------------------------------------
(* Types.                                                                  *)

LEMMA TypeInit == Init => TypeOK
<1> SUFFICES ASSUME Init PROVE TypeOK
  OBVIOUS
<1>1. locks \in 0..MaxLocks
  BY BoundAssumption DEF Init
<1>2. shown \subseteq Calls /\ toasts \subseteq Calls /\ unlockedIn \subseteq Calls
  BY DEF Init
<1> QED
  BY <1>1, <1>2 DEF Init, TypeOK

LEMMA TypeStep == TypeOK /\ [Next]_vars => TypeOK'
<1> SUFFICES ASSUME TypeOK, [Next]_vars PROVE TypeOK'
  OBVIOUS
<1> USE SettingsAssumption, BoundAssumption DEF TypeOK
<1>b. {"checking", "connecting", "requested", "polling", "expiring", "removing"} \subseteq Blocking
  BY DEF Blocking
<1>e. {"unauthorized", "no bus", "not notified", "not launched",
       "locked", "niri", "timeout", "aborted"} \subseteq Errors
  BY DEF Errors
<1>1. ASSUME NEW c \in Calls, NEW authorized \in BOOLEAN, Call(c, authorized) PROVE TypeOK'
  <2>1. First[tool[c]] \in {"notifying", "launching", "checking"}
    BY DEF First, Tools
  <2>2. unlockedIn' \subseteq Calls
    BY <1>1 DEF Call
  <2>3. pc' = [pc EXCEPT ![c] = "done"] \/ pc' = [pc EXCEPT ![c] = First[tool[c]]]
    BY <1>1 DEF Call, Goto, Finish
  <2>4. result' = [result EXCEPT ![c] = "unauthorized"] \/ result' = result
    BY <1>1 DEF Call, Finish
  <2>5. UNCHANGED <<tool, captureVars, effectVars, locked, locks, lifeVars>>
    BY <1>1 DEF Call
  <2>6. pc' \in [Calls -> {"idle", "notifying", "toasting", "launching", "done"} \cup Blocking]
    BY <2>1, <2>3, <1>b
  <2>7. result' \in [Calls -> {"none", "ok"} \cup Errors]
    BY <2>4, <1>e
  <2> QED
    BY <2>2, <2>5, <2>6, <2>7 DEF captureVars, effectVars, lifeVars
<1>2. ASSUME NEW c \in Calls, NotifyAnswered(c) PROVE TypeOK'
  BY <1>2 DEF NotifyAnswered, Goto, captureVars, deskVars, lifeVars
<1>3. ASSUME NEW c \in Calls, NotifyFails(c) PROVE TypeOK'
  BY <1>3, <1>e DEF NotifyFails, Goto, Finish, captureVars, deskVars, lifeVars
<1>4. ASSUME NEW c \in Calls, Toast(c) PROVE TypeOK'
  BY <1>4 DEF Toast, Goto, Finish, captureVars, deskVars, lifeVars
<1>5. ASSUME NEW c \in Calls, Launch(c) PROVE TypeOK'
  BY <1>5 DEF Launch, Goto, Finish, captureVars, deskVars, lifeVars
<1>6. ASSUME NEW c \in Calls, LaunchFails(c) PROVE TypeOK'
  BY <1>6, <1>e DEF LaunchFails, Goto, Finish, captureVars, deskVars, lifeVars
<1>7. ASSUME NEW c \in Calls, ChildExits(c) PROVE TypeOK'
  BY <1>7 DEF ChildExits, captureVars, deskVars, lifeVars
<1>8. ASSUME NEW c \in Calls, Reap(c) PROVE TypeOK'
  BY <1>8 DEF Reap, captureVars, deskVars, lifeVars
<1>9. ASSUME NEW c \in Calls, CheckLock(c) PROVE TypeOK'
  <2>1. pc' \in [Calls -> {"idle", "notifying", "toasting", "launching", "done"} \cup Blocking]
    BY <1>9, <1>b DEF CheckLock, Goto, Finish
  <2>2. result' \in [Calls -> {"none", "ok"} \cup Errors]
    BY <1>9, <1>e DEF CheckLock, Finish
  <2> QED
    BY <1>9, <2>1, <2>2 DEF CheckLock, captureVars, effectVars, deskVars, lifeVars
<1>10. ASSUME NEW c \in Calls, Connect(c) PROVE TypeOK'
  BY <1>10, <1>b DEF Connect, Goto, effectVars, deskVars, lifeVars
<1>11. ASSUME NEW c \in Calls, ConnectFails(c) PROVE TypeOK'
  BY <1>11, <1>e DEF ConnectFails, Goto, Finish, captureVars, effectVars, deskVars, lifeVars
<1>12. ASSUME NEW c \in Calls, ReadFile(c) PROVE TypeOK'
  BY <1>12, <1>b DEF ReadFile, Goto, effectVars, deskVars, lifeVars, Bytes
<1>13. ASSUME NEW c \in Calls, Remove(c) PROVE TypeOK'
  BY <1>13, <1>e DEF Remove, Goto, Finish, effectVars, deskVars, lifeVars
<1>14. ASSUME NEW c \in Calls, NiriAnswers(c) PROVE TypeOK'
  <2>1. pc' \in [Calls -> {"idle", "notifying", "toasting", "launching", "done"} \cup Blocking]
    BY <1>14, <1>b DEF NiriAnswers, Goto, Finish
  <2>2. result' \in [Calls -> {"none", "ok"} \cup Errors]
    BY <1>14, <1>e DEF NiriAnswers, Finish
  <2> QED
    BY <1>14, <2>1, <2>2 DEF NiriAnswers, captureVars, effectVars, deskVars, lifeVars
<1>15. ASSUME NEW c \in Calls, NiriWrites(c) PROVE TypeOK'
  BY <1>15 DEF NiriWrites, Written, effectVars, deskVars, lifeVars, Bytes
<1>16. ASSUME NEW c \in Calls, Deadline(c) PROVE TypeOK'
  BY <1>16 DEF Deadline, effectVars, deskVars, lifeVars
<1>17. CASE LockChanges
  BY <1>17 DEF LockChanges, captureVars, effectVars, lifeVars
<1>18. CASE Stop
  BY <1>18 DEF Stop, captureVars, effectVars, deskVars
<1>19. CASE Exit
  BY <1>19, <1>e DEF Exit, captureVars, effectVars, deskVars
<1>20. CASE UNCHANGED vars
  BY <1>20 DEF vars, captureVars, effectVars, deskVars, lifeVars
<1> QED
  BY <1>1, <1>2, <1>3, <1>4, <1>5, <1>6, <1>7, <1>8, <1>9, <1>10,
     <1>11, <1>12, <1>13, <1>14, <1>15, <1>16, <1>17, <1>18, <1>19, <1>20
     DEF Next, CaptureStep

\* The tools are well typed for any number of calls, changes of the lock and settings.
THEOREM ToolsTypeCorrect == Spec => []TypeOK
<1> QED
  BY TypeInit, TypeStep, PTL DEF Spec

-----------------------------------------------------------------------------
(* Safety.                                                                 *)

LEMMA SafetyInit == Init => SafetyInv
<1> SUFFICES ASSUME Init PROVE SafetyInv
  OBVIOUS
<1>1. TypeOK
  BY TypeInit
<1>2. ToolFits /\ LockFits /\ CaptureFits /\ ReportFits
  BY DEF Init, ToolFits, LockFits, CaptureFits, ReportFits, Blocking, Bytes
<1>3. LockedIsNotCaptured /\ ReportsAreTrue
  BY DEF Init, LockedIsNotCaptured, ReportsAreTrue
<1> QED
  BY <1>1, <1>2, <1>3 DEF SafetyInv

\* A call goes on at the places of its tool.
LEMMA ToolFitsStep ==
  ASSUME SafetyInv, [Next]_vars
  PROVE  ToolFits'
<1> USE DEF SafetyInv, TypeOK, ToolFits, Blocking, Bytes
<1>1. ASSUME NEW c \in Calls, NEW authorized \in BOOLEAN, Call(c, authorized) PROVE ToolFits'
  BY <1>1 DEF Call, First, Goto, Finish, captureVars, effectVars, lifeVars, Tools
<1>2. ASSUME NEW c \in Calls, NotifyAnswered(c) PROVE ToolFits'
  BY <1>2 DEF NotifyAnswered, Goto, captureVars, deskVars, lifeVars
<1>3. ASSUME NEW c \in Calls, NotifyFails(c) PROVE ToolFits'
  BY <1>3 DEF NotifyFails, Goto, Finish, captureVars, deskVars, lifeVars
<1>4. ASSUME NEW c \in Calls, Toast(c) PROVE ToolFits'
  BY <1>4 DEF Toast, Goto, Finish, captureVars, deskVars, lifeVars
<1>5. ASSUME NEW c \in Calls, Launch(c) PROVE ToolFits'
  BY <1>5 DEF Launch, Goto, Finish, captureVars, deskVars, lifeVars
<1>6. ASSUME NEW c \in Calls, LaunchFails(c) PROVE ToolFits'
  BY <1>6 DEF LaunchFails, Goto, Finish, captureVars, deskVars, lifeVars
<1>7. ASSUME NEW c \in Calls, ChildExits(c) PROVE ToolFits'
  BY <1>7 DEF ChildExits, captureVars, deskVars, lifeVars
<1>8. ASSUME NEW c \in Calls, Reap(c) PROVE ToolFits'
  BY <1>8 DEF Reap, captureVars, deskVars, lifeVars
<1>9. ASSUME NEW c \in Calls, CheckLock(c) PROVE ToolFits'
  BY <1>9 DEF CheckLock, Goto, Finish, captureVars, effectVars, deskVars, lifeVars
<1>10. ASSUME NEW c \in Calls, Connect(c) PROVE ToolFits'
  BY <1>10 DEF Connect, Goto, effectVars, deskVars, lifeVars
<1>11. ASSUME NEW c \in Calls, ConnectFails(c) PROVE ToolFits'
  BY <1>11 DEF ConnectFails, Goto, Finish, captureVars, effectVars, deskVars, lifeVars
<1>12. ASSUME NEW c \in Calls, ReadFile(c) PROVE ToolFits'
  BY <1>12 DEF ReadFile, Goto, effectVars, deskVars, lifeVars
<1>13. ASSUME NEW c \in Calls, Remove(c) PROVE ToolFits'
  BY <1>13 DEF Remove, Goto, Finish, effectVars, deskVars, lifeVars
<1>14. ASSUME NEW c \in Calls, NiriAnswers(c) PROVE ToolFits'
  BY <1>14 DEF NiriAnswers, Goto, Finish, captureVars, effectVars, deskVars, lifeVars
<1>15. ASSUME NEW c \in Calls, NiriWrites(c) PROVE ToolFits'
  BY <1>15 DEF NiriWrites, Written, effectVars, deskVars, lifeVars
<1>16. ASSUME NEW c \in Calls, Deadline(c) PROVE ToolFits'
  BY <1>16 DEF Deadline, effectVars, deskVars, lifeVars
<1>17. CASE LockChanges
  BY <1>17 DEF LockChanges, captureVars, effectVars, lifeVars
<1>18. CASE Stop
  BY <1>18 DEF Stop, captureVars, effectVars, deskVars
<1>19. CASE Exit
  BY <1>19 DEF Exit, captureVars, effectVars, deskVars
<1>20. CASE UNCHANGED vars
  BY <1>20 DEF vars, captureVars, effectVars, deskVars, lifeVars
<1> QED
  BY <1>1, <1>2, <1>3, <1>4, <1>5, <1>6, <1>7, <1>8, <1>9, <1>10,
     <1>11, <1>12, <1>13, <1>14, <1>15, <1>16, <1>17, <1>18, <1>19, <1>20
     DEF Next, CaptureStep

\* A change of the lock records the calls it meets, and the check keeps out the others.
LEMMA LockFitsStep ==
  ASSUME SafetyInv, [Next]_vars
  PROVE  LockFits'
<1> USE DEF SafetyInv, TypeOK, LockFits, Blocking, Bytes
<1>1. ASSUME NEW c \in Calls, NEW authorized \in BOOLEAN, Call(c, authorized) PROVE LockFits'
  BY <1>1 DEF Call, First, Goto, Finish, captureVars, effectVars, lifeVars, Tools
<1>2. ASSUME NEW c \in Calls, NotifyAnswered(c) PROVE LockFits'
  BY <1>2 DEF NotifyAnswered, Goto, captureVars, deskVars, lifeVars
<1>3. ASSUME NEW c \in Calls, NotifyFails(c) PROVE LockFits'
  BY <1>3 DEF NotifyFails, Goto, Finish, captureVars, deskVars, lifeVars
<1>4. ASSUME NEW c \in Calls, Toast(c) PROVE LockFits'
  BY <1>4 DEF Toast, Goto, Finish, captureVars, deskVars, lifeVars
<1>5. ASSUME NEW c \in Calls, Launch(c) PROVE LockFits'
  BY <1>5 DEF Launch, Goto, Finish, captureVars, deskVars, lifeVars
<1>6. ASSUME NEW c \in Calls, LaunchFails(c) PROVE LockFits'
  BY <1>6 DEF LaunchFails, Goto, Finish, captureVars, deskVars, lifeVars
<1>7. ASSUME NEW c \in Calls, ChildExits(c) PROVE LockFits'
  BY <1>7 DEF ChildExits, captureVars, deskVars, lifeVars
<1>8. ASSUME NEW c \in Calls, Reap(c) PROVE LockFits'
  BY <1>8 DEF Reap, captureVars, deskVars, lifeVars
<1>9. ASSUME NEW c \in Calls, CheckLock(c) PROVE LockFits'
  BY <1>9 DEF CheckLock, Goto, Finish, captureVars, effectVars, deskVars, lifeVars
<1>10. ASSUME NEW c \in Calls, Connect(c) PROVE LockFits'
  BY <1>10 DEF Connect, Goto, effectVars, deskVars, lifeVars
<1>11. ASSUME NEW c \in Calls, ConnectFails(c) PROVE LockFits'
  BY <1>11 DEF ConnectFails, Goto, Finish, captureVars, effectVars, deskVars, lifeVars
<1>12. ASSUME NEW c \in Calls, ReadFile(c) PROVE LockFits'
  BY <1>12 DEF ReadFile, Goto, effectVars, deskVars, lifeVars
<1>13. ASSUME NEW c \in Calls, Remove(c) PROVE LockFits'
  BY <1>13 DEF Remove, Goto, Finish, effectVars, deskVars, lifeVars
<1>14. ASSUME NEW c \in Calls, NiriAnswers(c) PROVE LockFits'
  BY <1>14 DEF NiriAnswers, Goto, Finish, captureVars, effectVars, deskVars, lifeVars
<1>15. ASSUME NEW c \in Calls, NiriWrites(c) PROVE LockFits'
  BY <1>15 DEF NiriWrites, Written, effectVars, deskVars, lifeVars
<1>16. ASSUME NEW c \in Calls, Deadline(c) PROVE LockFits'
  BY <1>16 DEF Deadline, effectVars, deskVars, lifeVars
<1>17. CASE LockChanges
  BY <1>17 DEF LockChanges, captureVars, effectVars, lifeVars
<1>18. CASE Stop
  BY <1>18 DEF Stop, captureVars, effectVars, deskVars
<1>19. CASE Exit
  BY <1>19 DEF Exit, captureVars, effectVars, deskVars
<1>20. CASE UNCHANGED vars
  BY <1>20 DEF vars, captureVars, effectVars, deskVars, lifeVars
<1> QED
  BY <1>1, <1>2, <1>3, <1>4, <1>5, <1>6, <1>7, <1>8, <1>9, <1>10,
     <1>11, <1>12, <1>13, <1>14, <1>15, <1>16, <1>17, <1>18, <1>19, <1>20
     DEF Next, CaptureStep

\* niri's progress with the file keeps in step with the capture.
LEMMA CaptureFitsStep ==
  ASSUME SafetyInv, [Next]_vars
  PROVE  CaptureFits'
<1> USE DEF SafetyInv, TypeOK, CaptureFits, Blocking, Bytes
<1>1. ASSUME NEW c \in Calls, NEW authorized \in BOOLEAN, Call(c, authorized) PROVE CaptureFits'
  BY <1>1 DEF Call, First, Goto, Finish, captureVars, effectVars, lifeVars, Tools
<1>2. ASSUME NEW c \in Calls, NotifyAnswered(c) PROVE CaptureFits'
  BY <1>2 DEF NotifyAnswered, Goto, captureVars, deskVars, lifeVars
<1>3. ASSUME NEW c \in Calls, NotifyFails(c) PROVE CaptureFits'
  BY <1>3 DEF NotifyFails, Goto, Finish, captureVars, deskVars, lifeVars
<1>4. ASSUME NEW c \in Calls, Toast(c) PROVE CaptureFits'
  BY <1>4 DEF Toast, Goto, Finish, captureVars, deskVars, lifeVars
<1>5. ASSUME NEW c \in Calls, Launch(c) PROVE CaptureFits'
  BY <1>5 DEF Launch, Goto, Finish, captureVars, deskVars, lifeVars
<1>6. ASSUME NEW c \in Calls, LaunchFails(c) PROVE CaptureFits'
  BY <1>6 DEF LaunchFails, Goto, Finish, captureVars, deskVars, lifeVars
<1>7. ASSUME NEW c \in Calls, ChildExits(c) PROVE CaptureFits'
  BY <1>7 DEF ChildExits, captureVars, deskVars, lifeVars
<1>8. ASSUME NEW c \in Calls, Reap(c) PROVE CaptureFits'
  BY <1>8 DEF Reap, captureVars, deskVars, lifeVars
<1>9. ASSUME NEW c \in Calls, CheckLock(c) PROVE CaptureFits'
  BY <1>9 DEF CheckLock, Goto, Finish, captureVars, effectVars, deskVars, lifeVars
<1>10. ASSUME NEW c \in Calls, Connect(c) PROVE CaptureFits'
  BY <1>10 DEF Connect, Goto, effectVars, deskVars, lifeVars
<1>11. ASSUME NEW c \in Calls, ConnectFails(c) PROVE CaptureFits'
  BY <1>11 DEF ConnectFails, Goto, Finish, captureVars, effectVars, deskVars, lifeVars
<1>12. ASSUME NEW c \in Calls, ReadFile(c) PROVE CaptureFits'
  BY <1>12 DEF ReadFile, Goto, effectVars, deskVars, lifeVars
<1>13. ASSUME NEW c \in Calls, Remove(c) PROVE CaptureFits'
  BY <1>13 DEF Remove, Goto, Finish, effectVars, deskVars, lifeVars
<1>14. ASSUME NEW c \in Calls, NiriAnswers(c) PROVE CaptureFits'
  BY <1>14 DEF NiriAnswers, Goto, Finish, captureVars, effectVars, deskVars, lifeVars
<1>15. ASSUME NEW c \in Calls, NiriWrites(c) PROVE CaptureFits'
  BY <1>15 DEF NiriWrites, Written, effectVars, deskVars, lifeVars
<1>16. ASSUME NEW c \in Calls, Deadline(c) PROVE CaptureFits'
  BY <1>16 DEF Deadline, effectVars, deskVars, lifeVars
<1>17. CASE LockChanges
  BY <1>17 DEF LockChanges, captureVars, effectVars, lifeVars
<1>18. CASE Stop
  BY <1>18 DEF Stop, captureVars, effectVars, deskVars
<1>19. CASE Exit
  BY <1>19 DEF Exit, captureVars, effectVars, deskVars
<1>20. CASE UNCHANGED vars
  BY <1>20 DEF vars, captureVars, effectVars, deskVars, lifeVars
<1> QED
  BY <1>1, <1>2, <1>3, <1>4, <1>5, <1>6, <1>7, <1>8, <1>9, <1>10,
     <1>11, <1>12, <1>13, <1>14, <1>15, <1>16, <1>17, <1>18, <1>19, <1>20
     DEF Next, CaptureStep

\* A notification or a launch that fails changes no report but its own.
LEMMA FailureReports ==
  ASSUME TypeOK, NEW c \in Calls, NotifyFails(c) \/ LaunchFails(c)
  PROVE  /\ pc' = [pc EXCEPT ![c] = "done"] /\ UNCHANGED <<tool, toasts, child, got>>
         /\ shown \subseteq shown'
         /\ \A d \in Calls \ {c} : result'[d] = result[d]
         /\ result'[c] # "ok"
<1>1. CASE NotifyFails(c)
  <2>1. shown \subseteq shown'
    BY <1>1 DEF NotifyFails
  <2> QED
    BY <1>1, <2>1 DEF NotifyFails, Goto, Finish, captureVars, TypeOK
<1>2. CASE LaunchFails(c)
  BY <1>2 DEF LaunchFails, Goto, Finish, captureVars, TypeOK
<1> QED
  BY <1>1, <1>2

\* Nothing is reported before the end.
LEMMA ReportFitsStep ==
  ASSUME SafetyInv, [Next]_vars
  PROVE  ReportFits'
<1> USE DEF SafetyInv, TypeOK, ReportFits, Blocking, Bytes
<1>1. ASSUME NEW c \in Calls, NEW authorized \in BOOLEAN, Call(c, authorized) PROVE ReportFits'
  BY <1>1 DEF Call, First, Goto, Finish, captureVars, effectVars, lifeVars, Tools
<1>2. ASSUME NEW c \in Calls, NotifyAnswered(c) PROVE ReportFits'
  BY <1>2 DEF NotifyAnswered, Goto, captureVars, deskVars, lifeVars
<1>3. ASSUME NEW c \in Calls, NotifyFails(c) PROVE ReportFits'
  <2>1. /\ pc' = [pc EXCEPT ![c] = "done"] /\ UNCHANGED child
        /\ shown \subseteq shown' /\ \A d \in Calls \ {c} : result'[d] = result[d]
    BY <1>3, FailureReports DEF SafetyInv
  <2> QED
    BY <2>1
<1>4. ASSUME NEW c \in Calls, Toast(c) PROVE ReportFits'
  BY <1>4 DEF Toast, Goto, Finish, captureVars, deskVars, lifeVars
<1>5. ASSUME NEW c \in Calls, Launch(c) PROVE ReportFits'
  BY <1>5 DEF Launch, Goto, Finish, captureVars, deskVars, lifeVars
<1>6. ASSUME NEW c \in Calls, LaunchFails(c) PROVE ReportFits'
  BY <1>6 DEF LaunchFails, Goto, Finish, captureVars, deskVars, lifeVars
<1>7. ASSUME NEW c \in Calls, ChildExits(c) PROVE ReportFits'
  BY <1>7 DEF ChildExits, captureVars, deskVars, lifeVars
<1>8. ASSUME NEW c \in Calls, Reap(c) PROVE ReportFits'
  BY <1>8 DEF Reap, captureVars, deskVars, lifeVars
<1>9. ASSUME NEW c \in Calls, CheckLock(c) PROVE ReportFits'
  BY <1>9 DEF CheckLock, Goto, Finish, captureVars, effectVars, deskVars, lifeVars
<1>10. ASSUME NEW c \in Calls, Connect(c) PROVE ReportFits'
  BY <1>10 DEF Connect, Goto, effectVars, deskVars, lifeVars
<1>11. ASSUME NEW c \in Calls, ConnectFails(c) PROVE ReportFits'
  BY <1>11 DEF ConnectFails, Goto, Finish, captureVars, effectVars, deskVars, lifeVars
<1>12. ASSUME NEW c \in Calls, ReadFile(c) PROVE ReportFits'
  BY <1>12 DEF ReadFile, Goto, effectVars, deskVars, lifeVars
<1>13. ASSUME NEW c \in Calls, Remove(c) PROVE ReportFits'
  BY <1>13 DEF Remove, Goto, Finish, effectVars, deskVars, lifeVars
<1>14. ASSUME NEW c \in Calls, NiriAnswers(c) PROVE ReportFits'
  BY <1>14 DEF NiriAnswers, Goto, Finish, captureVars, effectVars, deskVars, lifeVars
<1>15. ASSUME NEW c \in Calls, NiriWrites(c) PROVE ReportFits'
  BY <1>15 DEF NiriWrites, Written, effectVars, deskVars, lifeVars
<1>16. ASSUME NEW c \in Calls, Deadline(c) PROVE ReportFits'
  BY <1>16 DEF Deadline, effectVars, deskVars, lifeVars
<1>17. CASE LockChanges
  BY <1>17 DEF LockChanges, captureVars, effectVars, lifeVars
<1>18. CASE Stop
  BY <1>18 DEF Stop, captureVars, effectVars, deskVars
<1>19. CASE Exit
  BY <1>19 DEF Exit, captureVars, effectVars, deskVars
<1>20. CASE UNCHANGED vars
  BY <1>20 DEF vars, captureVars, effectVars, deskVars, lifeVars
<1> QED
  BY <1>1, <1>2, <1>3, <1>4, <1>5, <1>6, <1>7, <1>8, <1>9, <1>10,
     <1>11, <1>12, <1>13, <1>14, <1>15, <1>16, <1>17, <1>18, <1>19, <1>20
     DEF Next, CaptureStep

\* A capture that reads has passed its check.
LEMMA LockedIsNotCapturedStep ==
  ASSUME SafetyInv, [Next]_vars
  PROVE  LockedIsNotCaptured'
<1> USE DEF SafetyInv, TypeOK, LockFits, LockedIsNotCaptured, Blocking, Bytes
<1>1. ASSUME NEW c \in Calls, NEW authorized \in BOOLEAN, Call(c, authorized) PROVE LockedIsNotCaptured'
  BY <1>1 DEF Call, First, Goto, Finish, captureVars, effectVars, lifeVars, Tools
<1>2. ASSUME NEW c \in Calls, NotifyAnswered(c) PROVE LockedIsNotCaptured'
  BY <1>2 DEF NotifyAnswered, Goto, captureVars, deskVars, lifeVars
<1>3. ASSUME NEW c \in Calls, NotifyFails(c) PROVE LockedIsNotCaptured'
  BY <1>3 DEF NotifyFails, Goto, Finish, captureVars, deskVars, lifeVars
<1>4. ASSUME NEW c \in Calls, Toast(c) PROVE LockedIsNotCaptured'
  BY <1>4 DEF Toast, Goto, Finish, captureVars, deskVars, lifeVars
<1>5. ASSUME NEW c \in Calls, Launch(c) PROVE LockedIsNotCaptured'
  BY <1>5 DEF Launch, Goto, Finish, captureVars, deskVars, lifeVars
<1>6. ASSUME NEW c \in Calls, LaunchFails(c) PROVE LockedIsNotCaptured'
  BY <1>6 DEF LaunchFails, Goto, Finish, captureVars, deskVars, lifeVars
<1>7. ASSUME NEW c \in Calls, ChildExits(c) PROVE LockedIsNotCaptured'
  BY <1>7 DEF ChildExits, captureVars, deskVars, lifeVars
<1>8. ASSUME NEW c \in Calls, Reap(c) PROVE LockedIsNotCaptured'
  BY <1>8 DEF Reap, captureVars, deskVars, lifeVars
<1>9. ASSUME NEW c \in Calls, CheckLock(c) PROVE LockedIsNotCaptured'
  BY <1>9 DEF CheckLock, Goto, Finish, captureVars, effectVars, deskVars, lifeVars
<1>10. ASSUME NEW c \in Calls, Connect(c) PROVE LockedIsNotCaptured'
  BY <1>10 DEF Connect, Goto, effectVars, deskVars, lifeVars
<1>11. ASSUME NEW c \in Calls, ConnectFails(c) PROVE LockedIsNotCaptured'
  BY <1>11 DEF ConnectFails, Goto, Finish, captureVars, effectVars, deskVars, lifeVars
<1>12. ASSUME NEW c \in Calls, ReadFile(c) PROVE LockedIsNotCaptured'
  BY <1>12 DEF ReadFile, Goto, effectVars, deskVars, lifeVars
<1>13. ASSUME NEW c \in Calls, Remove(c) PROVE LockedIsNotCaptured'
  BY <1>13 DEF Remove, Goto, Finish, effectVars, deskVars, lifeVars
<1>14. ASSUME NEW c \in Calls, NiriAnswers(c) PROVE LockedIsNotCaptured'
  BY <1>14 DEF NiriAnswers, Goto, Finish, captureVars, effectVars, deskVars, lifeVars
<1>15. ASSUME NEW c \in Calls, NiriWrites(c) PROVE LockedIsNotCaptured'
  BY <1>15 DEF NiriWrites, Written, effectVars, deskVars, lifeVars
<1>16. ASSUME NEW c \in Calls, Deadline(c) PROVE LockedIsNotCaptured'
  BY <1>16 DEF Deadline, effectVars, deskVars, lifeVars
<1>17. CASE LockChanges
  BY <1>17 DEF LockChanges, captureVars, effectVars, lifeVars
<1>18. CASE Stop
  BY <1>18 DEF Stop, captureVars, effectVars, deskVars
<1>19. CASE Exit
  BY <1>19 DEF Exit, captureVars, effectVars, deskVars
<1>20. CASE UNCHANGED vars
  BY <1>20 DEF vars, captureVars, effectVars, deskVars, lifeVars
<1> QED
  BY <1>1, <1>2, <1>3, <1>4, <1>5, <1>6, <1>7, <1>8, <1>9, <1>10,
     <1>11, <1>12, <1>13, <1>14, <1>15, <1>16, <1>17, <1>18, <1>19, <1>20
     DEF Next, CaptureStep

\* A tool has done what it reports by the time it does.
LEMMA ReportsAreTrueStep ==
  ASSUME SafetyInv, [Next]_vars
  PROVE  ReportsAreTrue'
<1>3. ASSUME NEW c \in Calls, NotifyFails(c) \/ LaunchFails(c) PROVE ReportsAreTrue'
  <2>1. /\ \A d \in Calls : result'[d] = "ok" => result[d] = "ok"
        /\ shown \subseteq shown' /\ UNCHANGED <<tool, toasts, child, got>>
    BY <1>3, FailureReports DEF SafetyInv
  <2> QED
    BY <2>1 DEF SafetyInv, ReportsAreTrue
<1> USE DEF SafetyInv, TypeOK, ToolFits, CaptureFits, ReportFits, ReportsAreTrue, Blocking, Bytes
<1>1. ASSUME NEW c \in Calls, NEW authorized \in BOOLEAN, Call(c, authorized) PROVE ReportsAreTrue'
  BY <1>1 DEF Call, First, Goto, Finish, captureVars, effectVars, lifeVars, Tools
<1>2. ASSUME NEW c \in Calls, NotifyAnswered(c) PROVE ReportsAreTrue'
  BY <1>2 DEF NotifyAnswered, Goto, captureVars, deskVars, lifeVars
<1>4. ASSUME NEW c \in Calls, Toast(c) PROVE ReportsAreTrue'
  BY <1>4 DEF Toast, Goto, Finish, captureVars, deskVars, lifeVars
<1>5. ASSUME NEW c \in Calls, Launch(c) PROVE ReportsAreTrue'
  BY <1>5 DEF Launch, Goto, Finish, captureVars, deskVars, lifeVars
<1>7. ASSUME NEW c \in Calls, ChildExits(c) PROVE ReportsAreTrue'
  BY <1>7 DEF ChildExits, captureVars, deskVars, lifeVars
<1>8. ASSUME NEW c \in Calls, Reap(c) PROVE ReportsAreTrue'
  BY <1>8 DEF Reap, captureVars, deskVars, lifeVars
<1>9. ASSUME NEW c \in Calls, CheckLock(c) PROVE ReportsAreTrue'
  BY <1>9 DEF CheckLock, Goto, Finish, captureVars, effectVars, deskVars, lifeVars
<1>10. ASSUME NEW c \in Calls, Connect(c) PROVE ReportsAreTrue'
  BY <1>10 DEF Connect, Goto, effectVars, deskVars, lifeVars
<1>11. ASSUME NEW c \in Calls, ConnectFails(c) PROVE ReportsAreTrue'
  BY <1>11 DEF ConnectFails, Goto, Finish, captureVars, effectVars, deskVars, lifeVars
<1>12. ASSUME NEW c \in Calls, ReadFile(c) PROVE ReportsAreTrue'
  BY <1>12 DEF ReadFile, Goto, effectVars, deskVars, lifeVars
<1>13. ASSUME NEW c \in Calls, Remove(c) PROVE ReportsAreTrue'
  BY <1>13 DEF Remove, Goto, Finish, effectVars, deskVars, lifeVars
<1>14. ASSUME NEW c \in Calls, NiriAnswers(c) PROVE ReportsAreTrue'
  BY <1>14 DEF NiriAnswers, Goto, Finish, captureVars, effectVars, deskVars, lifeVars
<1>15. ASSUME NEW c \in Calls, NiriWrites(c) PROVE ReportsAreTrue'
  BY <1>15 DEF NiriWrites, Written, effectVars, deskVars, lifeVars
<1>16. ASSUME NEW c \in Calls, Deadline(c) PROVE ReportsAreTrue'
  BY <1>16 DEF Deadline, effectVars, deskVars, lifeVars
<1>17. CASE LockChanges
  BY <1>17 DEF LockChanges, captureVars, effectVars, lifeVars
<1>18. CASE Stop
  BY <1>18 DEF Stop, captureVars, effectVars, deskVars
<1>19. CASE Exit
  BY <1>19 DEF Exit, captureVars, effectVars, deskVars
<1>20. CASE UNCHANGED vars
  BY <1>20 DEF vars, captureVars, effectVars, deskVars, lifeVars
<1> QED
  BY <1>1, <1>2, <1>3, <1>4, <1>5, <1>7, <1>8, <1>9, <1>10,
     <1>11, <1>12, <1>13, <1>14, <1>15, <1>16, <1>17, <1>18, <1>19, <1>20
     DEF Next, CaptureStep

LEMMA SafetyStep == SafetyInv /\ [Next]_vars => SafetyInv'
  BY TypeStep, ToolFitsStep, LockFitsStep, CaptureFitsStep, ReportFitsStep,
     LockedIsNotCapturedStep, ReportsAreTrueStep DEF SafetyInv

LEMMA SafetyHolds == Spec => []SafetyInv
<1> QED
  BY SafetyInit, SafetyStep, PTL DEF Spec

\* For any number of overlapping calls and changes of the lock, no capture reads
\* the screen of a session that was locked throughout.
THEOREM CapturesAreOfUnlocked == Spec => []LockedIsNotCaptured
<1>1. SafetyInv => LockedIsNotCaptured
  BY DEF SafetyInv
<1> QED
  BY <1>1, SafetyHolds, PTL

\* A finished call leaves a file only after a timeout or an error of niri's.
THEOREM NoFileIsLeft == Spec => []FilesAreRemoved
<1>1. SafetyInv => FilesAreRemoved
  BY DEF SafetyInv, TypeOK, CaptureFits, FilesAreRemoved
<1> QED
  BY <1>1, SafetyHolds, PTL

\* The agent is told of a success only when there was one.
THEOREM ReportsHold == Spec => []ReportsAreTrue
<1>1. SafetyInv => ReportsAreTrue
  BY DEF SafetyInv
<1> QED
  BY <1>1, SafetyHolds, PTL
-----------------------------------------------------------------------------
(* Liveness, from the fairness and from NobodyIsStuck.                     *)

\* What a capture can do next, whoever takes a step: it never goes back, and its
\* deadline stays passed.
LEMMA CaptureMoves ==
  ASSUME TypeOK, [Next]_vars, NEW c \in Calls, pc[c] \in Blocking
  PROVE  /\ pc[c] = "checking" => pc'[c] \in {"checking", "connecting", "done"}
         /\ pc[c] = "connecting" => pc'[c] \in {"connecting", "requested", "done"}
         /\ pc[c] = "polling" => /\ pc'[c] \in {"polling", "removing", "expiring"}
                                 /\ expired[c] => expired'[c]
         /\ pc[c] \in {"removing", "expiring"} => pc'[c] \in {pc[c], "done"}
<1> USE DEF TypeOK, Blocking, Goto, Finish
<1>1. ASSUME NEW d \in Calls, NEW authorized \in BOOLEAN, Call(d, authorized)
      PROVE  UNCHANGED expired /\ (pc'[c] = pc[c])
  BY <1>1 DEF Call, captureVars
<1>2. ASSUME NEW d \in Calls,
             NotifyAnswered(d) \/ NotifyFails(d) \/ Toast(d) \/ Launch(d) \/ LaunchFails(d)
      PROVE  UNCHANGED expired /\ (pc'[c] = pc[c])
  BY <1>2 DEF NotifyAnswered, NotifyFails, Toast, Launch, LaunchFails, captureVars
<1>3. ASSUME NEW d \in Calls, ChildExits(d) \/ Reap(d) \/ NiriWrites(d)
      PROVE  UNCHANGED expired /\ (pc'[c] = pc[c])
  BY <1>3 DEF ChildExits, Reap, NiriWrites, captureVars
<1>4. ASSUME NEW d \in Calls, CaptureStep(d) \/ NiriAnswers(d)
      PROVE  /\ UNCHANGED expired
             /\ \/ pc'[c] = pc[c]
                \/ pc[c] = "checking" /\ pc'[c] \in {"connecting", "done"}
                \/ pc[c] = "connecting" /\ pc'[c] \in {"requested", "done"}
                \/ pc[c] = "requested" /\ pc'[c] \in {"polling", "done"}
                \/ pc[c] = "polling" /\ pc'[c] \in {"removing", "expiring"}
                \/ pc[c] \in {"removing", "expiring"} /\ pc'[c] = "done"
  BY <1>4 DEF CaptureStep, CheckLock, Connect, ConnectFails, ReadFile, Remove, NiriAnswers, captureVars
<1>5. ASSUME NEW d \in Calls, Deadline(d)
      PROVE  pc'[c] = pc[c] /\ (expired[c] => expired'[c])
  BY <1>5 DEF Deadline
<1>6. CASE LockChanges \/ Stop \/ UNCHANGED vars
  BY <1>6 DEF LockChanges, Stop, vars, captureVars
<1>7. CASE Exit
  BY <1>7 DEF Exit
<1> QED
  BY <1>1, <1>2, <1>3, <1>4, <1>5, <1>6, <1>7 DEF Next

\* And each owed step goes forward.
LEMMA CaptureGoesOn ==
  ASSUME TypeOK, NEW c \in Calls
  PROVE  /\ CaptureStep(c) /\ pc[c] \in {"checking", "connecting", "removing", "expiring"} =>
              pc'[c] # pc[c]
         /\ CaptureStep(c) /\ pc[c] = "polling" /\ expired[c] => pc'[c] # "polling"
         /\ Deadline(c) => expired'[c]
  BY DEF TypeOK, CaptureStep, CheckLock, Connect, ConnectFails, ReadFile, Remove, Deadline, Goto, Finish

\* A capture ends if niri answers, whatever niri does with the file and however
\* many captures there are, if the steps that NobodyIsStuck names can be taken.
THEOREM CapturesComeToAnEnd == FairSpec /\ []NobodyIsStuck => CapturesEnd
<1>1. ASSUME NEW c \in Calls
      PROVE  FairSpec /\ []NobodyIsStuck => (pc[c] \in Blocking ~> pc[c] \in {"done", "requested"})
  <2> DEFINE Is(place) == pc[c] = place
             Expired == expired[c]
             Capturing == pc[c] \in Blocking
             Over == pc[c] \in {"done", "requested"}
  <2>1. TypeOK /\ [Next]_vars /\ Capturing =>
          /\ Is("checking") => Is("checking")' \/ Is("connecting")' \/ Over'
          /\ Is("connecting") => Is("connecting")' \/ Over'
          /\ Is("polling") => /\ Is("polling")' \/ Is("removing")' \/ Is("expiring")'
                              /\ Expired => Expired'
          /\ Is("removing") => Is("removing")' \/ Over'
          /\ Is("expiring") => Is("expiring")' \/ Over'
    BY CaptureMoves
  <2>2. TypeOK /\ <<CaptureStep(c)>>_vars =>
          /\ Is("checking") => ~Is("checking")'
          /\ Is("connecting") => ~Is("connecting")'
          /\ Is("polling") /\ Expired => ~Is("polling")'
          /\ Is("removing") => ~Is("removing")'
          /\ Is("expiring") => ~Is("expiring")'
    BY CaptureGoesOn
  <2>3. TypeOK /\ <<Deadline(c)>>_vars => Expired'
    BY CaptureGoesOn
  <2>4. NobodyIsStuck =>
          /\ Is("checking") \/ Is("connecting") \/ Is("removing") \/ Is("expiring") =>
               ENABLED <<CaptureStep(c)>>_vars
          /\ Is("polling") /\ Expired => ENABLED <<CaptureStep(c)>>_vars
          /\ Is("polling") /\ ~Expired => ENABLED <<Deadline(c)>>_vars
    BY DEF NobodyIsStuck, Blocking
  <2>5. /\ Capturing => \/ Over \/ Is("checking") \/ Is("connecting") \/ Is("polling")
                        \/ Is("removing") \/ Is("expiring")
        /\ Is("checking") \/ Is("connecting") \/ Is("polling") \/ Is("removing") \/ Is("expiring")
             => Capturing
    BY DEF Blocking
  <2>6. FairSpec => Spec /\ [][Next]_vars /\ CaptureFair(c)
    BY DEF FairSpec, Spec, Fairness
  <2> HIDE DEF Is, Expired, Capturing, Over
  <2>7. FairSpec /\ []NobodyIsStuck => (Capturing ~> Over)
    BY <2>1, <2>2, <2>3, <2>4, <2>5, <2>6, ToolsTypeCorrect, PTL DEF CaptureFair
  <2> QED
    BY <2>7 DEF Capturing, Over
<1> QED
  BY <1>1 DEF CapturesEnd

\* A program that has ended is not launched again: its call is done.
LEMMA ChildMoves ==
  ASSUME SafetyInv, [Next]_vars, NEW c \in Calls, child[c] = "zombie"
  PROVE  child'[c] \in {"zombie", "reaped"}
<1>0. pc[c] # "launching" /\ child \in [Calls -> {"none", "running", "zombie", "reaped"}]
  BY DEF SafetyInv, TypeOK, ReportFits
<1>1. ASSUME NEW d \in Calls, Launch(d) \/ ChildExits(d) \/ Reap(d) PROVE child'[c] \in {"zombie", "reaped"}
  BY <1>0, <1>1 DEF Launch, ChildExits, Reap
<1>2. ASSUME NEW d \in Calls, NEW authorized \in BOOLEAN,
             \/ Call(d, authorized) \/ NotifyAnswered(d) \/ NotifyFails(d) \/ Toast(d) \/ LaunchFails(d)
             \/ CaptureStep(d) \/ NiriAnswers(d) \/ NiriWrites(d) \/ Deadline(d)
      PROVE  UNCHANGED child
  BY <1>2 DEF Call, NotifyAnswered, NotifyFails, Toast, LaunchFails, CaptureStep, CheckLock, Connect,
              ConnectFails, ReadFile, Remove, NiriAnswers, NiriWrites, Deadline, effectVars
<1>3. CASE LockChanges \/ Stop \/ Exit \/ UNCHANGED vars
  BY <1>3 DEF LockChanges, Stop, Exit, vars, effectVars
<1> QED
  BY <1>1, <1>2, <1>3 DEF Next

\* A program that has ended is reaped, also when the daemon is gone by then.
THEOREM ProgramsAreReaped == FairSpec /\ []NobodyIsStuck => ChildrenAreReaped
<1>1. ASSUME NEW c \in Calls
      PROVE  FairSpec /\ []NobodyIsStuck => (child[c] = "zombie" ~> child[c] = "reaped")
  <2> DEFINE Zombie == child[c] = "zombie"
             Reaped == child[c] = "reaped"
  <2>1. SafetyInv /\ [Next]_vars => (Zombie => Zombie' \/ Reaped')
    BY ChildMoves
  <2>2. SafetyInv /\ <<Reap(c)>>_vars => ~Zombie'
    BY DEF SafetyInv, TypeOK, Reap
  <2>3. NobodyIsStuck => (Zombie => ENABLED <<Reap(c)>>_vars)
    BY DEF NobodyIsStuck
  <2>4. FairSpec => Spec /\ [][Next]_vars /\ ToolFair(c)
    BY DEF FairSpec, Spec, Fairness
  <2> HIDE DEF Zombie, Reaped
  <2>5. FairSpec /\ []NobodyIsStuck => (Zombie ~> Reaped)
    BY <2>1, <2>2, <2>3, <2>4, SafetyHolds, PTL DEF ToolFair
  <2> QED
    BY <2>5 DEF Zombie, Reaped
<1> QED
  BY <1>1 DEF ChildrenAreReaped

=============================================================================
