------------------------------- MODULE Panel -------------------------------
(***************************************************************************)
(* The conversation state of the desktop panel: the `HermesService`        *)
(* singleton in src/dms-plugins/hermesPanel/HermesService.qml, which talks *)
(* to the daemon through a `hermes-dms-ctl stream` process.                *)
(*                                                                         *)
(* The QML engine runs one handler at a time, so every user action, every  *)
(* line read from the process and every change of the process is one       *)
(* action.  What interleaves are the answers: the daemon serves requests   *)
(* concurrently, so they come in any order, between any user actions, and  *)
(* the process may end with answers outstanding.                           *)
(*                                                                         *)
(* Requests are numbered in the order of their `_uuid`s, 0 is "none", and  *)
(* a text the user typed is named by the number drawn when it was typed.   *)
(* Rows of the transcript count from 1, so streamIndex is the code's plus  *)
(* one.  Status, models and toasts touch none of this and are left out.    *)
(*                                                                         *)
(* A definition X_Y stands before the definition X it is a mutation of.    *)
(***************************************************************************)
EXTENDS Naturals, Sequences

CONSTANTS MaxRequests,    \* bound: numbered requests over the whole run
          Sessions,       \* desktop sessions the gateway may list
          HistoryLengths, \* numbers of rows a replayed history may have
          NoSession

ASSUME RequestsAssumption == MaxRequests \in Nat
ASSUME SessionsAssumption == /\ Sessions \cap (0..MaxRequests) = {}
                             /\ NoSession \notin Sessions \union (0..MaxRequests)
ASSUME HistoryAssumption == HistoryLengths \subseteq Nat

Requests == 1..MaxRequests
None == 0

\* A conversation id minted by the daemon is named after its create request; the
\* gateway's own session ids, which the switcher lists, are others.
SessionIds == Sessions \union Requests

\* Rows: `of` is the text, request or session a row belongs to; `shows` is the
\* chat request whose answer is written in it.  The code keeps only the role
\* and the text.
User(text) == [role |-> "user", of |-> text, shows |-> None]
Bubble(r) == [role |-> "bubble", of |-> r, shows |-> None]
Past(s) == [role |-> "past", of |-> s, shows |-> None]
ErrorRow == [role |-> "error", of |-> None, shows |-> None]
Row == [role : {"user", "bubble", "past", "error"},
        of : SessionIds \union {None},
        shows : Requests \union {None}]

RequestType == {"none", "create", "chat", "messages"}
Request == [type : RequestType, session : SessionIds \union {NoSession},
            text : Requests \union {None}]

VARIABLES
  running,          \* ctlProc.running
  busy,
  sessionId,
  messages,         \* the transcript
  streamIndex,      \* the row a chat streams into
  pendingMessage,   \* the text that waits for a session
  currentRequestId,
  adoptOnList       \* does the next session list pick a session?

\* The requests the panel has made, and what the daemon still owes for them.
VARIABLES
  used,       \* request ids drawn so far
  request,    \* request[r]: what r asked for
  open,       \* requests written to the process and not answered
  cancelled,  \* requests the panel has asked to cancel
  listing     \* is a session list outstanding?

panelVars == <<busy, sessionId, messages, streamIndex, pendingMessage, currentRequestId>>
daemonVars == <<used, request, open, cancelled, listing>>
vars == <<running, panelVars, adoptOnList, daemonVars>>

TypeOK ==
  /\ running \in BOOLEAN /\ busy \in BOOLEAN /\ adoptOnList \in BOOLEAN
  /\ sessionId \in SessionIds \union {NoSession}
  /\ messages \in Seq(Row)
  /\ streamIndex \in Nat
  /\ pendingMessage \in Requests \union {None}
  /\ currentRequestId \in Requests \union {None}
  /\ used \in 0..MaxRequests
  /\ request \in [Requests -> Request]
  /\ open \subseteq Requests
  /\ cancelled \subseteq Requests
  /\ listing \in BOOLEAN

Init ==
  /\ running = FALSE /\ busy = FALSE /\ adoptOnList = FALSE
  /\ sessionId = NoSession
  /\ messages = <<>> /\ streamIndex = None
  /\ pendingMessage = None /\ currentRequestId = None
  /\ used = 0
  /\ request = [r \in Requests |-> [type |-> "none", session |-> NoSession, text |-> None]]
  /\ open = {} /\ cancelled = {} /\ listing = FALSE

-----------------------------------------------------------------------------
(* Requests.                                                               *)

\* The bound on requests leaves one for the text that waits for a session.
Room(n) == used + n + (IF pendingMessage = None THEN 0 ELSE 1) <= MaxRequests

\* `_send` under a fresh id: it writes nothing, and says so to nobody, when the
\* process is not running.  `owed` are the answers outstanding before it.
Ask(type, session, text, owed) ==
  /\ used' = used + 1
  /\ request' = [request EXCEPT ![used + 1] =
                   [type |-> type, session |-> session, text |-> text]]
  /\ open' = IF running THEN owed \union {used + 1} ELSE owed

Answered(r) == open' = open \ {r}

\* `_startChat` on a transcript that holds the rows `shown`.
StartChat(text, session, shown, owed) ==
  /\ currentRequestId' = used + 1
  /\ messages' = Append(shown, Bubble(used + 1))
  /\ streamIndex' = Len(shown) + 1
  /\ Ask("chat", session, text, owed)

-----------------------------------------------------------------------------
(* What the user does.                                                     *)

\* sendMessage (also the "/model" command of setModel): without a session the
\* text waits for one to be created.
SendMessage ==
  /\ ~busy
  /\ busy' = TRUE
  /\ LET text == used + 1
         shown == Append(messages, User(text))
     IN  \/ /\ sessionId # NoSession /\ Room(1)
            /\ StartChat(text, sessionId, shown, open)
            /\ UNCHANGED pendingMessage
         \/ /\ sessionId = NoSession /\ used + 2 <= MaxRequests
            /\ messages' = shown
            /\ pendingMessage' = text
            /\ currentRequestId' = used + 1
            /\ Ask("create", NoSession, None, open)
            /\ UNCHANGED streamIndex
  /\ UNCHANGED <<running, sessionId, adoptOnList, cancelled, listing>>

Cancel ==
  /\ currentRequestId # None
  /\ running
  /\ cancelled' = cancelled \union {currentRequestId}
  /\ UNCHANGED <<running, panelVars, adoptOnList, used, request, open, listing>>

\* The text that waits for a session keeps waiting.
NewConversation_KeepStream ==
  /\ Room(1)
  /\ sessionId' = NoSession /\ currentRequestId' = None
  /\ busy' = FALSE /\ messages' = <<>>
  /\ Ask("create", NoSession, None, open)
  /\ listing' = (listing \/ running)
  /\ UNCHANGED <<running, streamIndex, pendingMessage, adoptOnList, cancelled>>
NewConversation ==
  /\ Room(1)
  /\ sessionId' = NoSession /\ currentRequestId' = None
  /\ busy' = FALSE /\ streamIndex' = None /\ messages' = <<>>
  /\ Ask("create", NoSession, None, open)
  /\ listing' = (listing \/ running)
  /\ UNCHANGED <<running, pendingMessage, adoptOnList, cancelled>>

\* resumeSession: the request in progress stays the current one.
Resume(s) ==
  /\ s # sessionId
  /\ sessionId' = s
  /\ busy' = FALSE /\ streamIndex' = None /\ messages' = <<>>
  /\ Ask("messages", s, None, open)
  /\ UNCHANGED <<running, pendingMessage, currentRequestId, cancelled>>

\* An entry of the session menu is clicked.
ChooseSession(s) ==
  /\ Room(1)
  /\ Resume(s)
  /\ UNCHANGED <<adoptOnList, listing>>

\* The session menu is opened.
ListSessions ==
  /\ running /\ ~listing
  /\ listing' = TRUE
  /\ UNCHANGED <<running, panelVars, adoptOnList, used, request, open, cancelled>>

-----------------------------------------------------------------------------
(* What the daemon answers: `_handleLine`.                                 *)

\* Drafts replace the text of the row; past the end nothing is replaced.
Draft_AnyRequest(r) ==
  /\ r \in open /\ request[r].type = "chat"
  /\ streamIndex # None
  /\ messages' = IF streamIndex > Len(messages) THEN messages
                 ELSE [messages EXCEPT ![streamIndex].shows = r]
  /\ UNCHANGED <<running, busy, sessionId, streamIndex, pendingMessage, currentRequestId,
                 adoptOnList, daemonVars>>
Draft(r) ==
  /\ r \in open /\ request[r].type = "chat"
  /\ r = currentRequestId /\ streamIndex # None
  /\ messages' = IF streamIndex > Len(messages) THEN messages
                 ELSE [messages EXCEPT ![streamIndex].shows = r]
  /\ UNCHANGED <<running, busy, sessionId, streamIndex, pendingMessage, currentRequestId,
                 adoptOnList, daemonVars>>

\* The chat of another request has ended; or this one's, but its row is past
\* the end, where reading the row's text throws and ends the handler.
Ignored(r) == r # currentRequestId \/ streamIndex > Len(messages)

IsEmpty(row) == row.role = "bubble" /\ row.shows = None

\* The final text is used when the row is still empty, and may be empty itself.
ChatComplete(r) ==
  /\ r \in open /\ request[r].type = "chat"
  /\ Answered(r)
  /\ \/ Ignored(r) /\ UNCHANGED <<panelVars, listing>>
     \/ /\ ~Ignored(r)
        /\ \/ /\ streamIndex # None /\ IsEmpty(messages[streamIndex])
              /\ messages' = [messages EXCEPT ![streamIndex].shows = r]
           \/ UNCHANGED messages
        /\ busy' = FALSE /\ streamIndex' = None /\ currentRequestId' = None
        /\ listing' = TRUE
        /\ UNCHANGED <<sessionId, pendingMessage>>
  /\ UNCHANGED <<running, adoptOnList, used, request, cancelled>>

\* Whichever creation this answers, it becomes the session, and a text that
\* waits is sent to it.
SessionCreated_KeepPending(r) ==
  /\ r \in open /\ request[r].type = "create"
  /\ sessionId' = r
  /\ \/ /\ pendingMessage = None
        /\ Answered(r)
        /\ UNCHANGED <<messages, streamIndex, currentRequestId, used, request>>
     \/ /\ pendingMessage # None
        /\ StartChat(pendingMessage, r, messages, open \ {r})
  /\ UNCHANGED <<running, busy, pendingMessage, adoptOnList, cancelled, listing>>
SessionCreated(r) ==
  /\ r \in open /\ request[r].type = "create"
  /\ sessionId' = r
  /\ \/ /\ pendingMessage = None
        /\ Answered(r)
        /\ UNCHANGED <<messages, streamIndex, pendingMessage, currentRequestId, used, request>>
     \/ /\ pendingMessage # None
        /\ pendingMessage' = None
        /\ StartChat(pendingMessage, r, messages, open \ {r})
  /\ UNCHANGED <<running, busy, adoptOnList, cancelled, listing>>

\* A session list adopts the newest session, once, if there is none yet.
SessionsListed(listed) ==
  /\ listing /\ listing' = FALSE
  /\ adoptOnList' = FALSE
  /\ \/ /\ adoptOnList /\ sessionId = NoSession /\ Room(1)
        /\ \E s \in listed : Resume(s)
     \/ /\ ~adoptOnList \/ sessionId # NoSession \/ listed = {}
        /\ UNCHANGED <<running, panelVars, used, request, open, cancelled>>

ListFailed ==
  /\ listing /\ listing' = FALSE
  /\ UNCHANGED <<running, panelVars, adoptOnList, used, request, open, cancelled>>

\* The history of the session on show replaces the transcript; streamIndex is
\* left alone.
Replay(r) ==
  /\ r \in open /\ request[r].type = "messages"
  /\ Answered(r)
  /\ \/ /\ request[r].session = sessionId
        /\ \E n \in HistoryLengths : messages' = [i \in 1..n |-> Past(sessionId)]
     \/ request[r].session # sessionId /\ UNCHANGED messages
  /\ UNCHANGED <<running, busy, sessionId, streamIndex, pendingMessage, currentRequestId,
                 adoptOnList, used, request, cancelled, listing>>

\* An error, among them the one for a cancelled chat.  The daemon answers no
\* creation with one, and one without a request id only to a malformed line,
\* which the panel does not write.
Failed_KeepBusy(r) ==
  /\ r \in open /\ request[r].type # "create"
  /\ Answered(r)
  /\ \/ /\ r = currentRequestId
        /\ messages' = Append(messages, ErrorRow)
        /\ streamIndex' = None /\ currentRequestId' = None
     \/ r # currentRequestId /\ UNCHANGED <<messages, streamIndex, currentRequestId>>
  /\ UNCHANGED <<busy, running, sessionId, pendingMessage, adoptOnList, used, request,
                 cancelled, listing>>
Failed(r) ==
  /\ r \in open /\ request[r].type # "create"
  /\ Answered(r)
  /\ \/ /\ r = currentRequestId
        /\ messages' = Append(messages, ErrorRow)
        /\ busy' = FALSE /\ streamIndex' = None /\ currentRequestId' = None
     \/ r # currentRequestId /\ UNCHANGED <<messages, busy, streamIndex, currentRequestId>>
  /\ UNCHANGED <<running, sessionId, pendingMessage, adoptOnList, used, request,
                 cancelled, listing>>

-----------------------------------------------------------------------------
(* The `hermes-dms-ctl stream` process.                                    *)

\* It starts with the shell, and again by the reconnect timer.
CtlStart ==
  /\ ~running
  /\ running' = TRUE
  /\ adoptOnList' = (sessionId = NoSession)
  /\ listing' = TRUE
  /\ UNCHANGED <<panelVars, used, request, open, cancelled>>

\* It ends with its connection to the daemon, and the answers end with it.
CtlExit ==
  /\ running
  /\ running' = FALSE
  /\ busy' = FALSE /\ currentRequestId' = None /\ streamIndex' = None
  /\ open' = {} /\ listing' = FALSE
  /\ UNCHANGED <<sessionId, messages, pendingMessage, adoptOnList, used, request, cancelled>>

-----------------------------------------------------------------------------
\* The daemon answers every request but a chat in any case, and a chat that
\* has been cancelled (CancelEndsTurn of Bridge).
Owed(r) ==
  /\ request[r].type = "chat" => r \in cancelled
  /\ ChatComplete(r) \/ SessionCreated(r) \/ Replay(r) \/ Failed(r)

Next == \/ SendMessage \/ Cancel \/ NewConversation \/ ListSessions
        \/ \E s \in Sessions : ChooseSession(s)
        \/ \E r \in Requests : \/ Draft(r) \/ ChatComplete(r) \/ SessionCreated(r)
                               \/ Replay(r) \/ Failed(r)
        \/ \E listed \in SUBSET Sessions : SessionsListed(listed)
        \/ ListFailed
        \/ CtlStart \/ CtlExit

Spec == Init /\ [][Next]_vars

\* The daemon answers, and the timer restarts the process; the user owes nothing.
AnswerFair(r) == WF_vars(Owed(r))
CtlFair == WF_vars(CtlStart)
Fairness == (\A r \in Requests : AnswerFair(r)) /\ CtlFair

FairSpec == Spec /\ Fairness
-----------------------------------------------------------------------------
(* Properties.                                                             *)

\* The panel waits for nothing that its stop button cannot name: while it is busy
\* there is a current request, and while a row streams that request is a chat, so
\* that no creation and no history answers to its id.
WaitingHasRequest ==
  /\ busy => currentRequestId # None
  /\ streamIndex # None =>
       currentRequestId # None /\ request[currentRequestId].type = "chat"

\* Nor for an answer that cannot come: what the daemon owes the panel can take, also
\* when it sends the text that waits and that needs a request of its own.
StopIsNotStuck ==
  /\ WaitingHasRequest
  /\ \A r \in Requests :
       r \in open /\ (request[r].type = "chat" => r \in cancelled) => ENABLED <<Owed(r)>>_vars

\* A row opened for a chat never shows the answer to another, in whatever order
\* drafts, errors, sessions, histories and new chats come.
BubblesShowTheirOwn ==
  \A i \in DOMAIN messages :
    messages[i].role = "bubble" => messages[i].shows \in {None, messages[i].of}

\* A chat always names a conversation (without one the daemon takes it for a
\* launcher chat), and a text is sent at most once, however many creations are
\* answered while it waits.
TextsAreSentOnce ==
  \A r \in Requests : request[r].type = "chat" =>
    /\ request[r].session # NoSession
    /\ \A q \in Requests \ {r} : request[q].type = "chat" => request[q].text # request[r].text

\* The stop button works: the request it named ends and takes `busy` along, or
\* gives way to the chat it was creating a session for.  The exception is a row
\* that a replayed history has cut off, see StreamIndexIsBubble.
StopEndsBusy ==
  \A r \in Requests :
    (busy /\ currentRequestId = r /\ r \in open \intersect cancelled) ~>
      (~busy \/ currentRequestId \notin {r, None} \/ streamIndex > Len(messages))

\* "Index of the assistant message currently streaming (-1 = none)."
\* (HermesService.qml:32)
StreamIndexIsBubble ==
  streamIndex # None =>
    streamIndex <= Len(messages) /\ messages[streamIndex].role = "bubble"

\* "Track the create's request_id so a failed creation surfaces as an error and
\* clears `busy` instead of hanging." (HermesService.qml:71-73)
CreatingEnds ==
  \A r \in Requests :
    (busy /\ currentRequestId = r /\ request[r].type = "create") ~>
      (~busy \/ currentRequestId # r)
=============================================================================
