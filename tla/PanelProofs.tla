---------------------------- MODULE PanelProofs ----------------------------
(***************************************************************************)
(* Panel for any number of requests, any sessions and any histories.  Two  *)
(* invariants, the second resting on the first: what the requests are      *)
(* (numbers, sessions, texts), and what the transcript shows.  With a      *)
(* third, of the current request, the stop button, up to ENABLED.          *)
(***************************************************************************)
EXTENDS Panel, TLAPS

\* The request kept back for a text that waits can still be made.
RoomIsKept == pendingMessage # None => used < MaxRequests

\* Chats and histories name a session.
SessionsAreNamed ==
  \A r \in Requests : request[r].type \in {"chat", "messages"} => request[r].session # NoSession

\* Numbers that have not been drawn are in no use.
NumbersAreDrawn ==
  /\ currentRequestId <= used /\ pendingMessage <= used
  /\ \A r \in Requests : request[r].text <= used
  /\ \A r \in Requests : r > used => request[r].type = "none"

\* A text that waits for a session has not been sent.
PendingIsUnsent ==
  pendingMessage # None =>
    \A r \in Requests : request[r].type = "chat" => request[r].text # pendingMessage

NumbersInv == NumbersAreDrawn /\ PendingIsUnsent /\ TextsAreSentOnce

\* A chat streams in a session.
StreamHasSession == streamIndex # None => sessionId # NoSession

\* The row a chat streams into, if it is a bubble, is its own.
StreamIsOwn ==
  streamIndex # None /\ streamIndex <= Len(messages) /\ messages[streamIndex].role = "bubble"
    => messages[streamIndex].of = currentRequestId

TranscriptInv ==
  /\ StreamHasSession /\ WaitingHasRequest
  /\ StreamIsOwn /\ BubblesShowTheirOwn

-----------------------------------------------------------------------------
(* Requests and rows.                                                      *)

\* What a new request leaves: its record, and every other as it was.
LEMMA AskRecords ==
  ASSUME TypeOK, used < MaxRequests, NEW type \in RequestType,
         NEW session \in SessionIds \cup {NoSession}, NEW text \in Requests \cup {None},
         NEW owed \in SUBSET Requests, Ask(type, session, text, owed)
  PROVE  /\ used + 1 \in Requests /\ used' = used + 1 /\ used' \in 0..MaxRequests
         /\ request' \in [Requests -> Request] /\ open' \subseteq Requests
         /\ request'[used + 1] = [type |-> type, session |-> session, text |-> text]
         /\ \A r \in Requests \ {used + 1} : request'[r] = request[r]
<1> DEFINE new == [type |-> type, session |-> session, text |-> text]
<1>1. used \in Nat /\ MaxRequests \in Nat /\ used + 1 \in Requests /\ used + 1 \in 0..MaxRequests
  BY RequestsAssumption DEF TypeOK, Requests
<1>2. new \in Request
  BY DEF Request
<1>3. request' = [request EXCEPT ![used + 1] = new] /\ used' = used + 1
  BY DEF Ask
<1>4. open' \subseteq Requests
  BY <1>1 DEF Ask
<1> HIDE DEF new
<1>5. request' \in [Requests -> Request]
  BY <1>1, <1>2, <1>3 DEF TypeOK
<1>6. request'[used + 1] = new /\ \A r \in Requests \ {used + 1} : request'[r] = request[r]
  BY <1>1, <1>3 DEF TypeOK
<1> QED
  BY <1>1, <1>3, <1>4, <1>5, <1>6 DEF new

LEMMA RowsAreRows ==
  ASSUME TypeOK
  PROVE  /\ \A r \in Requests : User(r) \in Row /\ Bubble(r) \in Row
         /\ \A s \in SessionIds : Past(s) \in Row
         /\ ErrorRow \in Row
BY DEF User, Bubble, Past, ErrorRow, Row, SessionIds, Requests, None

\* Writing into a row of the transcript changes what it shows alone.
LEMMA RowTakesDraft ==
  ASSUME TypeOK, NEW r \in Requests, NEW k \in 1..Len(messages),
         messages' = [messages EXCEPT ![k].shows = r]
  PROVE  /\ messages' \in Seq(Row) /\ Len(messages') = Len(messages)
         /\ messages'[k].role = messages[k].role /\ messages'[k].of = messages[k].of
         /\ messages'[k].shows = r
         /\ \A i \in 1..Len(messages) \ {k} : messages'[i] = messages[i]
<1>1. messages \in Seq(Row) /\ messages[k] \in Row
  BY DEF TypeOK
<1> DEFINE row == [messages[k] EXCEPT !.shows = r]
<1>2. row \in Row /\ row.role = messages[k].role /\ row.of = messages[k].of /\ row.shows = r
  BY <1>1 DEF Row
<1>3. messages' = [messages EXCEPT ![k] = row]
  OBVIOUS
<1> HIDE DEF row
<1>4. messages' \in Seq(Row) /\ Len(messages') = Len(messages)
  BY <1>1, <1>2, <1>3
<1>5. messages'[k] = row /\ \A i \in 1..Len(messages) \ {k} : messages'[i] = messages[i]
  BY <1>1, <1>3
<1> QED
  BY <1>2, <1>4, <1>5

-----------------------------------------------------------------------------
(* Types, and the sessions of requests.                                    *)

Types == TypeOK /\ RoomIsKept /\ SessionsAreNamed

LEMMA TypesInit == Init => Types
<1> SUFFICES ASSUME Init PROVE Types
  OBVIOUS
<1> DEFINE blank == [type |-> "none", session |-> NoSession, text |-> None]
<1>1. blank \in Request /\ blank.type = "none"
  BY DEF Request, RequestType
<1>2. request = [r \in Requests |-> blank]
  BY DEF Init
<1> HIDE DEF blank
<1>3. request \in [Requests -> Request] /\ \A r \in Requests : request[r].type = "none"
  BY <1>1, <1>2
<1>4. messages \in Seq(Row) /\ streamIndex \in Nat /\ used \in 0..MaxRequests
  BY RequestsAssumption DEF Init, None
<1>5. TypeOK
  BY <1>3, <1>4 DEF Init, TypeOK
<1>6. RoomIsKept /\ SessionsAreNamed
  BY <1>3 DEF Init, RoomIsKept, SessionsAreNamed
<1> QED
  BY <1>5, <1>6 DEF Types

\* A step that makes no request and keeps what waits needs no more than types.
LEMMA QuietTypes ==
  ASSUME Types, TypeOK', UNCHANGED <<used, request>>, pendingMessage' \in {pendingMessage, None}
  PROVE  Types'
BY DEF Types, RoomIsKept, SessionsAreNamed

\* A step that makes one request.
LEMMA AskTypes ==
  ASSUME Types, TypeOK', used < MaxRequests, NEW type \in RequestType,
         NEW session \in SessionIds \cup {NoSession}, NEW text \in Requests \cup {None},
         NEW owed \in SUBSET Requests, Ask(type, session, text, owed),
         type = "create" \/ session # NoSession,
         pendingMessage' # None => used + 1 < MaxRequests
  PROVE  Types'
<1>1. /\ used + 1 \in Requests /\ used' = used + 1
      /\ request'[used + 1] = [type |-> type, session |-> session, text |-> text]
      /\ \A r \in Requests \ {used + 1} : request'[r] = request[r]
  BY AskRecords DEF Types
<1>2. RoomIsKept'
  BY <1>1 DEF RoomIsKept
<1>3. SessionsAreNamed'
  BY <1>1 DEF Types, SessionsAreNamed
<1> QED
  BY <1>2, <1>3 DEF Types

LEMMA TypesStep == Types /\ [Next]_vars => Types'
<1> SUFFICES ASSUME Types, [Next]_vars PROVE Types'
  OBVIOUS
<1>t. TypeOK /\ used \in Nat /\ MaxRequests \in Nat /\ used <= MaxRequests
  BY RequestsAssumption DEF Types, TypeOK
<1>n. None = 0 /\ None \notin Requests /\ NoSession \notin SessionIds
  BY SessionsAssumption, RequestsAssumption DEF None, Requests, SessionIds
<1>y. {"create", "chat", "messages"} \subseteq RequestType
  BY DEF RequestType
<1>r. Room(1) => used < MaxRequests /\ (pendingMessage # None => used + 1 < MaxRequests)
  BY <1>t DEF Room
<1>1. CASE SendMessage
  <2>1. CASE sessionId # NoSession /\ Room(1) /\ UNCHANGED pendingMessage
             /\ StartChat(used + 1, sessionId, Append(messages, User(used + 1)), open)
    <3>1. Ask("chat", sessionId, used + 1, open) /\ used + 1 \in Requests
      BY <2>1, <1>r, <1>t DEF StartChat, Requests
    <3>2. sessionId \in SessionIds \cup {NoSession} /\ open \in SUBSET Requests
      BY <1>t DEF TypeOK
    <3>3. /\ used' \in 0..MaxRequests /\ request' \in [Requests -> Request] /\ open' \subseteq Requests
      BY <3>1, <3>2, <2>1, <1>r, <1>t, <1>y, AskRecords
    <3>4. messages' \in Seq(Row) /\ streamIndex' \in Nat /\ currentRequestId' \in Requests
      BY <2>1, <3>1, <1>t, RowsAreRows DEF StartChat, TypeOK
    <3>5. TypeOK'
      BY <1>1, <2>1, <3>3, <3>4, <1>t DEF SendMessage, TypeOK
    <3> QED
      BY <2>1, <3>1, <3>2, <3>5, <1>r, <1>y, AskTypes
  <2>2. CASE /\ sessionId = NoSession /\ used + 2 <= MaxRequests
             /\ messages' = Append(messages, User(used + 1))
             /\ pendingMessage' = used + 1 /\ currentRequestId' = used + 1
             /\ Ask("create", NoSession, None, open) /\ UNCHANGED streamIndex
    <3>1. used + 1 \in Requests /\ used < MaxRequests /\ used + 1 < MaxRequests
      BY <2>2, <1>t DEF Requests
    <3>2. open \in SUBSET Requests
      BY <1>t DEF TypeOK
    <3>3. /\ used' \in 0..MaxRequests /\ request' \in [Requests -> Request] /\ open' \subseteq Requests
      BY <3>1, <3>2, <2>2, <1>t, <1>y, AskRecords
    <3>4. messages' \in Seq(Row)
      BY <2>2, <3>1, <1>t, RowsAreRows DEF TypeOK
    <3>5. TypeOK'
      BY <1>1, <2>2, <3>1, <3>3, <3>4, <1>t DEF SendMessage, TypeOK
    <3> QED
      BY <2>2, <3>1, <3>2, <3>5, <1>y, AskTypes
  <2> QED
    BY <1>1, <2>1, <2>2 DEF SendMessage
<1>2. CASE Cancel
  <2>1. TypeOK'
    BY <1>2, <1>t DEF Cancel, panelVars, TypeOK
  <2> QED
    BY <1>2, <2>1, QuietTypes DEF Cancel, panelVars
<1>3. CASE NewConversation
  <2>1. /\ used < MaxRequests /\ Ask("create", NoSession, None, open) /\ open \in SUBSET Requests
        /\ pendingMessage' = pendingMessage
    BY <1>3, <1>r, <1>t DEF NewConversation, TypeOK
  <2>2. /\ used' \in 0..MaxRequests /\ request' \in [Requests -> Request] /\ open' \subseteq Requests
    BY <2>1, <1>t, <1>y, AskRecords
  <2>3. messages' \in Seq(Row) /\ streamIndex' \in Nat /\ listing' \in BOOLEAN
    BY <1>3, <1>t, <1>n DEF NewConversation, TypeOK
  <2>4. TypeOK'
    BY <1>3, <2>1, <2>2, <2>3, <1>t DEF NewConversation, TypeOK
  <2> QED
    BY <1>3, <2>1, <2>4, <1>r, <1>y, AskTypes DEF NewConversation
<1>4. CASE ListSessions
  <2>1. TypeOK'
    BY <1>4, <1>t DEF ListSessions, panelVars, TypeOK
  <2> QED
    BY <1>4, <2>1, QuietTypes DEF ListSessions, panelVars
<1>5. ASSUME NEW s \in Sessions, Room(1), Resume(s), adoptOnList' \in BOOLEAN, listing' \in BOOLEAN
      PROVE  Types'
  <2>1. /\ used < MaxRequests /\ Ask("messages", s, None, open) /\ open \in SUBSET Requests
        /\ s \in SessionIds /\ s # NoSession /\ pendingMessage' = pendingMessage
    BY <1>5, <1>r, <1>t, <1>n DEF Resume, TypeOK, SessionIds
  <2>2. /\ used' \in 0..MaxRequests /\ request' \in [Requests -> Request] /\ open' \subseteq Requests
    BY <2>1, <1>t, <1>y, AskRecords
  <2>3. messages' \in Seq(Row) /\ streamIndex' \in Nat
    BY <1>5, <1>t, <1>n DEF Resume, TypeOK
  <2>4. TypeOK'
    BY <1>5, <2>1, <2>2, <2>3, <1>t DEF Resume, TypeOK
  <2> QED
    BY <1>5, <2>1, <2>4, <1>r, <1>y, AskTypes
<1>6. ASSUME NEW s \in Sessions, ChooseSession(s) PROVE Types'
  BY <1>5, <1>6, <1>t DEF ChooseSession, TypeOK
<1>7. ASSUME NEW r \in Requests, Draft(r) PROVE Types'
  <2>1. CASE streamIndex > Len(messages)
    <3>1. TypeOK'
      BY <1>7, <2>1, <1>t DEF Draft, daemonVars, TypeOK
    <3> QED
      BY <1>7, <3>1, QuietTypes DEF Draft, daemonVars
  <2>2. CASE ~(streamIndex > Len(messages))
    <3>1. streamIndex \in 1..Len(messages)
      BY <1>7, <2>2, <1>t, <1>n DEF Draft, TypeOK
    <3>2. messages' = [messages EXCEPT ![streamIndex].shows = r]
      BY <1>7, <2>2 DEF Draft
    <3>3. messages' \in Seq(Row)
      BY <3>1, <3>2, <1>t, RowTakesDraft
    <3>4. TypeOK'
      BY <1>7, <3>3, <1>t DEF Draft, daemonVars, TypeOK
    <3> QED
      BY <1>7, <3>4, QuietTypes DEF Draft, daemonVars
  <2> QED
    BY <2>1, <2>2
<1>8. ASSUME NEW r \in Requests, ChatComplete(r) PROVE Types'
  <2>1. messages' \in Seq(Row)
    <3>1. CASE messages' = messages
      BY <3>1, <1>t DEF TypeOK
    <3>2. CASE ~Ignored(r) /\ streamIndex # None /\ messages' = [messages EXCEPT ![streamIndex].shows = r]
      <4>1. streamIndex \in 1..Len(messages)
        BY <3>2, <1>t, <1>n DEF Ignored, TypeOK
      <4> QED
        BY <3>2, <4>1, <1>t, RowTakesDraft
    <3> QED
      BY <1>8, <3>1, <3>2 DEF ChatComplete, panelVars
  <2>2. TypeOK'
    <3>1. /\ busy' \in BOOLEAN /\ listing' \in BOOLEAN
          /\ streamIndex' \in Nat /\ currentRequestId' \in Requests \cup {None}
          /\ sessionId' = sessionId /\ pendingMessage' = pendingMessage
      <4>1. CASE UNCHANGED <<panelVars, listing>>
        BY <4>1, <1>t DEF panelVars, TypeOK
      <4>2. CASE /\ busy' = FALSE /\ streamIndex' = None /\ currentRequestId' = None
                 /\ listing' = TRUE /\ UNCHANGED <<sessionId, pendingMessage>>
        BY <4>2, <1>n
      <4> QED
        BY <1>8, <4>1, <4>2 DEF ChatComplete
    <3>2. /\ open' \subseteq Requests
          /\ UNCHANGED <<running, adoptOnList, used, request, cancelled>>
      BY <1>8, <1>t DEF ChatComplete, Answered, TypeOK
    <3>3. /\ running' \in BOOLEAN /\ adoptOnList' \in BOOLEAN /\ cancelled' \subseteq Requests
          /\ used' \in 0..MaxRequests /\ request' \in [Requests -> Request]
      BY <3>2, <1>t DEF TypeOK
    <3>4. /\ sessionId' \in SessionIds \union {NoSession}
          /\ pendingMessage' \in Requests \union {None}
      BY <3>1, <1>t DEF TypeOK
    <3> QED
      BY <2>1, <3>1, <3>2, <3>3, <3>4 DEF TypeOK
  <2> QED
    BY <1>8, <2>2, QuietTypes DEF ChatComplete, panelVars
<1>9. ASSUME NEW r \in Requests, SessionCreated(r) PROVE Types'
  <2>0. r \in SessionIds /\ r # NoSession
    BY <1>n DEF SessionIds
  <2>1. CASE pendingMessage = None
    <3>1. TypeOK'
      BY <1>9, <2>0, <2>1, <1>t DEF SessionCreated, Answered, TypeOK
    <3> QED
      BY <1>9, <2>1, <3>1, QuietTypes DEF SessionCreated
  <2>2. CASE pendingMessage # None
    <3>1. /\ used < MaxRequests /\ used + 1 \in Requests /\ pendingMessage \in Requests
          /\ open \ {r} \in SUBSET Requests /\ pendingMessage' = None
          /\ StartChat(pendingMessage, r, messages, open \ {r})
      BY <1>9, <2>2, <1>t, <1>n DEF SessionCreated, Types, RoomIsKept, TypeOK, Requests
    <3>2. Ask("chat", r, pendingMessage, open \ {r})
      BY <3>1 DEF StartChat
    <3>3. /\ used' \in 0..MaxRequests /\ request' \in [Requests -> Request] /\ open' \subseteq Requests
      BY <2>0, <3>1, <3>2, <1>t, <1>y, AskRecords
    <3>4. messages' \in Seq(Row) /\ streamIndex' \in Nat /\ currentRequestId' \in Requests
      BY <3>1, <1>t, RowsAreRows DEF StartChat, TypeOK
    <3>5. TypeOK'
      BY <1>9, <2>0, <3>1, <3>3, <3>4, <1>t DEF SessionCreated, TypeOK
    <3> QED
      BY <2>0, <3>1, <3>2, <3>5, <1>y, AskTypes
  <2> QED
    BY <2>1, <2>2
<1>10. ASSUME NEW listed \in SUBSET Sessions, SessionsListed(listed) PROVE Types'
  <2>1. CASE UNCHANGED <<running, panelVars, used, request, open, cancelled>>
    <3>1. TypeOK'
      BY <1>10, <2>1, <1>t DEF SessionsListed, panelVars, TypeOK
    <3> QED
      BY <2>1, <3>1, QuietTypes DEF panelVars
  <2>2. ASSUME NEW s \in listed, Room(1), Resume(s) PROVE Types'
    BY <1>10, <2>2, <1>5 DEF SessionsListed
  <2> QED
    BY <1>10, <2>1, <2>2 DEF SessionsListed
<1>11. CASE ListFailed
  <2>1. TypeOK'
    BY <1>11, <1>t DEF ListFailed, panelVars, TypeOK
  <2> QED
    BY <1>11, <2>1, QuietTypes DEF ListFailed, panelVars
<1>12. ASSUME NEW r \in Requests, Replay(r) PROVE Types'
  <2>1. messages' \in Seq(Row)
    <3>1. CASE request[r].session = sessionId
      <4>1. sessionId \in SessionIds
        BY <1>12, <3>1, <1>t DEF Replay, Types, SessionsAreNamed, TypeOK
      <4>2. PICK n \in HistoryLengths : messages' = [i \in 1..n |-> Past(sessionId)]
        BY <1>12, <3>1 DEF Replay
      <4>3. n \in Nat /\ Past(sessionId) \in Row
        BY <4>1, HistoryAssumption, RowsAreRows, <1>t
      <4> QED
        BY <4>2, <4>3
    <3>2. CASE request[r].session # sessionId
      BY <1>12, <3>2, <1>t DEF Replay, TypeOK
    <3> QED
      BY <3>1, <3>2
  <2>2. TypeOK'
    BY <1>12, <2>1, <1>t DEF Replay, Answered, TypeOK
  <2> QED
    BY <1>12, <2>2, QuietTypes DEF Replay
<1>13. ASSUME NEW r \in Requests, Failed(r) PROVE Types'
  <2>1. messages' \in Seq(Row)
    BY <1>13, <1>t, RowsAreRows DEF Failed, TypeOK
  <2>2. TypeOK'
    <3>1. /\ busy' \in BOOLEAN /\ streamIndex' \in Nat
          /\ currentRequestId' \in Requests \cup {None}
      <4>1. CASE UNCHANGED <<messages, busy, streamIndex, currentRequestId>>
        BY <4>1, <1>t DEF TypeOK
      <4>2. CASE busy' = FALSE /\ streamIndex' = None /\ currentRequestId' = None
        BY <4>2, <1>n
      <4> QED
        BY <1>13, <4>1, <4>2 DEF Failed
    <3>2. /\ open' \subseteq Requests
          /\ UNCHANGED <<running, sessionId, pendingMessage, adoptOnList, used, request,
                         cancelled, listing>>
      BY <1>13, <1>t DEF Failed, Answered, TypeOK
    <3>3. /\ running' \in BOOLEAN /\ adoptOnList' \in BOOLEAN /\ listing' \in BOOLEAN
          /\ cancelled' \subseteq Requests
          /\ used' \in 0..MaxRequests /\ request' \in [Requests -> Request]
      BY <3>2, <1>t DEF TypeOK
    <3>4. /\ sessionId' \in SessionIds \union {NoSession}
          /\ pendingMessage' \in Requests \union {None}
      BY <3>2, <1>t DEF TypeOK
    <3> QED
      BY <2>1, <3>1, <3>2, <3>3, <3>4 DEF TypeOK
  <2> QED
    BY <1>13, <2>2, QuietTypes DEF Failed
<1>14. CASE CtlStart
  <2>1. TypeOK'
    BY <1>14, <1>t DEF CtlStart, panelVars, TypeOK
  <2> QED
    BY <1>14, <2>1, QuietTypes DEF CtlStart, panelVars
<1>15. CASE CtlExit
  <2>1. TypeOK'
    BY <1>15, <1>t, <1>n DEF CtlExit, TypeOK
  <2> QED
    BY <1>15, <2>1, QuietTypes DEF CtlExit
<1>16. CASE UNCHANGED vars
  <2>1. TypeOK'
    BY <1>16, <1>t DEF vars, panelVars, daemonVars, TypeOK
  <2> QED
    BY <1>16, <2>1, QuietTypes DEF vars, panelVars, daemonVars
<1> QED
  BY <1>1, <1>2, <1>3, <1>4, <1>6, <1>7, <1>8, <1>9, <1>10, <1>11, <1>12, <1>13,
     <1>14, <1>15, <1>16 DEF Next

\* The panel is well typed: no action indexes a request or a row that is not there,
\* and the bound on requests never stops a text that waits (HermesService.qml).
THEOREM PanelTypeCorrect == Spec => []TypeOK
<1>1. Types => TypeOK
  BY DEF Types
<1> QED
  BY <1>1, TypesInit, TypesStep, PTL DEF Spec

-----------------------------------------------------------------------------
(* What the requests are: numbers drawn in order, texts sent once.         *)

\* A step that makes no request draws no number.
LEMMA QuietNumbers ==
  ASSUME NumbersInv, UNCHANGED <<used, request>>, used \in Nat,
         pendingMessage' \in {pendingMessage, None},
         currentRequestId' \in {currentRequestId, None}
  PROVE  NumbersInv'
BY DEF NumbersInv, NumbersAreDrawn, PendingIsUnsent, TextsAreSentOnce, None

\* A step that makes one request: a chat sends a text that no other has sent and
\* that does not go on waiting.
LEMMA AskNumbers ==
  ASSUME TypeOK, TypeOK', NumbersInv, used < MaxRequests, NEW type \in RequestType,
         NEW session \in SessionIds \cup {NoSession}, NEW text \in Requests \cup {None},
         NEW owed \in SUBSET Requests, Ask(type, session, text, owed),
         type # "none", text <= used + 1,
         currentRequestId' \in {currentRequestId, used + 1, None},
         pendingMessage' \in {pendingMessage, used + 1, None},
         type = "chat" =>
           /\ session # NoSession /\ text # None /\ text # pendingMessage'
           /\ \A r \in Requests : request[r].type = "chat" => request[r].text # text
  PROVE  NumbersInv'
<1>t. used \in Nat /\ currentRequestId \in Nat /\ pendingMessage \in Nat /\ None = 0
      /\ Requests \subseteq Nat
  BY RequestsAssumption DEF TypeOK, Requests, None
<1>1. /\ used + 1 \in Requests /\ used' = used + 1
      /\ request'[used + 1] = [type |-> type, session |-> session, text |-> text]
      /\ \A r \in Requests \ {used + 1} : request'[r] = request[r]
  BY AskRecords
<1>2. /\ request'[used + 1].type = type /\ request'[used + 1].session = session
      /\ request'[used + 1].text = text
  BY <1>1
<1>3. \A r \in Requests : request[r].text \in Nat
  <2>1. \A r \in Requests : request[r] \in Request
    BY DEF TypeOK
  <2>2. \A q \in Request : q.text \in Requests \cup {None}
    BY DEF Request
  <2>3. \A n \in Requests \cup {None} : n \in Nat
    BY <1>t
  <2> QED
    BY <2>1, <2>2, <2>3
<1>4. NumbersAreDrawn'
  <2>1. currentRequestId' <= used' /\ pendingMessage' <= used'
    BY <1>1, <1>t DEF NumbersInv, NumbersAreDrawn
  <2>2. \A r \in Requests : request'[r].text <= used'
    BY <1>1, <1>2, <1>3, <1>t DEF NumbersInv, NumbersAreDrawn
  <2>3. \A r \in Requests : r > used' => request'[r].type = "none"
    BY <1>1, <1>t DEF NumbersInv, NumbersAreDrawn
  <2> QED
    BY <2>1, <2>2, <2>3 DEF NumbersAreDrawn
<1>5. PendingIsUnsent'
  <2> SUFFICES ASSUME pendingMessage' # None, NEW r \in Requests, request'[r].type = "chat"
               PROVE  request'[r].text # pendingMessage'
    BY DEF PendingIsUnsent
  <2>1. CASE r = used + 1
    BY <2>1, <1>2
  <2>2. CASE r # used + 1
    <3>1. request'[r] = request[r] /\ request[r].text <= used
      BY <2>2, <1>1 DEF NumbersInv, NumbersAreDrawn
    <3> QED
      BY <3>1, <1>3, <1>t DEF NumbersInv, PendingIsUnsent
  <2> QED
    BY <2>1, <2>2
<1>6. TextsAreSentOnce'
  <2> SUFFICES ASSUME NEW r \in Requests, request'[r].type = "chat"
               PROVE  /\ request'[r].session # NoSession
                      /\ \A q \in Requests \ {r} :
                           request'[q].type = "chat" => request'[q].text # request'[r].text
    BY DEF TextsAreSentOnce
  <2>1. CASE r = used + 1
    BY <2>1, <1>1, <1>2
  <2>2. CASE r # used + 1
    <3>1. request'[r] = request[r]
      BY <2>2, <1>1
    <3> QED
      BY <3>1, <1>1, <1>2 DEF NumbersInv, TextsAreSentOnce
  <2> QED
    BY <2>1, <2>2
<1> QED
  BY <1>4, <1>5, <1>6 DEF NumbersInv

LEMMA NumbersInit == Init => NumbersInv
<1> SUFFICES ASSUME Init PROVE NumbersInv
  OBVIOUS
<1>1. \A r \in Requests : request[r].type = "none" /\ request[r].text = 0
  BY DEF Init, None
<1>2. currentRequestId = 0 /\ pendingMessage = 0 /\ used = 0
  BY DEF Init, None
<1>3. NumbersAreDrawn
  BY <1>1, <1>2 DEF NumbersAreDrawn
<1>4. PendingIsUnsent /\ TextsAreSentOnce
  BY <1>1 DEF PendingIsUnsent, TextsAreSentOnce
<1> QED
  BY <1>3, <1>4 DEF NumbersInv

LEMMA NumbersStep == Types /\ Types' /\ NumbersInv /\ [Next]_vars => NumbersInv'
<1> SUFFICES ASSUME Types, Types', NumbersInv, [Next]_vars PROVE NumbersInv'
  OBVIOUS
<1>t. /\ TypeOK /\ TypeOK' /\ used \in Nat /\ MaxRequests \in Nat /\ used <= MaxRequests
      /\ open \in SUBSET Requests /\ pendingMessage \in Nat /\ Requests \subseteq Nat
      /\ NoSession \in SessionIds \cup {NoSession} /\ None \in Requests \cup {None}
  BY RequestsAssumption DEF Types, TypeOK, Requests, None
<1>n. None = 0 /\ None \notin Requests /\ NoSession \notin SessionIds
      /\ Sessions \subseteq SessionIds /\ Requests \subseteq SessionIds
  BY SessionsAssumption, RequestsAssumption DEF None, Requests, SessionIds
<1>y. {"create", "chat", "messages"} \subseteq RequestType
  BY DEF RequestType
<1>r. Room(1) => used < MaxRequests
  BY <1>t DEF Room
<1>f. pendingMessage <= used /\ \A r \in Requests : request[r].text <= used
  BY DEF NumbersInv, NumbersAreDrawn
<1>1. CASE SendMessage
  <2>1. CASE sessionId # NoSession /\ Room(1) /\ UNCHANGED pendingMessage
             /\ StartChat(used + 1, sessionId, Append(messages, User(used + 1)), open)
    <3>1. /\ Ask("chat", sessionId, used + 1, open) /\ used + 1 \in Requests
          /\ used < MaxRequests /\ currentRequestId' = used + 1
          /\ sessionId \in SessionIds \cup {NoSession}
      BY <2>1, <1>r, <1>t DEF StartChat, Requests, TypeOK
    <3>2. /\ used + 1 # pendingMessage' /\ used + 1 # None
          /\ \A r \in Requests : request[r].text # used + 1
      BY <2>1, <1>f, <1>t, <1>n
    <3> QED
      BY <2>1, <3>1, <3>2, <1>t, <1>y, AskNumbers
  <2>2. CASE /\ sessionId = NoSession /\ used + 2 <= MaxRequests
             /\ pendingMessage' = used + 1 /\ currentRequestId' = used + 1
             /\ Ask("create", NoSession, None, open)
    <3>1. used < MaxRequests /\ None <= used + 1
      BY <2>2, <1>t, <1>n
    <3> QED
      BY <2>2, <3>1, <1>t, <1>y, AskNumbers
  <2> QED
    BY <1>1, <2>1, <2>2 DEF SendMessage
<1>2. CASE Cancel
  BY <1>2, <1>t, QuietNumbers DEF Cancel, panelVars
<1>3. CASE NewConversation
  <2>1. /\ used < MaxRequests /\ Ask("create", NoSession, None, open) /\ None <= used + 1
        /\ pendingMessage' = pendingMessage /\ currentRequestId' = None
    BY <1>3, <1>r, <1>t, <1>n DEF NewConversation
  <2> QED
    BY <2>1, <1>t, <1>y, AskNumbers
<1>4. CASE ListSessions
  BY <1>4, <1>t, QuietNumbers DEF ListSessions, panelVars
<1>5. ASSUME NEW s \in Sessions, Room(1), Resume(s) PROVE NumbersInv'
  <2>1. /\ used < MaxRequests /\ Ask("messages", s, None, open) /\ None <= used + 1
        /\ s \in SessionIds /\ UNCHANGED <<pendingMessage, currentRequestId>>
    BY <1>5, <1>r, <1>t, <1>n DEF Resume
  <2> QED
    BY <2>1, <1>t, <1>y, AskNumbers
<1>6. ASSUME NEW s \in Sessions, ChooseSession(s) PROVE NumbersInv'
  BY <1>5, <1>6 DEF ChooseSession
<1>7. ASSUME NEW r \in Requests, Draft(r) PROVE NumbersInv'
  BY <1>7, <1>t, QuietNumbers DEF Draft, daemonVars
<1>8. ASSUME NEW r \in Requests, ChatComplete(r) PROVE NumbersInv'
  <2>1. /\ UNCHANGED <<used, request>> /\ pendingMessage' = pendingMessage
        /\ currentRequestId' \in {currentRequestId, None}
    BY <1>8 DEF ChatComplete, panelVars
  <2> QED
    BY <2>1, <1>t, QuietNumbers
<1>9. ASSUME NEW r \in Requests, SessionCreated(r) PROVE NumbersInv'
  <2>1. CASE pendingMessage = None
    BY <1>9, <2>1, <1>t, QuietNumbers DEF SessionCreated
  <2>2. CASE pendingMessage # None
    <3>1. /\ used < MaxRequests /\ pendingMessage \in Requests /\ pendingMessage <= used + 1
          /\ open \ {r} \in SUBSET Requests /\ pendingMessage' = None /\ r \in SessionIds
          /\ currentRequestId' = used + 1 /\ Ask("chat", r, pendingMessage, open \ {r})
      BY <1>9, <2>2, <1>t, <1>f, <1>n
      DEF SessionCreated, StartChat, Types, RoomIsKept, TypeOK
    <3>2. /\ r # NoSession /\ pendingMessage # pendingMessage'
          /\ \A q \in Requests : request[q].type = "chat" => request[q].text # pendingMessage
      BY <3>1, <2>2, <1>n DEF NumbersInv, PendingIsUnsent
    <3> QED
      BY <3>1, <3>2, <2>2, <1>t, <1>y, AskNumbers
  <2> QED
    BY <2>1, <2>2
<1>10. ASSUME NEW listed \in SUBSET Sessions, SessionsListed(listed) PROVE NumbersInv'
  <2>1. CASE UNCHANGED <<running, panelVars, used, request, open, cancelled>>
    BY <2>1, <1>t, QuietNumbers DEF panelVars
  <2>2. ASSUME NEW s \in listed, Room(1), Resume(s) PROVE NumbersInv'
    BY <2>2, <1>5
  <2> QED
    BY <1>10, <2>1, <2>2 DEF SessionsListed
<1>11. CASE ListFailed
  BY <1>11, <1>t, QuietNumbers DEF ListFailed, panelVars
<1>12. ASSUME NEW r \in Requests, Replay(r) PROVE NumbersInv'
  BY <1>12, <1>t, QuietNumbers DEF Replay
<1>13. ASSUME NEW r \in Requests, Failed(r) PROVE NumbersInv'
  BY <1>13, <1>t, QuietNumbers DEF Failed
<1>14. CASE CtlStart
  BY <1>14, <1>t, QuietNumbers DEF CtlStart, panelVars
<1>15. CASE CtlExit
  BY <1>15, <1>t, QuietNumbers DEF CtlExit
<1>16. CASE UNCHANGED vars
  BY <1>16, <1>t, QuietNumbers DEF vars, panelVars, daemonVars
<1> QED
  BY <1>1, <1>2, <1>3, <1>4, <1>6, <1>7, <1>8, <1>9, <1>10, <1>11, <1>12, <1>13,
     <1>14, <1>15, <1>16 DEF Next

\* A chat names a conversation and a text is sent at most once, however many
\* creations are answered while it waits (HermesService.qml, session_created).
THEOREM TextsGoOnce == Spec => []TextsAreSentOnce
<1>1. Init => Types /\ NumbersInv
  BY TypesInit, NumbersInit
<1>2. Types /\ NumbersInv /\ [Next]_vars => (Types /\ NumbersInv)'
  BY TypesStep, NumbersStep
<1>3. NumbersInv => TextsAreSentOnce
  BY DEF NumbersInv
<1> QED
  BY <1>1, <1>2, <1>3, PTL DEF Spec

-----------------------------------------------------------------------------
(* What the transcript shows, and who can stop it.                         *)

\* A stream that has ended leaves only what the rows already show.
LEMMA StreamEnds ==
  ASSUME streamIndex' = None, busy' => currentRequestId' # None, BubblesShowTheirOwn'
  PROVE  TranscriptInv'
BY DEF TranscriptInv, StreamHasSession, WaitingHasRequest, StreamIsOwn

\* A stream that goes on, for the same request and among rows that kept their owner.
LEMMA StreamStays ==
  ASSUME Types, TranscriptInv, UNCHANGED <<streamIndex, currentRequestId>>, busy' => busy,
         sessionId' \in {sessionId} \cup SessionIds,
         currentRequestId # None => request'[currentRequestId] = request[currentRequestId],
         StreamIsOwn', BubblesShowTheirOwn'
  PROVE  TranscriptInv'
<1>1. NoSession \notin SessionIds
  BY SessionsAssumption DEF SessionIds, Requests
<1> QED
  BY <1>1 DEF TranscriptInv, StreamHasSession, WaitingHasRequest

\* The rows of a transcript that grows by one that shows nothing yet.
LEMMA RowsGrow ==
  ASSUME TypeOK, BubblesShowTheirOwn, NEW row \in Row, row.shows = None,
         messages' = Append(messages, row)
  PROVE  /\ BubblesShowTheirOwn' /\ messages' \in Seq(Row)
         /\ Len(messages') = Len(messages) + 1 /\ messages'[Len(messages) + 1] = row
<1>1. messages \in Seq(Row)
  BY DEF TypeOK
<1>2. /\ messages' \in Seq(Row) /\ Len(messages') = Len(messages) + 1
      /\ messages'[Len(messages) + 1] = row
      /\ \A i \in 1..Len(messages) : messages'[i] = messages[i]
  BY <1>1
<1>3. ASSUME NEW i \in DOMAIN messages', messages'[i].role = "bubble"
      PROVE  messages'[i].shows \in {None, messages'[i].of}
  <2>1. i \in 1..Len(messages) \/ i = Len(messages) + 1
    BY <1>1, <1>2
  <2>2. CASE i \in 1..Len(messages)
    BY <2>2, <1>1, <1>2, <1>3 DEF BubblesShowTheirOwn
  <2>3. CASE i = Len(messages) + 1
    BY <2>3, <1>2
  <2> QED
    BY <2>1, <2>2, <2>3
<1> QED
  BY <1>2, <1>3 DEF BubblesShowTheirOwn

\* A chat that starts below rows that show their own.
LEMMA StreamStarts ==
  ASSUME TypeOK, used < MaxRequests, sessionId' # NoSession,
         NEW session \in SessionIds \cup {NoSession}, NEW text \in Requests,
         NEW owed \in SUBSET Requests, NEW shown \in Seq(Row),
         \A i \in DOMAIN shown : shown[i].role = "bubble" => shown[i].shows \in {None, shown[i].of},
         StartChat(text, session, shown, owed)
  PROVE  TranscriptInv'
<1>t. "chat" \in RequestType /\ text \in Requests \cup {None} /\ None \notin Requests
  BY DEF RequestType, None, Requests
<1>1. /\ Ask("chat", session, text, owed) /\ currentRequestId' = used + 1
      /\ messages' = Append(shown, Bubble(used + 1)) /\ streamIndex' = Len(shown) + 1
  BY DEF StartChat
<1>2. /\ used + 1 \in Requests
      /\ request'[used + 1] = [type |-> "chat", session |-> session, text |-> text]
  BY <1>1, <1>t, AskRecords
<1>3. StreamHasSession' /\ WaitingHasRequest'
  BY <1>1, <1>2, <1>t DEF StreamHasSession, WaitingHasRequest
<1>4. /\ Bubble(used + 1) \in Row /\ Bubble(used + 1).of = used + 1
      /\ Bubble(used + 1).shows = None
  BY <1>2, RowsAreRows DEF Bubble
<1>5. /\ Len(messages') = Len(shown) + 1 /\ messages'[Len(shown) + 1] = Bubble(used + 1)
      /\ \A i \in 1..Len(shown) : messages'[i] = shown[i]
  BY <1>1, <1>4
<1>6. StreamIsOwn'
  BY <1>1, <1>4, <1>5 DEF StreamIsOwn
<1>7. ASSUME NEW i \in DOMAIN messages', messages'[i].role = "bubble"
      PROVE  messages'[i].shows \in {None, messages'[i].of}
  <2>1. messages' \in Seq(Row)
    BY <1>1, <1>4
  <2>2. i \in 1..Len(shown) \/ i = Len(shown) + 1
    BY <1>5, <2>1
  <2>3. CASE i \in 1..Len(shown)
    BY <2>3, <1>5, <1>7
  <2>4. CASE i = Len(shown) + 1
    BY <2>4, <1>4, <1>5
  <2> QED
    BY <2>2, <2>3, <2>4
<1> QED
  BY <1>3, <1>6, <1>7 DEF TranscriptInv, BubblesShowTheirOwn

\* The answer that the current chat writes into its row.
LEMMA RowShowsItsOwn ==
  ASSUME TypeOK, TranscriptInv, streamIndex # None, NEW r \in Requests,
         r = currentRequestId, streamIndex \in 1..Len(messages),
         messages' = [messages EXCEPT ![streamIndex].shows = r]
  PROVE  /\ BubblesShowTheirOwn'
         /\ UNCHANGED <<streamIndex, currentRequestId>> => StreamIsOwn'
<1>1. /\ messages' \in Seq(Row) /\ Len(messages') = Len(messages)
      /\ messages'[streamIndex].role = messages[streamIndex].role
      /\ messages'[streamIndex].of = messages[streamIndex].of
      /\ messages'[streamIndex].shows = r
      /\ \A i \in 1..Len(messages) \ {streamIndex} : messages'[i] = messages[i]
  BY RowTakesDraft
<1>2. messages[streamIndex].role = "bubble" => messages[streamIndex].of = r
  BY DEF TranscriptInv, StreamIsOwn
<1>3. messages \in Seq(Row)
  BY DEF TypeOK
<1>4. BubblesShowTheirOwn'
  <2> SUFFICES ASSUME NEW i \in DOMAIN messages', messages'[i].role = "bubble"
               PROVE  messages'[i].shows \in {None, messages'[i].of}
    BY DEF BubblesShowTheirOwn
  <2>1. CASE i = streamIndex
    BY <2>1, <1>1, <1>2
  <2>2. CASE i # streamIndex
    BY <2>2, <1>1, <1>3 DEF TranscriptInv, BubblesShowTheirOwn
  <2> QED
    BY <2>1, <2>2
<1>5. UNCHANGED <<streamIndex, currentRequestId>> => StreamIsOwn'
  BY <1>1, <1>2 DEF StreamIsOwn
<1> QED
  BY <1>4, <1>5

LEMMA TranscriptInit == Init => TranscriptInv
BY DEF Init, TranscriptInv, StreamHasSession, WaitingHasRequest, StreamIsOwn,
       BubblesShowTheirOwn

LEMMA TranscriptStep == Types /\ NumbersInv /\ TranscriptInv /\ [Next]_vars => TranscriptInv'
<1> SUFFICES ASSUME Types, NumbersInv, TranscriptInv, [Next]_vars PROVE TranscriptInv'
  OBVIOUS
<1>t. /\ TypeOK /\ used \in Nat /\ MaxRequests \in Nat /\ used <= MaxRequests
      /\ open \in SUBSET Requests /\ messages \in Seq(Row) /\ Len(messages) \in Nat
      /\ streamIndex \in Nat /\ currentRequestId \in Nat
      /\ sessionId \in SessionIds \cup {NoSession}
      /\ NoSession \in SessionIds \cup {NoSession} /\ None \in Requests \cup {None}
  BY RequestsAssumption DEF Types, TypeOK, Requests, None
<1>n. None = 0 /\ None \notin Requests /\ NoSession \notin SessionIds
      /\ Sessions \subseteq SessionIds /\ Requests \subseteq SessionIds
  BY SessionsAssumption, RequestsAssumption DEF None, Requests, SessionIds
<1>y. {"create", "chat", "messages"} \subseteq RequestType
  BY DEF RequestType
<1>r. Room(1) => used < MaxRequests
  BY <1>t DEF Room
<1>i. /\ StreamHasSession /\ WaitingHasRequest /\ StreamIsOwn
      /\ BubblesShowTheirOwn /\ currentRequestId <= used
  BY DEF TranscriptInv, NumbersInv, NumbersAreDrawn
<1>q. CASE /\ UNCHANGED panelVars
           /\ currentRequestId # None => request'[currentRequestId] = request[currentRequestId]
  <2>1. UNCHANGED <<busy, sessionId, messages, streamIndex, currentRequestId>>
    BY <1>q DEF panelVars
  <2>2. StreamIsOwn' /\ BubblesShowTheirOwn'
    BY <2>1, <1>i DEF StreamIsOwn, BubblesShowTheirOwn
  <2> QED
    BY <2>1, <2>2, <1>q, StreamStays
<1>1. CASE SendMessage
  <2>1. CASE sessionId # NoSession /\ Room(1)
             /\ StartChat(used + 1, sessionId, Append(messages, User(used + 1)), open)
    <3>1. /\ used < MaxRequests /\ used + 1 \in Requests /\ sessionId' = sessionId
      BY <1>1, <2>1, <1>r, <1>t DEF SendMessage, Requests
    <3>2. User(used + 1) \in Row /\ User(used + 1).role = "user"
      BY <3>1, <1>t, RowsAreRows DEF User
    <3> DEFINE shown == Append(messages, User(used + 1))
    <3>3. /\ shown \in Seq(Row) /\ Len(shown) = Len(messages) + 1
          /\ \A i \in 1..Len(messages) : shown[i] = messages[i]
          /\ shown[Len(messages) + 1] = User(used + 1)
      BY <3>2, <1>t
    <3> HIDE DEF shown
    <3>4. ASSUME NEW i \in DOMAIN shown, shown[i].role = "bubble"
          PROVE  shown[i].shows \in {None, shown[i].of}
      <4>1. i \in 1..Len(messages) \/ i = Len(messages) + 1
        BY <3>3, <1>t
      <4>2. CASE i \in 1..Len(messages)
        BY <4>2, <3>3, <3>4, <1>i, <1>t DEF BubblesShowTheirOwn
      <4>3. CASE i = Len(messages) + 1
        BY <4>3, <3>2, <3>3, <3>4
      <4> QED
        BY <4>1, <4>2, <4>3
    <3>5. StartChat(used + 1, sessionId, shown, open)
      BY <2>1 DEF shown
    <3> QED
      BY <2>1, <3>1, <3>3, <3>4, <3>5, <1>t, StreamStarts
  <2>2. CASE /\ sessionId = NoSession /\ used + 2 <= MaxRequests
             /\ messages' = Append(messages, User(used + 1))
             /\ currentRequestId' = used + 1 /\ UNCHANGED streamIndex
    <3>1. streamIndex' = None /\ used + 1 \in Requests /\ used + 1 # None
      BY <2>2, <1>i, <1>t, <1>n DEF StreamHasSession, Requests
    <3>2. User(used + 1) \in Row /\ User(used + 1).shows = None
      BY <3>1, <1>t, RowsAreRows DEF User
    <3>3. BubblesShowTheirOwn'
      BY <2>2, <3>2, <1>t, <1>i, RowsGrow
    <3> QED
      BY <2>2, <3>1, <3>3, StreamEnds
  <2> QED
    BY <1>1, <2>1, <2>2 DEF SendMessage
<1>2. CASE Cancel
  BY <1>2, <1>q DEF Cancel
<1>3. CASE NewConversation
  <2>1. streamIndex' = None /\ busy' = FALSE /\ messages' = <<>>
    BY <1>3 DEF NewConversation
  <2> QED
    BY <2>1, StreamEnds DEF BubblesShowTheirOwn
<1>4. CASE ListSessions
  BY <1>4, <1>q DEF ListSessions
<1>5. ASSUME NEW s \in Sessions, Resume(s) PROVE TranscriptInv'
  <2>1. streamIndex' = None /\ busy' = FALSE /\ messages' = <<>>
    BY <1>5 DEF Resume
  <2> QED
    BY <2>1, StreamEnds DEF BubblesShowTheirOwn
<1>6. ASSUME NEW s \in Sessions, ChooseSession(s) PROVE TranscriptInv'
  BY <1>5, <1>6 DEF ChooseSession
<1>7. ASSUME NEW r \in Requests, Draft(r) PROVE TranscriptInv'
  <2>1. /\ UNCHANGED <<busy, sessionId, streamIndex, currentRequestId, request>>
        /\ r = currentRequestId /\ streamIndex # None
    BY <1>7 DEF Draft, daemonVars
  <2>2. CASE streamIndex > Len(messages)
    <3>1. messages' = messages
      BY <1>7, <2>2 DEF Draft
    <3>2. StreamIsOwn' /\ BubblesShowTheirOwn'
      BY <2>1, <3>1, <1>i DEF StreamIsOwn, BubblesShowTheirOwn
    <3> QED
      BY <2>1, <3>2, StreamStays
  <2>3. CASE ~(streamIndex > Len(messages))
    <3>1. streamIndex \in 1..Len(messages)
      BY <2>1, <2>3, <1>t, <1>n
    <3>2. messages' = [messages EXCEPT ![streamIndex].shows = r]
      BY <1>7, <2>3 DEF Draft
    <3>3. StreamIsOwn' /\ BubblesShowTheirOwn'
      BY <2>1, <3>1, <3>2, <1>t, RowShowsItsOwn
    <3> QED
      BY <2>1, <3>3, StreamStays
  <2> QED
    BY <2>2, <2>3
<1>8. ASSUME NEW r \in Requests, ChatComplete(r) PROVE TranscriptInv'
  <2>1. request' = request
    BY <1>8 DEF ChatComplete
  <2>2. CASE UNCHANGED panelVars
    BY <2>1, <2>2, <1>q
  <2>3. CASE /\ ~Ignored(r) /\ busy' = FALSE /\ streamIndex' = None
             /\ streamIndex # None /\ messages' = [messages EXCEPT ![streamIndex].shows = r]
    <3>1. r = currentRequestId /\ streamIndex \in 1..Len(messages)
      BY <2>3, <1>t, <1>n DEF Ignored
    <3>2. BubblesShowTheirOwn'
      BY <2>3, <3>1, <1>t, RowShowsItsOwn
    <3> QED
      BY <2>3, <3>2, StreamEnds
  <2>4. CASE busy' = FALSE /\ streamIndex' = None /\ messages' = messages
    <3>1. BubblesShowTheirOwn'
      BY <2>4, <1>i DEF BubblesShowTheirOwn
    <3> QED
      BY <2>4, <3>1, StreamEnds
  <2> QED
    BY <1>8, <2>2, <2>3, <2>4 DEF ChatComplete
<1>9. ASSUME NEW r \in Requests, SessionCreated(r) PROVE TranscriptInv'
  <2>1. CASE pendingMessage = None
    <3>1. UNCHANGED <<busy, messages, streamIndex, currentRequestId, request>>
          /\ sessionId' \in SessionIds
      BY <1>9, <2>1, <1>n DEF SessionCreated
    <3>2. StreamIsOwn' /\ BubblesShowTheirOwn'
      BY <3>1, <1>i DEF StreamIsOwn, BubblesShowTheirOwn
    <3> QED
      BY <3>1, <3>2, StreamStays
  <2>2. CASE pendingMessage # None
    <3>1. /\ used < MaxRequests /\ pendingMessage \in Requests /\ open \ {r} \in SUBSET Requests
          /\ r \in SessionIds \cup {NoSession} /\ sessionId' # NoSession
          /\ StartChat(pendingMessage, r, messages, open \ {r})
      BY <1>9, <2>2, <1>t, <1>n DEF SessionCreated, Types, RoomIsKept, TypeOK
    <3>2. \A i \in DOMAIN messages :
            messages[i].role = "bubble" => messages[i].shows \in {None, messages[i].of}
      BY <1>i DEF BubblesShowTheirOwn
    <3> QED
      BY <3>1, <3>2, <1>t, StreamStarts
  <2> QED
    BY <2>1, <2>2
<1>10. ASSUME NEW listed \in SUBSET Sessions, SessionsListed(listed) PROVE TranscriptInv'
  <2>1. CASE UNCHANGED <<running, panelVars, used, request, open, cancelled>>
    BY <2>1, <1>q
  <2>2. ASSUME NEW s \in listed, Resume(s) PROVE TranscriptInv'
    BY <2>2, <1>5
  <2> QED
    BY <1>10, <2>1, <2>2 DEF SessionsListed
<1>11. CASE ListFailed
  BY <1>11, <1>q DEF ListFailed
<1>12. ASSUME NEW r \in Requests, Replay(r) PROVE TranscriptInv'
  <2>1. UNCHANGED <<busy, sessionId, streamIndex, currentRequestId, request>>
    BY <1>12 DEF Replay
  <2>2. StreamIsOwn' /\ BubblesShowTheirOwn'
    <3>1. CASE messages' = messages
      BY <2>1, <3>1, <1>i DEF StreamIsOwn, BubblesShowTheirOwn
    <3>2. ASSUME NEW n \in HistoryLengths, messages' = [i \in 1..n |-> Past(sessionId)]
          PROVE  StreamIsOwn' /\ BubblesShowTheirOwn'
      <4>1. n \in Nat /\ Len(messages') = n /\ DOMAIN messages' = 1..n
            /\ Past(sessionId).role = "past"
        BY <3>2, HistoryAssumption DEF Past
      <4>2. \A i \in 1..n : messages'[i].role = "past"
        BY <3>2, <4>1
      <4>3. streamIndex' # None /\ streamIndex' <= n => streamIndex' \in 1..n
        BY <2>1, <4>1, <1>t, <1>n
      <4> QED
        BY <4>1, <4>2, <4>3 DEF StreamIsOwn, BubblesShowTheirOwn
    <3> QED
      BY <1>12, <3>1, <3>2 DEF Replay
  <2> QED
    BY <2>1, <2>2, StreamStays
<1>13. ASSUME NEW r \in Requests, Failed(r) PROVE TranscriptInv'
  <2>1. CASE messages' = Append(messages, ErrorRow) /\ busy' = FALSE /\ streamIndex' = None
    <3>1. ErrorRow \in Row /\ ErrorRow.shows = None
      BY <1>t, RowsAreRows DEF ErrorRow
    <3>2. BubblesShowTheirOwn'
      BY <2>1, <3>1, <1>t, <1>i, RowsGrow
    <3> QED
      BY <2>1, <3>2, StreamEnds
  <2>2. CASE UNCHANGED <<messages, busy, streamIndex, currentRequestId>>
    BY <1>13, <2>2, <1>q DEF Failed, panelVars
  <2> QED
    BY <1>13, <2>1, <2>2 DEF Failed
<1>14. CASE CtlStart
  BY <1>14, <1>q DEF CtlStart
<1>15. CASE CtlExit
  <2>1. streamIndex' = None /\ busy' = FALSE /\ messages' = messages
    BY <1>15 DEF CtlExit
  <2>2. BubblesShowTheirOwn'
    BY <2>1, <1>i DEF BubblesShowTheirOwn
  <2> QED
    BY <2>1, <2>2, StreamEnds
<1>16. CASE UNCHANGED vars
  BY <1>16, <1>q DEF vars, daemonVars
<1> QED
  BY <1>1, <1>2, <1>3, <1>4, <1>6, <1>7, <1>8, <1>9, <1>10, <1>11, <1>12, <1>13,
     <1>14, <1>15, <1>16 DEF Next

THEOREM PanelInvariant == Spec => [](Types /\ NumbersInv /\ TranscriptInv)
<1>1. Init => Types /\ NumbersInv /\ TranscriptInv
  BY TypesInit, NumbersInit, TranscriptInit
<1>2. Types /\ NumbersInv /\ TranscriptInv /\ [Next]_vars => (Types /\ NumbersInv /\ TranscriptInv)'
  BY TypesStep, NumbersStep, TranscriptStep
<1> QED
  BY <1>1, <1>2, PTL DEF Spec

\* What the panel waits for, or streams into the transcript, has a request that
\* the stop button names (HermesService.qml, cancel and chat_delta).
THEOREM WaitingIsNamed == Spec => []WaitingHasRequest
<1>1. TranscriptInv => WaitingHasRequest
  BY DEF TranscriptInv
<1> QED
  BY <1>1, PanelInvariant, PTL

\* No row opened for a chat ever shows the answer to another.
THEOREM BubblesAreTheirOwn == Spec => []BubblesShowTheirOwn
<1>1. TranscriptInv => BubblesShowTheirOwn
  BY DEF TranscriptInv
<1> QED
  BY <1>1, PanelInvariant, PTL
-----------------------------------------------------------------------------
(* The stop button.                                                        *)

\* The current request is a chat, or a creation that a text waits for.
CurrentFits ==
  currentRequestId # None =>
    \/ request[currentRequestId].type = "chat"
    \/ request[currentRequestId].type = "create" /\ pendingMessage # None

\* What a step can be, seen from the current request: it stays, or is dropped,
\* or gives way to a new one, a chat or a creation with its text.
LEMMA CurrentSteps ==
  ASSUME Types, NumbersInv, [Next]_vars
  PROVE  \/ /\ UNCHANGED <<currentRequestId, pendingMessage>>
            /\ currentRequestId # None => request'[currentRequestId] = request[currentRequestId]
         \/ currentRequestId' = None
         \/ /\ currentRequestId' = used + 1
            /\ \/ request'[used + 1].type = "chat"
               \/ request'[used + 1].type = "create" /\ pendingMessage' # None
<1>t. /\ TypeOK /\ used \in Nat /\ MaxRequests \in Nat /\ used <= MaxRequests
      /\ request \in [Requests -> Request] /\ open \in SUBSET Requests
      /\ currentRequestId \in Requests \cup {None} /\ currentRequestId <= used
  BY RequestsAssumption DEF Types, TypeOK, NumbersInv, NumbersAreDrawn
<1>n. None = 0 /\ Requests = 1..MaxRequests
  BY DEF None, Requests
<1>a. ASSUME NEW type, NEW session, NEW text, NEW owed, Ask(type, session, text, owed), used < MaxRequests
      PROVE  /\ request'[used + 1].type = type
             /\ currentRequestId # None => request'[currentRequestId] = request[currentRequestId]
  BY <1>a, <1>t, <1>n DEF Ask
<1>r. Room(1) => used < MaxRequests
  BY <1>t DEF Room
<1>1. CASE SendMessage
  <2>1. CASE sessionId # NoSession /\ Room(1)
             /\ StartChat(used + 1, sessionId, Append(messages, User(used + 1)), open)
    BY <2>1, <1>r, <1>a DEF StartChat
  <2>2. CASE /\ sessionId = NoSession /\ used + 2 <= MaxRequests
             /\ pendingMessage' = used + 1 /\ currentRequestId' = used + 1
             /\ Ask("create", NoSession, None, open)
    <3>1. used < MaxRequests /\ used + 1 # None
      BY <2>2, <1>t, <1>n
    <3> QED
      BY <2>2, <3>1, <1>a
  <2> QED
    BY <1>1, <2>1, <2>2 DEF SendMessage
<1>2. CASE Cancel \/ ListSessions \/ ListFailed \/ CtlStart \/ CtlExit \/ NewConversation
  BY <1>2 DEF Cancel, ListSessions, ListFailed, CtlStart, CtlExit, NewConversation, panelVars
<1>3. ASSUME NEW s \in Sessions, Room(1), Resume(s)
      PROVE  /\ UNCHANGED <<currentRequestId, pendingMessage>>
             /\ currentRequestId # None => request'[currentRequestId] = request[currentRequestId]
  BY <1>3, <1>r, <1>a DEF Resume
<1>4. ASSUME NEW s \in Sessions, ChooseSession(s)
      PROVE  /\ UNCHANGED <<currentRequestId, pendingMessage>>
             /\ currentRequestId # None => request'[currentRequestId] = request[currentRequestId]
  BY <1>3, <1>4 DEF ChooseSession
<1>5. ASSUME NEW listed \in SUBSET Sessions, SessionsListed(listed)
      PROVE  /\ UNCHANGED <<currentRequestId, pendingMessage>>
             /\ currentRequestId # None => request'[currentRequestId] = request[currentRequestId]
  BY <1>3, <1>5 DEF SessionsListed, panelVars
<1>6. ASSUME NEW r \in Requests, Draft(r) \/ ChatComplete(r) \/ Replay(r) \/ Failed(r)
      PROVE  \/ UNCHANGED <<currentRequestId, pendingMessage, request>>
             \/ currentRequestId' = None
  BY <1>6 DEF Draft, ChatComplete, Replay, Failed, panelVars, daemonVars
<1>7. ASSUME NEW r \in Requests, SessionCreated(r), pendingMessage = None
      PROVE  UNCHANGED <<currentRequestId, pendingMessage, request>>
  BY <1>7 DEF SessionCreated
<1>8. ASSUME NEW r \in Requests, SessionCreated(r), pendingMessage # None
      PROVE  currentRequestId' = used + 1 /\ request'[used + 1].type = "chat"
  BY <1>8, <1>t, <1>a DEF SessionCreated, StartChat, Types, RoomIsKept
<1>9. CASE UNCHANGED vars
  BY <1>9 DEF vars, panelVars, daemonVars
<1> QED
  BY <1>1, <1>2, <1>4, <1>5, <1>6, <1>7, <1>8, <1>9 DEF Next

LEMMA CurrentStep == Types /\ NumbersInv /\ CurrentFits /\ [Next]_vars => CurrentFits'
<1> SUFFICES ASSUME Types, NumbersInv, CurrentFits, [Next]_vars PROVE CurrentFits'
  OBVIOUS
<1> QED
  BY CurrentSteps DEF CurrentFits

\* While the panel waits for an answer that is owed, the wait stays as it is or
\* ends: the panel is no longer busy, or goes over to the chat that the creation
\* was for, or the row a chat streams into has been cut off.
LEMMA WaitMoves ==
  ASSUME Types, NumbersInv, CurrentFits, [Next]_vars, NEW r \in Requests,
         busy, currentRequestId = r, r \in open
  PROVE  \/ /\ busy' /\ currentRequestId' = r /\ r \in open' /\ request'[r] = request[r]
            /\ r \in cancelled => r \in cancelled'
         \/ ~busy' \/ currentRequestId' \notin {r, None}
         \/ request[r].type = "chat" /\ streamIndex' > Len(messages')
<1>t. /\ TypeOK /\ used \in Nat /\ r \in Nat /\ None = 0 /\ r # 0 /\ r <= used
      /\ request[r].type \in {"chat", "create"}
      /\ request[r].type = "create" => pendingMessage # None
  BY RequestsAssumption
     DEF Types, TypeOK, NumbersInv, NumbersAreDrawn, None, Requests, CurrentFits
<1>s. currentRequestId' = r => request'[r] = request[r]
  <2>1. used + 1 # r
    BY <1>t
  <2> QED
    BY <2>1, <1>t, CurrentSteps
<1>1. CASE SendMessage
  BY <1>1 DEF SendMessage
<1>2. CASE Cancel \/ ListSessions \/ ListFailed \/ CtlStart \/ CtlExit \/ NewConversation
  BY <1>2, <1>s DEF Cancel, ListSessions, ListFailed, CtlStart, CtlExit, NewConversation, panelVars
<1>3. ASSUME NEW s \in Sessions, ChooseSession(s) PROVE ~busy'
  BY <1>3 DEF ChooseSession, Resume
<1>4. ASSUME NEW listed \in SUBSET Sessions, SessionsListed(listed)
      PROVE  ~busy' \/ UNCHANGED <<panelVars, open, cancelled>>
  BY <1>4 DEF SessionsListed, Resume, panelVars
<1>5. ASSUME NEW q \in Requests, Draft(q)
      PROVE  UNCHANGED <<busy, currentRequestId, open, cancelled>>
  BY <1>5 DEF Draft, daemonVars
<1>6. ASSUME NEW q \in Requests, ChatComplete(q)
      PROVE  \/ ~busy'
             \/ /\ UNCHANGED <<busy, currentRequestId, streamIndex, messages, cancelled>>
                /\ q # r => r \in open'
                /\ q = r => request[r].type = "chat" /\ streamIndex > Len(messages)
  BY <1>6 DEF ChatComplete, Ignored, Answered, panelVars
<1>7. ASSUME NEW q \in Requests, SessionCreated(q)
      PROVE  \/ currentRequestId' \notin {r, None}
             \/ q # r /\ UNCHANGED <<busy, currentRequestId, cancelled>> /\ r \in open'
  <2>1. CASE pendingMessage = None
    BY <1>7, <2>1, <1>t DEF SessionCreated, Answered
  <2>2. CASE pendingMessage # None
    <3>1. currentRequestId' = used + 1
      BY <1>7, <2>2 DEF SessionCreated, StartChat
    <3>2. used + 1 # r /\ used + 1 # None
      BY <1>t
    <3> QED
      BY <3>1, <3>2
  <2> QED
    BY <2>1, <2>2
<1>8. ASSUME NEW q \in Requests, Replay(q)
      PROVE  q # r /\ UNCHANGED <<busy, currentRequestId, cancelled>> /\ r \in open'
  BY <1>8, <1>t DEF Replay, Answered
<1>9. ASSUME NEW q \in Requests, Failed(q)
      PROVE  \/ ~busy'
             \/ q # r /\ UNCHANGED <<busy, currentRequestId, cancelled>> /\ r \in open'
  BY <1>9, <1>t DEF Failed, Answered
<1>10. CASE UNCHANGED vars
  BY <1>10 DEF vars, panelVars, daemonVars
<1>11. CASE UNCHANGED <<panelVars, open, cancelled>>
  BY <1>11, <1>s DEF panelVars
<1> QED
  BY <1>s, <1>1, <1>2, <1>3, <1>4, <1>5, <1>6, <1>7, <1>8, <1>9, <1>10, <1>11 DEF Next

\* And the answer that is owed ends it.
LEMMA AnswerEndsWait ==
  ASSUME Types, NumbersInv, CurrentFits, NEW r \in Requests, currentRequestId = r, Owed(r)
  PROVE  r \notin open'
<1>t. /\ used \in Nat /\ r \in Nat /\ r # None /\ r <= used
      /\ request[r].type = "create" => pendingMessage # None
  BY RequestsAssumption
     DEF Types, TypeOK, NumbersInv, NumbersAreDrawn, None, Requests, CurrentFits
<1>1. CASE ChatComplete(r) \/ Replay(r) \/ Failed(r)
  BY <1>1 DEF ChatComplete, Replay, Failed, Answered
<1>2. CASE SessionCreated(r)
  BY <1>2, <1>t DEF SessionCreated, StartChat, Ask
<1> QED
  BY <1>1, <1>2 DEF Owed

LEMMA WaitInvariant == Spec => [](Types /\ NumbersInv /\ CurrentFits)
<1>1. Init => CurrentFits
  BY DEF Init, CurrentFits
<1> QED
  BY <1>1, PanelInvariant, CurrentStep, PTL DEF Spec

\* The stop button works (HermesService.qml, cancel): what it named ends and takes
\* busy along, or gives way to the chat it was for, or its row is gone; if what
\* the daemon owes can be taken, which the run checks (StopIsNotStuck).
THEOREM StopsEnd == FairSpec /\ []StopIsNotStuck => StopEndsBusy
<1>1. ASSUME NEW r \in Requests
      PROVE  FairSpec /\ []StopIsNotStuck =>
               ((busy /\ currentRequestId = r /\ r \in open \intersect cancelled) ~>
                  (~busy \/ currentRequestId \notin {r, None} \/ streamIndex > Len(messages)))
  <2> DEFINE Stopping == busy /\ currentRequestId = r /\ r \in open \intersect cancelled
             Stopped == ~busy \/ currentRequestId \notin {r, None} \/ streamIndex > Len(messages)
  <2>1. Types /\ NumbersInv /\ CurrentFits /\ [Next]_vars => (Stopping => Stopping' \/ Stopped')
    BY WaitMoves
  <2>2. Types /\ NumbersInv /\ CurrentFits /\ <<Owed(r)>>_vars => (Stopping => ~Stopping')
    BY AnswerEndsWait
  <2>3. StopIsNotStuck => (Stopping => ENABLED <<Owed(r)>>_vars)
    BY DEF StopIsNotStuck
  <2>4. FairSpec => Spec /\ [][Next]_vars /\ AnswerFair(r)
    BY DEF FairSpec, Spec, Fairness
  <2> HIDE DEF Stopping, Stopped
  <2>5. FairSpec /\ []StopIsNotStuck => (Stopping ~> Stopped)
    BY WaitInvariant, <2>1, <2>2, <2>3, <2>4, PTL DEF AnswerFair
  <2> QED
    BY <2>5 DEF Stopping, Stopped
<1> QED
  BY <1>1 DEF StopEndsBusy

\* And the wait for a session ends without it, if the creation was written to the
\* process: that it was not is what CreatingEnds (HermesService.qml:71) misses.
WrittenCreationsEnd ==
  \A r \in Requests :
    (busy /\ currentRequestId = r /\ request[r].type = "create" /\ r \in open) ~>
      (~busy \/ currentRequestId # r)

THEOREM CreationsEnd == FairSpec /\ []StopIsNotStuck => WrittenCreationsEnd
<1>1. ASSUME NEW r \in Requests
      PROVE  FairSpec /\ []StopIsNotStuck =>
               ((busy /\ currentRequestId = r /\ request[r].type = "create" /\ r \in open) ~>
                  (~busy \/ currentRequestId # r))
  <2> DEFINE Creating == busy /\ currentRequestId = r /\ request[r].type = "create" /\ r \in open
             Created == ~busy \/ currentRequestId # r
  <2>1. Types /\ NumbersInv /\ CurrentFits /\ [Next]_vars => (Creating => Creating' \/ Created')
    BY WaitMoves
  <2>2. Types /\ NumbersInv /\ CurrentFits /\ <<Owed(r)>>_vars => (Creating => ~Creating')
    BY AnswerEndsWait
  <2>3. StopIsNotStuck => (Creating => ENABLED <<Owed(r)>>_vars)
    BY DEF StopIsNotStuck
  <2>4. FairSpec => Spec /\ [][Next]_vars /\ AnswerFair(r)
    BY DEF FairSpec, Spec, Fairness
  <2> HIDE DEF Creating, Created
  <2>5. FairSpec /\ []StopIsNotStuck => (Creating ~> Created)
    BY WaitInvariant, <2>1, <2>2, <2>3, <2>4, PTL DEF AnswerFair
  <2> QED
    BY <2>5 DEF Creating, Created
<1> QED
  BY <1>1 DEF WrittenCreationsEnd
=============================================================================
