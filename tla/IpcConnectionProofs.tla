------------------------ MODULE IpcConnectionProofs ------------------------
(***************************************************************************)
(* IpcConnection for any number of requests, any ids that clients choose   *)
(* and any capacity of the queue.  Its safety rests on three invariants:   *)
(* types, whose token an entry of in_flight holds, and where a reply is on *)
(* its way from the handler to the client.  A fourth, what is queued fits  *)
(* what has been delivered, shows that it implements ChatTurns.  Last,     *)
(* liveness, up to what a state ENABLEs.                                   *)
(***************************************************************************)
EXTENDS IpcConnection, TLAPS

\* A request has an id once it has been read.
IdsAreRead == \A r \in Requests : id[r] = NoId <=> task[r] = "none"

EntryInv == /\ TypeOK /\ IdsAreRead /\ EntriesAreLive /\ CancelFindsRequest
            /\ fired \subseteq asked

\* A request that may say, or has said, that it was cancelled.
Excused(r) == r \in asked \/ shutdown

CancelledAreExcused ==
  /\ \A r \in Requests : saying[r] = "cancelled" => Excused(r)
  /\ \A i \in DOMAIN outq :
       outq[i].of \in Requests /\ outq[i].says = "cancelled" => Excused(outq[i].of)
  /\ \A r \in Requests : \A i \in DOMAIN delivered[r] :
       delivered[r][i] = "cancelled" => Excused(r)

\* The writer ends by itself when nobody is left to send.
DoneIsLast ==
  writer = "done" => /\ reader = "over"
                     /\ \A r \in Requests : task[r] \notin {"running", "sending"}

\* The reply of r is the last message of r in the queue, or the last delivered.
InQueue(r) == \E i \in 1..Len(outq) :
                /\ outq[i] = [of |-> r, says |-> saying[r]]
                /\ \A j \in (i + 1)..Len(outq) : outq[j].of # r
Arrived(r) == /\ \A i \in 1..Len(outq) : outq[i].of # r
              /\ delivered[r] # <<>>
              /\ delivered[r][Len(delivered[r])] = saying[r]
ReplyIsLast ==
  writer # "failed" =>
    \A r \in Requests : task[r] \in {"returned", "gone"} => InQueue(r) \/ Arrived(r)

ReplyInv == CancelledAreExcused /\ DoneIsLast /\ ReplyIsLast

-----------------------------------------------------------------------------
(* Types.                                                                  *)

LEMMA Numbers == 0 \notin Requests /\ NoRequest \notin Requests /\ Requests \subseteq Nat
BY SizesAssumption DEF Requests, NoRequest

LEMMA MessagesAreMessages ==
  /\ \A r \in Requests, what \in Says : [of |-> r, says |-> what] \in Message
  /\ [of |-> NoRequest, says |-> "malformed"] \in Message
BY DEF Message

\* Conn::send keeps the queue within its capacity.
LEMMA SendFits ==
  ASSUME TypeOK, CanSend, NEW m \in Message, Send(m)
  PROVE  outq' \in Seq(Message) /\ Len(outq') <= CONN_QUEUE
<1>1. CASE Ended
  BY <1>1 DEF Send, TypeOK
<1>2. CASE ~Ended
  <2>1. outq \in Seq(Message) /\ Len(outq) < CONN_QUEUE /\ CONN_QUEUE \in Nat
    BY <1>2, SizesAssumption DEF CanSend, TypeOK
  <2>2. outq' = Append(outq, m)
    BY <1>2 DEF Send
  <2> QED
    BY <2>1, <2>2
<1> QED
  BY <1>1, <1>2

\* The message at the head of the queue has the request and the words it names.
LEMMA HeadIsMessage ==
  ASSUME TypeOK, outq # <<>>
  PROVE  /\ Head(outq).of = NoRequest \/ (Head(outq).of \in Requests /\ Head(outq).says \in Says)
         /\ Tail(outq) \in Seq(Message) /\ Len(Tail(outq)) = Len(outq) - 1
         /\ \A i \in 1..Len(Tail(outq)) : Tail(outq)[i] = outq[i + 1]
         /\ Head(outq) = outq[1] /\ Len(outq) \in Nat /\ Len(outq) > 0
<1>1. outq \in Seq(Message)
  BY DEF TypeOK
<1>2. Head(outq) \in Message
  BY <1>1
<1>3. \A m \in Message : m.of = NoRequest \/ (m.of \in Requests /\ m.says \in Says)
  BY DEF Message
<1> QED
  BY <1>1, <1>2, <1>3

LEMMA TypesInit == Init => TypeOK
<1> SUFFICES ASSUME Init PROVE TypeOK
  OBVIOUS
<1>1. outq \in Seq(Message) /\ Len(outq) <= CONN_QUEUE /\ extras \in 0..MaxExtras
  BY SizesAssumption DEF Init
<1>2. /\ id \in [Requests -> Ids \cup {NoId}]
      /\ task \in [Requests -> {"none", "running", "sending", "returned", "gone"}]
      /\ saying \in [Requests -> Says] /\ delivered \in [Requests -> Seq(Says)]
      /\ inFlight \in [Ids -> Requests \cup {NoRequest}]
  BY DEF Init, Says
<1> QED
  BY <1>1, <1>2 DEF Init, TypeOK

LEMMA TypesStep == TypeOK /\ [Next]_vars => TypeOK'
<1> SUFFICES ASSUME TypeOK, [Next]_vars PROVE TypeOK'
  OBVIOUS
<1> USE DEF readerVars, peerVars, taskVars
<1>1. ASSUME NEW r \in Requests, NEW i \in Ids, ReadRequest(r, i) PROVE TypeOK'
  BY <1>1 DEF ReadRequest, Register, TypeOK
<1>2. ASSUME NEW r \in Requests, NEW what \in Says, Say(r, what) PROVE TypeOK'
  <2>1. extras' \in 0..MaxExtras
    BY <1>2, SizesAssumption DEF Say, TypeOK
  <2> QED
    BY <1>2, <2>1 DEF Say, TypeOK
<1>3. ASSUME NEW r \in Requests, Said(r) PROVE TypeOK'
  <2>1. outq' \in Seq(Message) /\ Len(outq') <= CONN_QUEUE
    <3>1. [of |-> r, says |-> saying[r]] \in Message
      BY MessagesAreMessages DEF TypeOK
    <3> QED
      BY <1>3, <3>1, SendFits DEF Said
  <2>2. task' \in [Requests -> {"none", "running", "sending", "returned", "gone"}]
    BY <1>3 DEF Said, TypeOK
  <2> QED
    BY <1>3, <2>1, <2>2 DEF Said, TypeOK
<1>4. ASSUME NEW r \in Requests, Finish(r) PROVE TypeOK'
  BY <1>4 DEF Finish, Unregister, TypeOK
<1>5. ASSUME NEW i \in Ids, ReadCancel(i) PROVE TypeOK'
  <2>1. fired' \subseteq Requests
    BY <1>5 DEF ReadCancel, Fire, TypeOK
  <2>2. asked' \subseteq Requests
    BY <1>5 DEF ReadCancel, TypeOK
  <2> QED
    BY <1>5, <2>1, <2>2 DEF ReadCancel, TypeOK
<1>6. CASE ReadMalformed
  <2>1. extras' \in 0..MaxExtras
    BY <1>6, SizesAssumption DEF ReadMalformed, TypeOK
  <2> QED
    BY <1>6, <2>1 DEF ReadMalformed, TypeOK
<1>7. CASE AnswerMalformed
  <2>1. outq' \in Seq(Message) /\ Len(outq') <= CONN_QUEUE
    BY <1>7, SendFits, MessagesAreMessages DEF AnswerMalformed
  <2> QED
    BY <1>7, <2>1 DEF AnswerMalformed, TypeOK
<1>8. CASE ReaderEnds
  BY <1>8 DEF ReaderEnds, TypeOK
<1>9. CASE Write
  <2>1. outq' \in Seq(Message) /\ Len(outq') <= CONN_QUEUE
    BY <1>9, HeadIsMessage, SizesAssumption DEF Write, TypeOK
  <2>2. delivered' \in [Requests -> Seq(Says)]
    <3>1. CASE Head(outq).of = NoRequest
      BY <1>9, <3>1 DEF Write, TypeOK
    <3>2. CASE Head(outq).of # NoRequest
      <4>1. Head(outq).of \in Requests /\ Head(outq).says \in Says
        BY <1>9, <3>2, HeadIsMessage DEF Write
      <4>2. delivered' = [delivered EXCEPT ![Head(outq).of] = Append(@, Head(outq).says)]
        BY <1>9, <3>2 DEF Write
      <4>3. Append(delivered[Head(outq).of], Head(outq).says) \in Seq(Says)
        BY <4>1 DEF TypeOK
      <4> QED
        BY <4>1, <4>2, <4>3 DEF TypeOK
    <3> QED
      BY <3>1, <3>2
  <2> QED
    BY <1>9, <2>1, <2>2 DEF Write, TypeOK
<1>10. CASE WriteFails
  <2>1. outq' \in Seq(Message) /\ Len(outq') <= CONN_QUEUE
    BY <1>10, SizesAssumption DEF WriteFails
  <2> QED
    BY <1>10, <2>1 DEF WriteFails, TypeOK
<1>11. CASE WriterEnds
  BY <1>11 DEF WriterEnds, TypeOK
<1>12. CASE ClientStalls \/ ClientGone \/ ClientEof \/ Shutdown
  BY <1>12 DEF ClientStalls, ClientGone, ClientEof, Shutdown, TypeOK
<1>13. CASE UNCHANGED vars
  BY <1>13 DEF vars, TypeOK
<1> QED
  BY <1>1, <1>2, <1>3, <1>4, <1>5, <1>6, <1>7, <1>8, <1>9, <1>10, <1>11, <1>12, <1>13
  DEF Next, ReaderStep, WriterStep

\* The connection is well typed, and the outbound queue never holds more than
\* its capacity, however slow the client (handle_connection, src/src/ipc/server.rs).
THEOREM ConnectionTypeCorrect == Spec => []TypeOK
BY TypesInit, TypesStep, PTL DEF Spec

-----------------------------------------------------------------------------
(* Whose token an entry of in_flight holds.                                *)

\* A step that neither reads a request, cancels nor finishes one.
LEMMA QuietEntries ==
  ASSUME EntryInv, TypeOK', UNCHANGED <<id, inFlight, fired, asked>>,
         \A r \in Requests : (task'[r] = "none" <=> task[r] = "none")
                             /\ (task'[r] = "gone" <=> task[r] = "gone")
  PROVE  EntryInv'
<1>1. \A r \in Requests : Live(r)' <=> Live(r)
  BY DEF EntryInv, TypeOK, Live
<1>2. IdsAreRead' /\ fired' \subseteq asked'
  BY DEF EntryInv, IdsAreRead
<1>3. EntriesAreLive'
  <2> SUFFICES ASSUME NEW i \in Ids, inFlight[i] # NoRequest
               PROVE  id[inFlight[i]] = i /\ Live(inFlight[i])'
    BY DEF EntriesAreLive, Live
  <2>1. inFlight[i] \in Requests
    BY DEF EntryInv, TypeOK
  <2> QED
    BY <1>1, <2>1 DEF EntryInv, EntriesAreLive
<1>4. CancelFindsRequest'
  BY <1>1 DEF EntryInv, CancelFindsRequest
<1> QED
  BY <1>2, <1>3, <1>4 DEF EntryInv

LEMMA EntryInit == Init => EntryInv
<1> SUFFICES ASSUME Init PROVE EntryInv
  OBVIOUS
<1>1. IdsAreRead /\ EntriesAreLive /\ CancelFindsRequest
  BY DEF Init, IdsAreRead, EntriesAreLive, CancelFindsRequest, Live
<1> QED
  BY <1>1, TypesInit DEF Init, EntryInv

LEMMA EntryStep == EntryInv /\ [Next]_vars => EntryInv'
<1> SUFFICES ASSUME EntryInv, [Next]_vars PROVE EntryInv'
  OBVIOUS
<1>t. TypeOK /\ TypeOK'
  BY TypesStep DEF EntryInv
<1>i. IdsAreRead /\ EntriesAreLive /\ CancelFindsRequest /\ fired \subseteq asked
  BY DEF EntryInv
<1>f. /\ id \in [Requests -> Ids \cup {NoId}] /\ inFlight \in [Ids -> Requests \cup {NoRequest}]
      /\ task \in [Requests -> {"none", "running", "sending", "returned", "gone"}]
  BY <1>t DEF TypeOK
<1>1. ASSUME NEW r \in Requests, NEW i \in Ids, ReadRequest(r, i) PROVE EntryInv'
  <2>1. /\ task[r] = "none" /\ id[r] = NoId
        /\ id'[r] = i /\ task'[r] = "running" /\ inFlight'[i] = r
        /\ \A q \in Requests \ {r} : id'[q] = id[q] /\ task'[q] = task[q]
        /\ \A j \in Ids \ {i} : inFlight'[j] = inFlight[j]
        /\ UNCHANGED <<fired, asked>>
    BY <1>1, <1>f, <1>i DEF ReadRequest, Register, IdsAreRead
  <2>2. IdsAreRead'
    BY <2>1, <1>i, IdsAssumption DEF IdsAreRead
  <2>3. EntriesAreLive'
    <3> SUFFICES ASSUME NEW j \in Ids, inFlight'[j] # NoRequest
                 PROVE  id'[inFlight'[j]] = j
                        /\ task'[inFlight'[j]] \in {"running", "sending", "returned"}
      BY DEF EntriesAreLive, Live
    <3>1. CASE j = i
      BY <2>1, <3>1
    <3>2. CASE j # i
      <4>1. inFlight'[j] = inFlight[j] /\ inFlight[j] \in Requests
        BY <2>1, <3>2, <1>f
      <4>2. id[inFlight[j]] = j /\ Live(inFlight[j])
        BY <4>1, <1>i DEF EntriesAreLive
      <4>3. inFlight[j] # r
        BY <4>2, <2>1 DEF Live
      <4> QED
        BY <2>1, <4>1, <4>2, <4>3 DEF Live
    <3> QED
      BY <3>1, <3>2
  <2>4. CancelFindsRequest'
    <3> SUFFICES ASSUME NEW q \in Requests, Live(q)',
                        \A p \in Requests \ {q} : id'[p] # id'[q]
                 PROVE  inFlight'[id'[q]] = q
      BY DEF CancelFindsRequest
    <3>1. CASE q = r
      BY <2>1, <3>1
    <3>2. CASE q # r
      <4>1. Live(q) /\ id'[q] = id[q] /\ id[q] # i
        BY <2>1, <3>2 DEF Live
      <4>2. id[q] \in Ids /\ id[q] # NoId
        BY <4>1, <1>f, <1>i DEF IdsAreRead, Live
      <4>3. \A p \in Requests \ {q} : id[p] # id[q]
        BY <2>1, <3>2, <4>1, <4>2
      <4>4. inFlight[id[q]] = q
        BY <4>1, <4>3, <1>i DEF CancelFindsRequest
      <4> QED
        BY <2>1, <4>1, <4>2, <4>4
    <3> QED
      BY <3>1, <3>2
  <2> QED
    BY <2>1, <2>2, <2>3, <2>4, <1>t, <1>i DEF EntryInv
<1>2. ASSUME NEW r \in Requests, NEW what \in Says, Say(r, what) PROVE EntryInv'
  <2>1. /\ UNCHANGED <<id, inFlight, fired, asked>>
        /\ task' = [task EXCEPT ![r] = "sending"] /\ task[r] = "running"
    BY <1>2 DEF Say
  <2> QED
    BY <2>1, <1>f, <1>t, QuietEntries
<1>3. ASSUME NEW r \in Requests, Said(r) PROVE EntryInv'
  <2>1. /\ UNCHANGED <<id, inFlight, fired, asked>> /\ task[r] = "sending"
        /\ \/ task' = [task EXCEPT ![r] = "running"]
           \/ task' = [task EXCEPT ![r] = "returned"]
    BY <1>3 DEF Said
  <2> QED
    BY <2>1, <1>f, <1>t, QuietEntries
<1>4. ASSUME NEW r \in Requests, Finish(r) PROVE EntryInv'
  <2>1. /\ task[r] = "returned" /\ task'[r] = "gone" /\ id[r] \in Ids
        /\ \A q \in Requests \ {r} : task'[q] = task[q]
        /\ inFlight'[id[r]] = NoRequest
        /\ \A j \in Ids \ {id[r]} : inFlight'[j] = inFlight[j]
        /\ UNCHANGED <<id, fired, asked>>
    BY <1>4, <1>f, <1>i DEF Finish, Unregister, IdsAreRead
  <2>2. IdsAreRead'
    BY <2>1, <1>i DEF IdsAreRead
  <2>3. EntriesAreLive'
    <3> SUFFICES ASSUME NEW j \in Ids, inFlight'[j] # NoRequest
                 PROVE  id[inFlight'[j]] = j
                        /\ task'[inFlight'[j]] \in {"running", "sending", "returned"}
      BY <2>1 DEF EntriesAreLive, Live
    <3>1. j # id[r] /\ inFlight'[j] = inFlight[j] /\ inFlight[j] \in Requests
      BY <2>1, <1>f
    <3>2. id[inFlight[j]] = j /\ Live(inFlight[j])
      BY <3>1, <1>i DEF EntriesAreLive
    <3> QED
      BY <2>1, <3>1, <3>2 DEF Live
  <2>4. CancelFindsRequest'
    <3> SUFFICES ASSUME NEW q \in Requests, Live(q)',
                        \A p \in Requests \ {q} : id[p] # id[q]
                 PROVE  inFlight'[id[q]] = q
      BY <2>1 DEF CancelFindsRequest
    <3>1. q # r /\ Live(q)
      BY <2>1 DEF Live
    <3>2. inFlight[id[q]] = q /\ id[q] \in Ids /\ id[q] # id[r]
      BY <3>1, <1>f, <1>i DEF CancelFindsRequest, IdsAreRead, Live
    <3> QED
      BY <2>1, <3>2
  <2> QED
    BY <2>1, <2>2, <2>3, <2>4, <1>t, <1>i DEF EntryInv
<1>5. ASSUME NEW i \in Ids, ReadCancel(i) PROVE EntryInv'
  <2>1. UNCHANGED <<id, task, inFlight>> /\ asked \subseteq asked'
    BY <1>5 DEF ReadCancel, taskVars
  <2>2. fired' \subseteq asked'
    <3>1. CASE inFlight[i] = NoRequest
      BY <1>5, <3>1, <2>1, <1>i DEF ReadCancel, Fire
    <3>2. CASE inFlight[i] # NoRequest
      <4>1. inFlight[i] \in Requests /\ id[inFlight[i]] = i /\ task[inFlight[i]] # "gone"
        BY <3>2, <1>f, <1>i DEF EntriesAreLive, Live
      <4>2. inFlight[i] \in asked' /\ fired' = fired \union {inFlight[i]}
        BY <1>5, <3>2, <4>1 DEF ReadCancel, Fire
      <4> QED
        BY <4>2, <2>1, <1>i
    <3> QED
      BY <3>1, <3>2
  <2>3. IdsAreRead' /\ EntriesAreLive' /\ CancelFindsRequest'
    BY <2>1, <1>i DEF IdsAreRead, EntriesAreLive, CancelFindsRequest, Live
  <2> QED
    BY <2>2, <2>3, <1>t DEF EntryInv
<1>6. CASE ReadMalformed
  BY <1>6, <1>t, QuietEntries DEF ReadMalformed, taskVars
<1>7. CASE AnswerMalformed
  BY <1>7, <1>t, QuietEntries DEF AnswerMalformed, taskVars
<1>8. CASE ReaderEnds
  BY <1>8, <1>t, QuietEntries DEF ReaderEnds, taskVars
<1>9. CASE Write
  BY <1>9, <1>t, QuietEntries DEF Write, taskVars
<1>10. CASE WriteFails
  BY <1>10, <1>t, QuietEntries DEF WriteFails, taskVars
<1>11. CASE WriterEnds
  BY <1>11, <1>t, QuietEntries DEF WriterEnds, taskVars
<1>12. CASE ClientStalls \/ ClientGone \/ ClientEof \/ Shutdown
  BY <1>12, <1>t, QuietEntries DEF ClientStalls, ClientGone, ClientEof, Shutdown, taskVars
<1>13. CASE UNCHANGED vars
  BY <1>13, <1>t, QuietEntries DEF vars, taskVars
<1> QED
  BY <1>1, <1>2, <1>3, <1>4, <1>5, <1>6, <1>7, <1>8, <1>9, <1>10, <1>11, <1>12, <1>13
  DEF Next, ReaderStep, WriterStep

LEMMA EntryInvariant == Spec => []EntryInv
BY EntryInit, EntryStep, PTL DEF Spec

\* in_flight holds no entry of a request that is over, also when a client uses an
\* id twice; and as long as its id is its own, a request in flight can be cancelled.
THEOREM CancelsFind == Spec => []InFlightIsExact
<1>1. EntryInv => InFlightIsExact
  BY DEF EntryInv, InFlightIsExact
<1> QED
  BY <1>1, EntryInvariant, PTL

-----------------------------------------------------------------------------
(* Where a reply is.                                                       *)

\* What a request may say only becomes more.
LEMMA ExcusesLast ==
  ASSUME asked \subseteq asked', shutdown => shutdown'
  PROVE  \A r \in Requests : Excused(r) => Excused(r)'
BY DEF Excused

\* A step of neither a handler nor the queue.
LEMMA QuietReplies ==
  ASSUME TypeOK, ReplyInv, UNCHANGED <<saying, outq, delivered, writer>>,
         asked \subseteq asked', shutdown => shutdown',
         reader = "over" => reader' = "over",
         \A r \in Requests : /\ task'[r] \in {"returned", "gone"} =>
                                  task[r] \in {"returned", "gone"}
                             /\ reader = "over" /\ task'[r] \in {"running", "sending"} =>
                                  task[r] \in {"running", "sending"}
  PROVE  ReplyInv'
<1>1. CancelledAreExcused'
  <2>1. \A r \in Requests : Excused(r) => Excused(r)'
    BY ExcusesLast
  <2> QED
    BY <2>1 DEF ReplyInv, CancelledAreExcused
<1>2. DoneIsLast'
  BY DEF ReplyInv, DoneIsLast
<1>3. ReplyIsLast'
  <2>1. \A r \in Requests : (InQueue(r) <=> InQueue(r)') /\ (Arrived(r) <=> Arrived(r)')
    BY DEF InQueue, Arrived
  <2> QED
    BY <2>1 DEF ReplyInv, ReplyIsLast
<1> QED
  BY <1>1, <1>2, <1>3 DEF ReplyInv

\* The queue after one message has joined it.
LEMMA QueueAppended ==
  ASSUME TypeOK, NEW m \in Message, outq' = Append(outq, m)
  PROVE  /\ Len(outq') = Len(outq) + 1 /\ outq'[Len(outq) + 1] = m /\ Len(outq) \in Nat
         /\ \A i \in 1..Len(outq) : outq'[i] = outq[i]
         /\ DOMAIN outq' = 1..Len(outq') /\ DOMAIN outq = 1..Len(outq)
<1>1. outq \in Seq(Message)
  BY DEF TypeOK
<1> QED
  BY <1>1

\* A message may join the queue if it is excused.
LEMMA QueueExcused ==
  ASSUME TypeOK, CancelledAreExcused, NEW m \in Message, outq' = Append(outq, m),
         UNCHANGED <<saying, delivered, asked, shutdown>>,
         m.of \in Requests /\ m.says = "cancelled" => Excused(m.of)
  PROVE  CancelledAreExcused'
<1>1. ASSUME NEW i \in DOMAIN outq', outq'[i].of \in Requests, outq'[i].says = "cancelled"
      PROVE  outq'[i].of \in asked' \/ shutdown'
  <2>1. i \in 1..Len(outq) \/ i = Len(outq) + 1
    BY QueueAppended
  <2>2. CASE i \in 1..Len(outq)
    BY <1>1, <2>2, QueueAppended DEF CancelledAreExcused, Excused
  <2>3. CASE i = Len(outq) + 1
    BY <1>1, <2>3, QueueAppended DEF Excused
  <2> QED
    BY <2>1, <2>2, <2>3
<1> QED
  BY <1>1 DEF CancelledAreExcused, Excused

\* A message that joins the queue hides no reply but those of its own request.
LEMMA QueueGrows ==
  ASSUME TypeOK, NEW m \in Message, outq' = Append(outq, m),
         NEW r \in Requests, m.of # r, saying'[r] = saying[r], delivered' = delivered
  PROVE  (InQueue(r) => InQueue(r)') /\ (Arrived(r) => Arrived(r)')
<1>1. /\ Len(outq') = Len(outq) + 1 /\ outq'[Len(outq) + 1] = m /\ Len(outq) \in Nat
      /\ \A i \in 1..Len(outq) : outq'[i] = outq[i]
  BY QueueAppended
<1>2. ASSUME InQueue(r) PROVE InQueue(r)'
  <2>1. PICK i \in 1..Len(outq) : /\ outq[i] = [of |-> r, says |-> saying[r]]
                                  /\ \A j \in (i + 1)..Len(outq) : outq[j].of # r
    BY <1>2 DEF InQueue
  <2>2. /\ i \in 1..Len(outq') /\ outq'[i] = [of |-> r, says |-> saying'[r]]
        /\ \A j \in (i + 1)..Len(outq') : outq'[j].of # r
    <3>1. ASSUME NEW j \in (i + 1)..Len(outq') PROVE outq'[j].of # r
      <4>1. j \in (i + 1)..Len(outq) \/ j = Len(outq) + 1
        BY <1>1
      <4> QED
        BY <4>1, <1>1, <2>1
    <3>2. i \in 1..Len(outq') /\ outq'[i] = [of |-> r, says |-> saying'[r]]
      BY <1>1, <2>1
    <3> QED
      BY <3>1, <3>2
  <2> QED
    BY <2>2 DEF InQueue
<1>3. ASSUME Arrived(r) PROVE Arrived(r)'
  <2>1. ASSUME NEW i \in 1..Len(outq') PROVE outq'[i].of # r
    <3>1. i \in 1..Len(outq) \/ i = Len(outq) + 1
      BY <1>1
    <3> QED
      BY <3>1, <1>1, <1>3 DEF Arrived
  <2> QED
    BY <2>1, <1>3 DEF Arrived
<1> QED
  BY <1>2, <1>3

\* The message written was r's reply, or r's reply is still behind it.
LEMMA QueueMoves ==
  ASSUME TypeOK, Write, NEW r \in Requests, InQueue(r) \/ Arrived(r)
  PROVE  InQueue(r)' \/ Arrived(r)'
<1>1. /\ outq # <<>> /\ outq' = Tail(outq) /\ saying' = saying
      /\ delivered' = IF Head(outq).of = NoRequest THEN delivered
                      ELSE [delivered EXCEPT ![Head(outq).of] = Append(@, Head(outq).says)]
  BY DEF Write, taskVars
<1>2. /\ Len(outq') = Len(outq) - 1 /\ Len(outq) \in Nat /\ Len(outq) > 0
      /\ \A i \in 1..Len(outq') : outq'[i] = outq[i + 1]
      /\ Head(outq) = outq[1]
      /\ Head(outq).of = NoRequest \/ (Head(outq).of \in Requests /\ Head(outq).says \in Says)
  BY <1>1, HeadIsMessage
<1>d. delivered \in [Requests -> Seq(Says)] /\ saying[r] \in Says /\ r # NoRequest
  BY Numbers DEF TypeOK
<1>3. CASE Arrived(r)
  <2>1. Head(outq).of # r
    BY <1>2, <1>3 DEF Arrived
  <2>2. delivered'[r] = delivered[r]
    BY <2>1, <1>1, <1>2, <1>d
  <2>3. \A i \in 1..Len(outq') : outq'[i].of # r
    <3> SUFFICES ASSUME NEW i \in 1..Len(outq') PROVE outq'[i].of # r
      OBVIOUS
    <3>1. i + 1 \in 1..Len(outq)
      BY <1>2
    <3> QED
      BY <3>1, <1>2, <1>3 DEF Arrived
  <2> QED
    BY <2>2, <2>3, <1>1, <1>3 DEF Arrived
<1>4. CASE InQueue(r)
  <2>1. PICK i \in 1..Len(outq) : /\ outq[i] = [of |-> r, says |-> saying[r]]
                                  /\ \A j \in (i + 1)..Len(outq) : outq[j].of # r
    BY <1>4 DEF InQueue
  <2>2. CASE i = 1
    <3>1. Head(outq).of = r /\ Head(outq).says = saying[r]
      BY <2>1, <2>2, <1>2
    <3>2. delivered'[r] = Append(delivered[r], saying[r])
      BY <3>1, <1>1, <1>d
    <3>3. delivered'[r] # <<>> /\ delivered'[r][Len(delivered'[r])] = saying[r]
      <4>1. delivered[r] \in Seq(Says)
        BY <1>d
      <4> QED
        BY <3>2, <4>1, <1>d
    <3>4. \A j \in 1..Len(outq') : outq'[j].of # r
      <4> SUFFICES ASSUME NEW j \in 1..Len(outq') PROVE outq'[j].of # r
        OBVIOUS
      <4>1. j + 1 \in (i + 1)..Len(outq)
        BY <1>2, <2>2
      <4> QED
        BY <4>1, <1>2, <2>1
    <3> QED
      BY <3>3, <3>4, <1>1 DEF Arrived
  <2>3. CASE i # 1
    <3>1. i - 1 \in 1..Len(outq') /\ outq'[i - 1] = [of |-> r, says |-> saying'[r]]
      BY <2>1, <2>3, <1>1, <1>2
    <3>2. \A j \in i..Len(outq') : outq'[j].of # r
      <4> SUFFICES ASSUME NEW j \in i..Len(outq') PROVE outq'[j].of # r
        OBVIOUS
      <4>1. j + 1 \in (i + 1)..Len(outq) /\ j \in 1..Len(outq')
        BY <1>2
      <4> QED
        BY <4>1, <1>2, <2>1
    <3>3. (i - 1) + 1 = i
      BY <1>2
    <3> QED
      BY <3>1, <3>2, <3>3 DEF InQueue
  <2> QED
    BY <2>2, <2>3
<1> QED
  BY <1>3, <1>4

LEMMA ReplyInit == Init => ReplyInv
<1> SUFFICES ASSUME Init PROVE ReplyInv
  OBVIOUS
<1>1. CancelledAreExcused
  BY DEF Init, CancelledAreExcused
<1>2. DoneIsLast /\ ReplyIsLast
  BY DEF Init, DoneIsLast, ReplyIsLast
<1> QED
  BY <1>1, <1>2 DEF ReplyInv

LEMMA ReplyStep == EntryInv /\ ReplyInv /\ [Next]_vars => ReplyInv'
<1> SUFFICES ASSUME EntryInv, ReplyInv, [Next]_vars PROVE ReplyInv'
  OBVIOUS
<1>t. TypeOK /\ TypeOK' /\ fired \subseteq asked
  BY TypesStep DEF EntryInv
<1>i. CancelledAreExcused /\ DoneIsLast /\ ReplyIsLast
  BY DEF ReplyInv
<1>f. /\ task \in [Requests -> {"none", "running", "sending", "returned", "gone"}]
      /\ saying \in [Requests -> Says] /\ outq \in Seq(Message)
      /\ delivered \in [Requests -> Seq(Says)]
  BY <1>t DEF TypeOK
<1>1. ASSUME NEW r \in Requests, NEW i \in Ids, ReadRequest(r, i) PROVE ReplyInv'
  <2>1. /\ reader = "reading" /\ task' = [task EXCEPT ![r] = "running"]
        /\ UNCHANGED <<saying, outq, delivered, writer, asked, shutdown, reader>>
    BY <1>1 DEF ReadRequest, Readable, readerVars, peerVars
  <2> QED
    BY <2>1, <1>f, <1>t, QuietReplies
<1>2. ASSUME NEW r \in Requests, NEW what \in Says, Say(r, what) PROVE ReplyInv'
  <2>1. /\ task[r] = "running" /\ task' = [task EXCEPT ![r] = "sending"]
        /\ saying' = [saying EXCEPT ![r] = what]
        /\ what = "cancelled" => Excused(r)
        /\ UNCHANGED <<outq, delivered, writer, asked, shutdown, reader>>
    BY <1>2, <1>t DEF Say, IsCancelled, Excused, peerVars
  <2>2. CancelledAreExcused'
    <3>1. \A q \in Requests : Excused(q)' <=> Excused(q)
      BY <2>1 DEF Excused
    <3>2. \A q \in Requests : saying'[q] = "cancelled" => Excused(q)'
      BY <2>1, <3>1, <1>f, <1>i DEF CancelledAreExcused
    <3> QED
      BY <2>1, <3>1, <3>2, <1>i DEF CancelledAreExcused
  <2>3. DoneIsLast'
    BY <2>1, <1>f, <1>i DEF DoneIsLast
  <2>4. ReplyIsLast'
    <3> SUFFICES ASSUME writer' # "failed", NEW q \in Requests, task'[q] \in {"returned", "gone"}
                 PROVE  InQueue(q)' \/ Arrived(q)'
      BY DEF ReplyIsLast
    <3>1. q # r /\ task[q] \in {"returned", "gone"} /\ saying'[q] = saying[q]
      BY <2>1, <1>f
    <3>2. InQueue(q) \/ Arrived(q)
      BY <2>1, <3>1, <1>i DEF ReplyIsLast
    <3> QED
      BY <2>1, <3>1, <3>2 DEF InQueue, Arrived
  <2> QED
    BY <2>2, <2>3, <2>4 DEF ReplyInv
<1>3. ASSUME NEW r \in Requests, Said(r) PROVE ReplyInv'
  <2> DEFINE m == [of |-> r, says |-> saying[r]]
  <2>1. /\ task[r] = "sending" /\ m \in Message /\ m.of = r /\ m.says = saying[r]
        /\ \/ task' = [task EXCEPT ![r] = "running"]
           \/ task' = [task EXCEPT ![r] = "returned"]
        /\ outq' = IF Ended THEN outq ELSE Append(outq, m)
        /\ UNCHANGED <<saying, delivered, writer, asked, shutdown, reader>>
    BY <1>3, <1>f, MessagesAreMessages DEF Said, Send, peerVars, readerVars
  <2> HIDE DEF m
  <2>2. DoneIsLast'
    BY <2>1, <1>i DEF DoneIsLast
  <2>3. CASE Ended
    <3>1. writer = "failed" /\ outq' = outq
      BY <2>1, <2>3, <1>i, <1>t DEF Ended, DoneIsLast, TypeOK
    <3>2. ReplyIsLast'
      BY <2>1, <3>1 DEF ReplyIsLast
    <3>3. CancelledAreExcused'
      BY <2>1, <3>1, <1>i DEF CancelledAreExcused, Excused
    <3> QED
      BY <2>2, <3>2, <3>3 DEF ReplyInv
  <2>4. CASE ~Ended
    <3>1. outq' = Append(outq, m)
      BY <2>1, <2>4
    <3>2. /\ Len(outq') = Len(outq) + 1 /\ outq'[Len(outq) + 1] = m /\ Len(outq) \in Nat
      BY <3>1, <2>1, <1>t, QueueAppended
    <3>3. CancelledAreExcused'
      BY <3>1, <2>1, <1>t, <1>i, QueueExcused DEF CancelledAreExcused
    <3>4. ReplyIsLast'
      <4> SUFFICES ASSUME writer' # "failed", NEW q \in Requests, task'[q] \in {"returned", "gone"}
                   PROVE  InQueue(q)' \/ Arrived(q)'
        BY DEF ReplyIsLast
      <4>1. CASE q = r
        <5>1. /\ Len(outq) + 1 \in 1..Len(outq')
              /\ outq'[Len(outq) + 1] = [of |-> q, says |-> saying'[q]]
              /\ \A j \in ((Len(outq) + 1) + 1)..Len(outq') : outq'[j].of # q
          BY <4>1, <3>2, <2>1 DEF m
        <5> QED
          BY <5>1 DEF InQueue
      <4>2. CASE q # r
        <5>1. task[q] \in {"returned", "gone"}
          BY <4>2, <2>1, <1>f
        <5>2. InQueue(q) \/ Arrived(q)
          BY <5>1, <2>1, <1>i DEF ReplyIsLast
        <5> QED
          BY <4>2, <5>2, <3>1, <2>1, <1>t, QueueGrows
      <4> QED
        BY <4>1, <4>2
    <3> QED
      BY <2>2, <3>3, <3>4 DEF ReplyInv
  <2> QED
    BY <2>3, <2>4
<1>4. ASSUME NEW r \in Requests, Finish(r) PROVE ReplyInv'
  <2>1. /\ task[r] = "returned" /\ task' = [task EXCEPT ![r] = "gone"]
        /\ UNCHANGED <<saying, outq, delivered, writer, asked, shutdown, reader>>
    BY <1>4 DEF Finish, readerVars, peerVars
  <2> QED
    BY <2>1, <1>f, <1>t, QuietReplies
<1>5. ASSUME NEW i \in Ids, ReadCancel(i) PROVE ReplyInv'
  <2>1. /\ asked \subseteq asked'
        /\ UNCHANGED <<saying, task, outq, delivered, writer, shutdown, reader>>
    BY <1>5 DEF ReadCancel, taskVars, peerVars, readerVars
  <2> QED
    BY <2>1, <1>t, QuietReplies
<1>6. CASE ReadMalformed
  BY <1>6, <1>t, QuietReplies DEF ReadMalformed, Readable, taskVars, peerVars
<1>7. CASE AnswerMalformed
  <2> DEFINE m == [of |-> NoRequest, says |-> "malformed"]
  <2>1. /\ reader = "stuck" /\ reader' = "reading" /\ m \in Message /\ m.of = NoRequest
        /\ outq' = IF Ended THEN outq ELSE Append(outq, m)
        /\ UNCHANGED <<saying, task, delivered, writer, asked, shutdown>>
    BY <1>7, MessagesAreMessages DEF AnswerMalformed, Send, peerVars, taskVars
  <2> HIDE DEF m
  <2>2. CASE Ended
    BY <2>1, <2>2, <1>t, QuietReplies
  <2>3. CASE ~Ended
    <3>1. outq' = Append(outq, m)
      BY <2>1, <2>3
    <3>2. DoneIsLast'
      BY <2>1, <2>3 DEF DoneIsLast, Ended
    <3>3. CancelledAreExcused'
      BY <3>1, <2>1, <1>t, <1>i, Numbers, QueueExcused
    <3>4. ReplyIsLast'
      <4> SUFFICES ASSUME writer' # "failed", NEW q \in Requests, task'[q] \in {"returned", "gone"}
                   PROVE  InQueue(q)' \/ Arrived(q)'
        BY DEF ReplyIsLast
      <4>1. InQueue(q) \/ Arrived(q)
        BY <2>1, <1>i DEF ReplyIsLast
      <4>2. m.of # q
        BY <2>1, Numbers
      <4> QED
        BY <4>1, <4>2, <3>1, <2>1, <1>t, QueueGrows
    <3> QED
      BY <3>2, <3>3, <3>4 DEF ReplyInv
  <2> QED
    BY <2>2, <2>3
<1>8. CASE ReaderEnds
  BY <1>8, <1>t, QuietReplies DEF ReaderEnds, taskVars, peerVars
<1>9. CASE Write
  <2>1. /\ outq # <<>> /\ outq' = Tail(outq) /\ writer = "running"
        /\ delivered' = IF Head(outq).of = NoRequest THEN delivered
                        ELSE [delivered EXCEPT ![Head(outq).of] = Append(@, Head(outq).says)]
        /\ UNCHANGED <<saying, task, writer, asked, shutdown, reader>>
    BY <1>9 DEF Write, taskVars, peerVars, readerVars
  <2>2. /\ Len(outq') = Len(outq) - 1 /\ Len(outq) \in Nat /\ Len(outq) > 0
        /\ \A i \in 1..Len(outq') : outq'[i] = outq[i + 1]
        /\ Head(outq) = outq[1] /\ outq' \in Seq(Message)
        /\ Head(outq).of = NoRequest \/ (Head(outq).of \in Requests /\ Head(outq).says \in Says)
    BY <2>1, <1>t, HeadIsMessage
  <2>3. DoneIsLast'
    BY <2>1, <1>i DEF DoneIsLast
  <2>4. ReplyIsLast'
    <3> SUFFICES ASSUME NEW q \in Requests, task'[q] \in {"returned", "gone"}
                 PROVE  InQueue(q)' \/ Arrived(q)'
      BY DEF ReplyIsLast
    <3>1. InQueue(q) \/ Arrived(q)
      BY <2>1, <1>i DEF ReplyIsLast
    <3> QED
      BY <1>9, <3>1, <1>t, QueueMoves
  <2>5. CancelledAreExcused'
    <3>1. \A q \in Requests : Excused(q)' <=> Excused(q)
      BY <2>1 DEF Excused
    <3>2. ASSUME NEW i \in DOMAIN outq', outq'[i].of \in Requests, outq'[i].says = "cancelled"
          PROVE  outq'[i].of \in asked' \/ shutdown'
      <4>1. i \in 1..Len(outq') /\ i + 1 \in 1..Len(outq) /\ outq'[i] = outq[i + 1]
        BY <2>2
      <4>2. i + 1 \in DOMAIN outq
        BY <4>1, <1>f
      <4>3. Excused(outq'[i].of)
        BY <3>2, <4>1, <4>2, <1>i DEF CancelledAreExcused
      <4> QED
        BY <4>3, <2>1 DEF Excused
    <3>3. ASSUME NEW q \in Requests, NEW i \in DOMAIN delivered'[q],
                 delivered'[q][i] = "cancelled"
          PROVE  Excused(q)
      <4>1. CASE delivered'[q] = delivered[q]
        BY <3>3, <4>1, <1>i DEF CancelledAreExcused
      <4>2. CASE delivered'[q] # delivered[q]
        <5>1. Head(outq).of = q /\ delivered'[q] = Append(delivered[q], Head(outq).says)
          BY <2>1, <2>2, <4>2, <1>f
        <5>2. delivered[q] \in Seq(Says) /\ Head(outq).says \in Says
          BY <5>1, <2>2, <1>f, Numbers
        <5>3. i \in 1..Len(delivered[q]) \/ (i = Len(delivered[q]) + 1)
          BY <5>1, <5>2
        <5>4. CASE i \in 1..Len(delivered[q])
          <6>1. i \in DOMAIN delivered[q] /\ delivered[q][i] = "cancelled"
            BY <3>3, <5>1, <5>2, <5>4
          <6> QED
            BY <6>1, <1>i DEF CancelledAreExcused
        <5>5. CASE i = Len(delivered[q]) + 1
          <6>1. outq[1].of = q /\ outq[1].says = "cancelled" /\ 1 \in DOMAIN outq
            BY <3>3, <5>1, <5>2, <5>5, <2>2, <1>f
          <6> QED
            BY <6>1, <1>i DEF CancelledAreExcused
        <5> QED
          BY <5>3, <5>4, <5>5
      <4> QED
        BY <4>1, <4>2
    <3>4. \A q \in Requests : saying'[q] = "cancelled" => Excused(q)'
      BY <2>1, <3>1, <1>i DEF CancelledAreExcused
    <3>5. \A q \in Requests : \A i \in DOMAIN delivered'[q] :
            delivered'[q][i] = "cancelled" => Excused(q)'
      BY <3>1, <3>3
    <3> QED
      BY <3>2, <3>4, <3>5 DEF CancelledAreExcused, Excused
  <2> QED
    BY <2>3, <2>4, <2>5 DEF ReplyInv
<1>10. CASE WriteFails
  <2>1. /\ writer' = "failed" /\ outq' = <<>>
        /\ UNCHANGED <<saying, delivered, asked, shutdown>>
    BY <1>10 DEF WriteFails, taskVars, peerVars
  <2>2. CancelledAreExcused'
    BY <2>1, <1>i DEF CancelledAreExcused, Excused
  <2> QED
    BY <2>1, <2>2 DEF ReplyInv, DoneIsLast, ReplyIsLast
<1>11. CASE WriterEnds
  <2>1. /\ writer' = "done" /\ writer = "running" /\ reader' = "over"
        /\ \A r \in Requests : task[r] \in {"none", "returned", "gone"}
        /\ UNCHANGED <<saying, task, outq, delivered, asked, shutdown>>
    BY <1>11 DEF WriterEnds, HandlersReturned, taskVars, peerVars, readerVars
  <2>2. CancelledAreExcused'
    BY <2>1, <1>i DEF CancelledAreExcused, Excused
  <2>3. DoneIsLast'
    BY <2>1 DEF DoneIsLast
  <2>4. ReplyIsLast'
    <3>1. \A r \in Requests : (InQueue(r) <=> InQueue(r)') /\ (Arrived(r) <=> Arrived(r)')
      BY <2>1 DEF InQueue, Arrived
    <3> QED
      BY <2>1, <3>1, <1>i DEF ReplyIsLast
  <2> QED
    BY <2>2, <2>3, <2>4 DEF ReplyInv
<1>12. CASE ClientStalls \/ ClientGone \/ ClientEof \/ Shutdown
  <2>1. UNCHANGED <<saying, task, outq, delivered, writer, asked, reader>>
        /\ (shutdown => shutdown')
    BY <1>12 DEF ClientStalls, ClientGone, ClientEof, Shutdown, taskVars, readerVars
  <2> QED
    BY <2>1, <1>t, QuietReplies
<1>13. CASE UNCHANGED vars
  BY <1>13, <1>t, QuietReplies DEF vars, taskVars, peerVars, readerVars
<1> QED
  BY <1>1, <1>2, <1>3, <1>4, <1>5, <1>6, <1>7, <1>8, <1>9, <1>10, <1>11, <1>12, <1>13
  DEF Next, ReaderStep, WriterStep

LEMMA ReplyInvariant == Spec => [](EntryInv /\ ReplyInv)
<1>1. Init => EntryInv /\ ReplyInv
  BY EntryInit, ReplyInit
<1>2. EntryInv /\ ReplyInv /\ [Next]_vars => (EntryInv /\ ReplyInv)'
  BY EntryStep, ReplyStep
<1> QED
  BY <1>1, <1>2, PTL DEF Spec

\* A cancel reaches no request but those in flight under its id when it was read,
\* and only they, or all at shutdown, are ever answered as cancelled.
THEOREM CancelsAreAsked == Spec => []OnlyAskedAreCancelled
<1>1. EntryInv /\ ReplyInv => OnlyAskedAreCancelled
  BY DEF EntryInv, ReplyInv, CancelledAreExcused, OnlyAskedAreCancelled, Excused
<1> QED
  BY <1>1, ReplyInvariant, PTL

\* Unless a write failed, the reply of a request that returned is queued or
\* delivered: neither a closed input nor a shutdown loses it.
THEOREM RepliesSurvive == Spec => []RepliesAreKept
<1>1. EntryInv /\ ReplyInv => RepliesAreKept
  <2> SUFFICES ASSUME EntryInv, ReplyInv, writer # "failed",
                      NEW r \in Requests, task[r] \in {"returned", "gone"}
               PROVE  \/ \E i \in DOMAIN outq : outq[i] = [of |-> r, says |-> saying[r]]
                      \/ /\ delivered[r] # <<>>
                         /\ delivered[r][Len(delivered[r])] = saying[r]
    BY DEF RepliesAreKept
  <2>1. InQueue(r) \/ Arrived(r)
    BY DEF ReplyInv, ReplyIsLast
  <2>2. DOMAIN outq = 1..Len(outq)
    BY DEF EntryInv, TypeOK
  <2> QED
    BY <2>1, <2>2 DEF InQueue, Arrived
<1> QED
  BY <1>1, ReplyInvariant, PTL

-----------------------------------------------------------------------------
(* Refinement: what the client receives implements ChatTurns.              *)

TokenFired(r) == r \in fired \/ shutdown
Over(r) == task[r] \in {"returned", "gone"}

SaysCancelled == \A r \in Requests : saying[r] = "cancelled" => TokenFired(r)

\* A queued message is of a request that was read; a terminal one is its last,
\* and nobody is there to send another.
Fits(m) ==
  /\ task[m.of] # "none"
  /\ m.says # "part" => Over(m.of)
  /\ m.says = "cancelled" => TokenFired(m.of)
QueueFits ==
  \A i \in 1..Len(outq) : outq[i].of \in Requests =>
    /\ Fits(outq[i])
    /\ outq[i].says # "part" => \A j \in (i + 1)..Len(outq) : outq[j].of # outq[i].of

\* After a terminal message has reached the client there is none left.
DeliveredFits ==
  \A r \in Requests :
    /\ task[r] = "none" => delivered[r] = <<>>
    /\ Reached(r) => Over(r) /\ \A i \in 1..Len(outq) : outq[i].of # r

StreamInv == SaysCancelled /\ QueueFits /\ DeliveredFits

\* A step of the tasks that sends nothing and takes nobody back.
TasksAdvance ==
  /\ \A r \in Requests : task[r] # "none" => task'[r] # "none"
  /\ \A r \in Requests : Over(r) => Over(r)'
TokensGrow == fired \subseteq fired' /\ (shutdown => shutdown')

LEMMA FitsStays ==
  ASSUME TasksAdvance, TokensGrow, NEW m, m.of \in Requests, Fits(m)
  PROVE  Fits(m)'
BY DEF TasksAdvance, TokensGrow, Fits, TokenFired

LEMMA QuietStream ==
  ASSUME StreamInv, TasksAdvance, TokensGrow, UNCHANGED <<outq, delivered>>, SaysCancelled'
  PROVE  StreamInv'
<1>1. QueueFits'
  <2>. SUFFICES ASSUME NEW i \in 1..Len(outq), outq[i].of \in Requests
                PROVE  /\ Fits(outq[i])'
                       /\ outq[i].says # "part" =>
                            \A j \in (i + 1)..Len(outq) : outq[j].of # outq[i].of
    BY DEF QueueFits, Fits
  <2>1. Fits(outq[i])
    BY DEF StreamInv, QueueFits
  <2>. QED
    BY <2>1 DEF StreamInv, QueueFits, Fits, TasksAdvance, TokensGrow, TokenFired
<1>2. DeliveredFits'
  BY DEF StreamInv, DeliveredFits, Reached, TasksAdvance
<1>. QED
  BY <1>1, <1>2 DEF StreamInv

\* A step that queues m, if the writer still takes it.
LEMMA QueueStream ==
  ASSUME StreamInv, TypeOK, TasksAdvance, UNCHANGED <<saying, delivered, fired, shutdown>>,
         NEW m \in Message, outq' = Append(outq, m),
         m.of \in Requests => Fits(m)' /\ ~Over(m.of)
  PROVE  StreamInv'
<1>1. /\ Len(outq') = Len(outq) + 1 /\ outq'[Len(outq) + 1] = m /\ Len(outq) \in Nat
      /\ \A i \in 1..Len(outq) : outq'[i] = outq[i]
  BY QueueAppended
<1>2. SaysCancelled'
  BY DEF StreamInv, SaysCancelled, TokenFired
<1>3. QueueFits'
  <2>. SUFFICES ASSUME NEW i \in 1..Len(outq'), NEW n, n = outq'[i], n.of \in Requests
                PROVE  /\ Fits(n)'
                       /\ n.says # "part" =>
                            \A j \in (i + 1)..Len(outq') : outq'[j].of # n.of
    BY DEF QueueFits, Fits
  <2>1. CASE i = Len(outq) + 1
    BY <1>1, <2>1
  <2>2. CASE i \in 1..Len(outq)
    <3>1. n = outq[i] /\ Fits(n)
      BY <1>1, <2>2 DEF StreamInv, QueueFits
    <3>2. Fits(n)'
      BY <3>1 DEF Fits, TasksAdvance, TokenFired
    <3>3. ASSUME n.says # "part", NEW j \in (i + 1)..Len(outq')
          PROVE  outq'[j].of # n.of
      <4>1. CASE j \in (i + 1)..Len(outq)
        BY <1>1, <2>2, <3>1, <3>3, <4>1 DEF StreamInv, QueueFits
      <4>2. CASE j = Len(outq) + 1
        BY <1>1, <3>1, <3>3, <4>2 DEF Fits
      <4>. QED
        BY <1>1, <2>2, <4>1, <4>2
    <3>. QED
      BY <3>1, <3>2, <3>3
  <2>. QED
    BY <1>1, <2>1, <2>2
<1>4. DeliveredFits'
  <2>. SUFFICES ASSUME NEW r \in Requests
                PROVE  /\ task'[r] = "none" => delivered[r] = <<>>
                       /\ Reached(r) => Over(r)' /\ \A i \in 1..Len(outq') : outq'[i].of # r
    BY DEF DeliveredFits, Reached
  <2>1. task'[r] = "none" => delivered[r] = <<>>
    BY DEF StreamInv, DeliveredFits, TasksAdvance
  <2>2. ASSUME Reached(r), NEW i \in 1..Len(outq') PROVE outq'[i].of # r
    <3>1. Over(r) /\ \A j \in 1..Len(outq) : outq[j].of # r
      BY <2>2 DEF StreamInv, DeliveredFits
    <3>. QED
      BY <1>1, <3>1
  <2>3. Reached(r) => Over(r)'
    BY DEF StreamInv, DeliveredFits, TasksAdvance
  <2>. QED
    BY <2>1, <2>2, <2>3
<1>. QED
  BY <1>2, <1>3, <1>4 DEF StreamInv

\* The writer task hands the head of the queue to the client.
LEMMA WriteStream ==
  ASSUME StreamInv, TypeOK, Write
  PROVE  StreamInv'
<1>. DEFINE m == Head(outq)
<1>1. /\ outq # <<>> /\ outq' = Tail(outq) /\ UNCHANGED <<task, saying, fired, shutdown>>
      /\ delivered' = IF m.of = NoRequest THEN delivered
                      ELSE [delivered EXCEPT ![m.of] = Append(@, m.says)]
  BY DEF Write, taskVars, peerVars
<1>2. /\ Len(outq') = Len(outq) - 1 /\ Len(outq) \in Nat /\ Len(outq) > 0
      /\ \A i \in 1..Len(outq') : outq'[i] = outq[i + 1]
      /\ m = outq[1]
      /\ m.of = NoRequest \/ (m.of \in Requests /\ m.says \in Says)
  BY <1>1, HeadIsMessage
<1>3. delivered \in [Requests -> Seq(Says)]
  BY DEF TypeOK
<1>. HIDE DEF m
<1>4. SaysCancelled'
  BY <1>1 DEF StreamInv, SaysCancelled, TokenFired
<1>5. \A i \in 1..Len(outq') : i + 1 \in 1..Len(outq) /\ outq'[i] = outq[i + 1]
  BY <1>2
<1>6. QueueFits'
  <2>. SUFFICES ASSUME NEW i \in 1..Len(outq'), NEW n, n = outq'[i], n.of \in Requests
                PROVE  /\ Fits(n)'
                       /\ n.says # "part" =>
                            \A j \in (i + 1)..Len(outq') : outq'[j].of # n.of
    BY DEF QueueFits, Fits
  <2>1. i + 1 \in 1..Len(outq) /\ n = outq[i + 1] /\ Fits(n)
    BY <1>5 DEF StreamInv, QueueFits
  <2>2. Fits(n)'
    BY <1>1, <2>1 DEF Fits, TokenFired, Over
  <2>3. ASSUME n.says # "part", NEW j \in (i + 1)..Len(outq')
        PROVE  outq'[j].of # n.of
    <3>1. j \in 1..Len(outq') /\ j + 1 \in (i + 1 + 1)..Len(outq)
      BY <1>2
    <3>. QED
      BY <1>5, <2>1, <2>3, <3>1 DEF StreamInv, QueueFits
  <2>. QED
    BY <2>2, <2>3
<1>7. ASSUME NEW r \in Requests, m.of # r
      PROVE  delivered'[r] = delivered[r]
  BY <1>1, <1>2, <1>3, <1>7
<1>8. DeliveredFits'
  <2>. SUFFICES ASSUME NEW r \in Requests
                PROVE  /\ task[r] = "none" => delivered'[r] = <<>>
                       /\ Reached(r)' => Over(r) /\ \A i \in 1..Len(outq') : outq'[i].of # r
    BY <1>1 DEF DeliveredFits, Over
  <2>1. CASE m.of # r
    <3>1. delivered'[r] = delivered[r] /\ (Reached(r)' <=> Reached(r))
      BY <1>7, <2>1 DEF Reached
    <3>. QED
      BY <1>5, <3>1 DEF StreamInv, DeliveredFits
  <2>2. CASE m.of = r
    <3>1. m.says \in Says /\ delivered[r] \in Seq(Says) /\ r # NoRequest
      BY <1>2, <1>3, <2>2, Numbers
    <3>2. delivered'[r] = Append(delivered[r], m.says)
      BY <1>1, <1>3, <2>2, <3>1
    <3>3. delivered'[r][Len(delivered'[r])] = m.says
      BY <3>1, <3>2
    <3>4. 1 \in 1..Len(outq) /\ Fits(m)
      BY <1>2, <2>2 DEF StreamInv, QueueFits
    <3>5. ASSUME Reached(r)' PROVE Over(r) /\ \A i \in 1..Len(outq') : outq'[i].of # r
      <4>1. m.says # "part"
        BY <3>3, <3>5 DEF Reached
      <4>2. \A j \in 2..Len(outq) : outq[j].of # r
        BY <1>2, <2>2, <3>4, <4>1 DEF StreamInv, QueueFits
      <4>3. \A i \in 1..Len(outq') : i + 1 \in 2..Len(outq)
        BY <1>2
      <4>. QED
        BY <1>5, <2>2, <3>4, <4>1, <4>2, <4>3 DEF Fits
    <3>. QED
      BY <2>2, <3>4, <3>5 DEF Fits
  <2>. QED
    BY <2>1, <2>2
<1>. QED
  BY <1>4, <1>6, <1>8 DEF StreamInv

LEMMA StreamInit == Init => StreamInv
BY DEF Init, StreamInv, SaysCancelled, QueueFits, DeliveredFits, Reached

LEMMA StreamStep == TypeOK /\ StreamInv /\ [Next]_vars => StreamInv'
<1>. SUFFICES ASSUME TypeOK, StreamInv, [Next]_vars PROVE StreamInv'
  OBVIOUS
<1>. USE DEF readerVars, peerVars, taskVars
<1>1. ASSUME UNCHANGED <<saying, task, outq, delivered>>, TokensGrow PROVE StreamInv'
  <2>1. TasksAdvance /\ SaysCancelled'
    BY <1>1 DEF TasksAdvance, Over, StreamInv, SaysCancelled, TokensGrow, TokenFired
  <2>. QED
    BY <1>1, <2>1, QuietStream
<1>2. ASSUME UNCHANGED <<saying, fired, shutdown>> PROVE SaysCancelled' /\ TokensGrow
  BY <1>2 DEF StreamInv, SaysCancelled, TokensGrow, TokenFired
<1>3. ASSUME NEW r \in Requests, NEW i \in Ids, ReadRequest(r, i) PROVE StreamInv'
  <2>1. TasksAdvance
    BY <1>3 DEF ReadRequest, TypeOK, TasksAdvance, Over
  <2>. QED
    BY <1>2, <1>3, <2>1, QuietStream DEF ReadRequest
<1>4. ASSUME NEW r \in Requests, NEW what \in Says, Say(r, what) PROVE StreamInv'
  <2>1. TasksAdvance /\ TokensGrow
    BY <1>4 DEF Say, TypeOK, TasksAdvance, TokensGrow, Over
  <2>2. SaysCancelled'
    BY <1>4 DEF Say, TypeOK, StreamInv, SaysCancelled, TokenFired, IsCancelled
  <2>. QED
    BY <1>4, <2>1, <2>2, QuietStream DEF Say
<1>5. ASSUME NEW r \in Requests, Said(r) PROVE StreamInv'
  <2>0. PICK m : m = [of |-> r, says |-> saying[r]]
    OBVIOUS
  <2>1. m \in Message /\ m.of = r /\ m.says = saying[r]
    BY <2>0, MessagesAreMessages DEF TypeOK
  <2>2. TasksAdvance /\ ~Over(r) /\ (saying[r] # "part" => Over(r)') /\ task'[r] # "none"
    BY <1>5 DEF Said, TypeOK, TasksAdvance, Over
  <2>3. Fits(m)'
    BY <1>5, <2>1, <2>2 DEF Said, Fits, StreamInv, SaysCancelled, TokenFired
  <2>4. CASE Ended
    BY <1>2, <1>5, <2>2, <2>4, QuietStream DEF Said, Send
  <2>5. CASE ~Ended
    <3>1. outq' = Append(outq, m)
      BY <1>5, <2>0, <2>5 DEF Said, Send
    <3>2. UNCHANGED <<saying, delivered, fired, shutdown>>
      BY <1>5 DEF Said
    <3>3. m.of \in Requests => Fits(m)' /\ ~Over(m.of)
      BY <2>1, <2>2, <2>3
    <3>. QED
      BY <2>1, <2>2, <3>1, <3>2, <3>3, QueueStream
  <2>. QED
    BY <2>4, <2>5
<1>6. ASSUME NEW r \in Requests, Finish(r) PROVE StreamInv'
  <2>1. TasksAdvance
    BY <1>6 DEF Finish, TypeOK, TasksAdvance, Over
  <2>. QED
    BY <1>2, <1>6, <2>1, QuietStream DEF Finish
<1>7. ASSUME NEW i \in Ids, ReadCancel(i) PROVE StreamInv'
  BY <1>1, <1>7 DEF ReadCancel, Fire, TokensGrow
<1>8. CASE ReadMalformed \/ ReaderEnds \/ WriterEnds
  BY <1>1, <1>8 DEF ReadMalformed, ReaderEnds, WriterEnds, TokensGrow
<1>9. CASE AnswerMalformed
  <2>. DEFINE m == [of |-> NoRequest, says |-> "malformed"]
  <2>1. m \in Message /\ m.of \notin Requests
    BY MessagesAreMessages, Numbers
  <2>2. TasksAdvance
    BY <1>9 DEF AnswerMalformed, TasksAdvance, Over
  <2>. HIDE DEF m
  <2>3. CASE Ended
    BY <1>1, <1>9, <2>3 DEF AnswerMalformed, Send, TokensGrow
  <2>4. CASE ~Ended
    <3>1. outq' = Append(outq, m)
      BY <1>9, <2>4 DEF AnswerMalformed, Send, m
    <3>. QED
      BY <1>9, <2>1, <2>2, <3>1, QueueStream DEF AnswerMalformed
  <2>. QED
    BY <2>3, <2>4
<1>10. CASE Write
  BY <1>10, WriteStream
<1>11. CASE WriteFails
  <2>1. outq' = <<>> /\ UNCHANGED <<saying, task, fired, shutdown, delivered>>
    BY <1>11 DEF WriteFails
  <2>2. QueueFits' /\ SaysCancelled'
    BY <1>2, <2>1 DEF QueueFits
  <2>3. DeliveredFits'
    BY <2>1 DEF StreamInv, DeliveredFits, Reached, Over
  <2>. QED
    BY <2>2, <2>3 DEF StreamInv
<1>12. CASE ClientStalls \/ ClientGone \/ ClientEof \/ Shutdown
  BY <1>1, <1>12 DEF ClientStalls, ClientGone, ClientEof, Shutdown, TokensGrow
<1>13. CASE UNCHANGED vars
  BY <1>1, <1>13 DEF vars, TokensGrow
<1>. QED
  BY <1>3, <1>4, <1>5, <1>6, <1>7, <1>8, <1>9, <1>10, <1>11, <1>12, <1>13
  DEF Next, ReaderStep, WriterStep

LEMMA StreamInvariant == Spec => [](EntryInv /\ StreamInv)
<1>1. EntryInv => TypeOK
  BY DEF EntryInv
<1>. QED
  BY <1>1, StreamInit, StreamStep, EntryInvariant, PTL DEF Spec

\* The replies of a request, as ChatTurns names them.
Kinds(says) == [i \in 1..Len(says) |-> ReplyKind(says[i])]

LEMMA KindsAppend ==
  ASSUME NEW says \in Seq(Says), NEW what \in Says
  PROVE  Kinds(Append(says, what)) = Append(Kinds(says), ReplyKind(what))
<1>. DEFINE more == Append(says, what)
<1>1. /\ Len(more) = Len(says) + 1 /\ more[Len(says) + 1] = what /\ Len(says) \in Nat
      /\ \A i \in 1..Len(says) : more[i] = says[i]
  OBVIOUS
<1>2. Kinds(says) \in Seq({ReplyKind(w) : w \in Says})
  BY DEF Kinds
<1>3. Len(Kinds(says)) = Len(says)
  BY DEF Kinds
<1>. QED
  BY <1>1, <1>2, <1>3 DEF Kinds

\* What of a step shows in ChatTurns.
LEMMA StaysOnStep ==
  ASSUME delivered' = delivered, fired \subseteq fired', shutdown => shutdown',
         \A r \in Requests : task'[r] = "none" <=> task[r] = "none"
  PROVE  [CT!Next]_CT!vars
<1>1. Phase' = Phase /\ Replies' = Replies
  BY DEF Phase, Replies, Reached
<1>2. Fired \subseteq Fired' /\ Fired' \in SUBSET Requests
  BY DEF Fired
<1>3. \A r \in Fired' : Phase[r] # "idle"
  BY DEF Fired, Phase
<1>4. CT!Cancel(Fired')
  BY <1>1, <1>2, <1>3 DEF CT!Cancel
<1>. QED
  BY <1>2, <1>4 DEF CT!Next

LEMMA ReadRefines ==
  ASSUME TypeOK, StreamInv, NEW r \in Requests, NEW i \in Ids, ReadRequest(r, i)
  PROVE  CT!Next
<1>1. /\ task[r] = "none" /\ task' = [task EXCEPT ![r] = "running"]
      /\ UNCHANGED <<fired, shutdown, delivered>>
  BY DEF ReadRequest, peerVars
<1>2. ~Reached(r)
  BY <1>1 DEF StreamInv, DeliveredFits, Reached
<1>3. Phase[r] = "idle" /\ Phase' = [Phase EXCEPT ![r] = "active"]
  BY <1>1, <1>2 DEF TypeOK, Phase, Reached
<1>4. Fired' \in {Fired, Fired \cup {r}} /\ Replies' = Replies
  BY <1>1 DEF TypeOK, Fired, Replies
<1>5. CT!Start(r)
  BY <1>3, <1>4 DEF CT!Start
<1>. QED
  BY <1>5 DEF CT!Next

LEMMA WriteRefines ==
  ASSUME TypeOK, StreamInv, Write
  PROVE  [CT!Next]_CT!vars
<1>. DEFINE m == Head(outq)
<1>1. /\ outq # <<>> /\ UNCHANGED <<task, fired, shutdown>>
      /\ delivered' = IF m.of = NoRequest THEN delivered
                      ELSE [delivered EXCEPT ![m.of] = Append(@, m.says)]
  BY DEF Write, taskVars, peerVars
<1>2. /\ m = outq[1] /\ 1 \in 1..Len(outq)
      /\ m.of = NoRequest \/ (m.of \in Requests /\ m.says \in Says)
  BY <1>1, HeadIsMessage
<1>3. CASE m.of = NoRequest
  BY <1>1, <1>3, StaysOnStep
<1>4. CASE m.of # NoRequest
  <2>. DEFINE r == m.of
              kind == ReplyKind(m.says)
  <2>1. r \in Requests /\ m.says \in Says /\ delivered[r] \in Seq(Says)
    BY <1>2, <1>4 DEF TypeOK
  <2>2. delivered' = [delivered EXCEPT ![r] = Append(@, m.says)]
    BY <1>1, <1>4
  <2>3. Fits(m)
    BY <1>2, <2>1 DEF StreamInv, QueueFits
  <2>4. ~Reached(r)
    BY <1>2, <2>1 DEF StreamInv, DeliveredFits
  <2>5. Phase[r] = "active"
    BY <2>1, <2>3, <2>4 DEF Phase, Fits
  <2>. HIDE DEF m
  <2>6. /\ delivered'[r] = Append(delivered[r], m.says)
        /\ \A q \in Requests \ {r} : delivered'[q] = delivered[q]
    BY <2>1, <2>2 DEF TypeOK
  <2>7. delivered'[r] # <<>> /\ delivered'[r][Len(delivered'[r])] = m.says
    BY <2>1, <2>6
  <2>8. Phase' = [Phase EXCEPT ![r] = IF m.says = "part" THEN "active" ELSE "ended"]
    BY <1>1, <2>1, <2>3, <2>6, <2>7 DEF Phase, Reached, Fits
  <2>9. Fired' = Fired
    BY <1>1 DEF Fired
  <2>10. Replies' = [Replies EXCEPT ![r] = Append(@, kind)]
    <3>1. Replies = [q \in Requests |-> Kinds(delivered[q])]
      BY DEF Replies, Kinds
    <3>2. Replies' = [q \in Requests |-> Kinds(delivered'[q])]
      BY DEF Replies, Kinds
    <3>3. Kinds(delivered'[r]) = Append(Kinds(delivered[r]), kind)
      BY <2>1, <2>6, KindsAppend
    <3>. HIDE DEF kind
    <3>. QED
      BY <2>1, <2>6, <3>1, <3>2, <3>3
  <2>11. CASE m.says = "part"
    <3>1. kind = "draft" /\ Phase' = Phase
      BY <2>1, <2>5, <2>8, <2>11 DEF ReplyKind, Phase
    <3>2. CT!Draft(r)
      BY <2>5, <2>9, <2>10, <3>1 DEF CT!Draft
    <3>. QED
      BY <2>1, <3>2 DEF CT!Next
  <2>12. CASE m.says # "part"
    <3>1. /\ kind \in {"complete", "cancelled"} /\ Phase' = [Phase EXCEPT ![r] = "ended"]
          /\ kind = "cancelled" => r \in Fired
      BY <2>1, <2>3, <2>8, <2>12 DEF ReplyKind, Says, Fits, Fired, TokenFired
    <3>2. CT!End(r, kind)
      <4>. HIDE DEF kind
      <4>. QED
        BY <2>5, <2>9, <2>10, <3>1 DEF CT!End
    <3>. QED
      BY <2>1, <3>1, <3>2 DEF CT!Next, CT!Finals
  <2>. QED
    BY <2>11, <2>12
<1>. QED
  BY <1>3, <1>4

LEMMA ConnectionRefines == TypeOK /\ StreamInv /\ [Next]_vars => [CT!Next]_CT!vars
<1>. SUFFICES ASSUME TypeOK, StreamInv, [Next]_vars PROVE [CT!Next]_CT!vars
  OBVIOUS
<1>. USE DEF readerVars, peerVars, taskVars
<1>1. ASSUME NEW r \in Requests, NEW i \in Ids, ReadRequest(r, i) PROVE CT!Next
  BY <1>1, ReadRefines
<1>2. ASSUME NEW r \in Requests,
             Said(r) \/ Finish(r) \/ \E what \in Says : Say(r, what)
      PROVE  [CT!Next]_CT!vars
  <2>1. \A q \in Requests : task'[q] = "none" <=> task[q] = "none"
    BY <1>2 DEF Said, Finish, Say, TypeOK
  <2>2. UNCHANGED <<delivered, fired, shutdown>>
    BY <1>2 DEF Said, Finish, Say
  <2>. QED
    BY <2>1, <2>2, StaysOnStep
<1>3. ASSUME NEW i \in Ids, ReadCancel(i) PROVE [CT!Next]_CT!vars
  BY <1>3, StaysOnStep DEF ReadCancel, Fire
<1>4. CASE ReadMalformed \/ ReaderStep
  BY <1>4, StaysOnStep DEF ReadMalformed, ReaderStep, AnswerMalformed, ReaderEnds
<1>5. CASE WriterStep
  BY <1>5, WriteRefines, StaysOnStep DEF WriterStep, WriteFails, WriterEnds
<1>6. CASE ClientStalls \/ ClientGone \/ ClientEof \/ Shutdown
  BY <1>6, StaysOnStep DEF ClientStalls, ClientGone, ClientEof, Shutdown
<1>7. CASE UNCHANGED vars
  BY <1>7, StaysOnStep DEF vars
<1>. QED
  BY <1>1, <1>2, <1>3, <1>4, <1>5, <1>6, <1>7 DEF Next

\* Whatever else is on the connection, its client receives of each request
\* parts, then one terminal message, then nothing, and reads "cancelled" only
\* when the token of that request, or the server's, has fired: the stream that
\* chat_via_bridge is shown to send (BridgeProofs) is the stream that arrives.
THEOREM ConnectionImplementsChatTurns == Spec => ClientSeesTurns
<1>1. Init => CT!Init
  <2>. SUFFICES ASSUME Init PROVE CT!Init
    OBVIOUS
  <2>1. Phase = [r \in Requests |-> "idle"] /\ Fired = {}
    BY DEF Init, Phase, Fired
  <2>2. Replies = [r \in Requests |-> <<>>]
    BY DEF Init, Replies
  <2>. QED
    BY <2>1, <2>2 DEF CT!Init
<1>2. EntryInv => TypeOK
  BY DEF EntryInv
<1>. QED
  BY <1>1, <1>2, ConnectionRefines, StreamInvariant, PTL DEF Spec, ClientSeesTurns, CT!Spec
-----------------------------------------------------------------------------
(* What ChatTurns promises, read off the replies.                          *)

LEMMA PromiseInit == CT!Init => CT!TypeOK /\ CT!Promise
BY DEF CT!Init, CT!TypeOK, CT!Promise

\* One more reply, a draft or the terminal one, keeps the promise of its turn.
LEMMA ReplyKeepsPromise ==
  ASSUME CT!TypeOK, CT!Promise, NEW t \in Requests, NEW kind \in {"draft"} \union CT!Finals,
         IF kind = "draft" THEN CT!Draft(t) ELSE CT!End(t, kind)
  PROVE  CT!TypeOK' /\ CT!Promise'
<1>. DEFINE all == {"draft"} \union CT!Finals
<1>1. /\ Phase[t] = "active"
      /\ Phase' = [Phase EXCEPT ![t] = IF kind = "draft" THEN "active" ELSE "ended"]
      /\ Replies' = [Replies EXCEPT ![t] = Append(@, kind)]
      /\ Fired' = Fired
      /\ kind = "cancelled" => t \in Fired
      /\ kind = "offline" => Replies[t] = <<>>
  BY DEF CT!Draft, CT!End, CT!TypeOK, CT!Finals
<1>2. Replies[t] \in Seq(all) /\ Replies'[t] = Append(Replies[t], kind)
  BY <1>1 DEF CT!TypeOK
<1>3. \A i \in DOMAIN Replies[t] : Replies[t][i] = "draft"
  BY <1>1 DEF CT!Promise
<1>4. /\ DOMAIN Replies'[t] = 1..(Len(Replies[t]) + 1)
      /\ Len(Replies'[t]) = Len(Replies[t]) + 1 /\ Len(Replies[t]) \in Nat
      /\ Replies'[t][Len(Replies[t]) + 1] = kind
      /\ \A i \in 1..Len(Replies[t]) : Replies'[t][i] = "draft"
  BY <1>2, <1>3
<1>5. CT!TypeOK'
  <2>1. Append(Replies[t], kind) \in Seq(all)
    BY <1>2
  <2>. QED
    BY <1>1, <2>1 DEF CT!TypeOK
<1>6. ASSUME NEW u \in Requests \ {t}
      PROVE  Replies'[u] = Replies[u] /\ Phase'[u] = Phase[u]
  BY <1>1 DEF CT!TypeOK
<1>7. Phase'[t] = IF kind = "draft" THEN "active" ELSE "ended"
  BY <1>1 DEF CT!TypeOK
<1>8. kind = "offline" => Len(Replies'[t]) = 1
  BY <1>1, <1>4
<1>. QED
  BY <1>1, <1>3, <1>4, <1>5, <1>6, <1>7, <1>8 DEF CT!Promise

LEMMA PromiseStep == CT!TypeOK /\ CT!Promise /\ [CT!Next]_CT!vars => CT!TypeOK' /\ CT!Promise'
<1>. SUFFICES ASSUME CT!TypeOK, CT!Promise, [CT!Next]_CT!vars
              PROVE  CT!TypeOK' /\ CT!Promise'
  OBVIOUS
<1>1. ASSUME NEW t \in Requests, CT!Start(t) PROVE CT!TypeOK' /\ CT!Promise'
  BY <1>1 DEF CT!Start, CT!TypeOK, CT!Promise
<1>2. ASSUME NEW T \in SUBSET Requests, CT!Cancel(T) PROVE CT!TypeOK' /\ CT!Promise'
  BY <1>2 DEF CT!Cancel, CT!TypeOK, CT!Promise
<1>3. ASSUME NEW t \in Requests, CT!Draft(t) PROVE CT!TypeOK' /\ CT!Promise'
  <2>1. \A kind \in {"draft"} \union CT!Finals : kind = "draft" => CT!TypeOK' /\ CT!Promise'
    BY <1>3, ReplyKeepsPromise
  <2>. QED
    BY <2>1
<1>4. ASSUME NEW t \in Requests, NEW kind \in CT!Finals, CT!End(t, kind)
      PROVE  CT!TypeOK' /\ CT!Promise'
  BY <1>4, ReplyKeepsPromise DEF CT!Finals
<1>5. CASE UNCHANGED CT!vars
  BY <1>5 DEF CT!vars, CT!TypeOK, CT!Promise
<1>. QED
  BY <1>1, <1>2, <1>3, <1>4, <1>5 DEF CT!Next

\* What a client receives of a request are parts, one terminal message and no
\* more, and "cancelled" only if the request's token or the server's has fired.
THEOREM ClientsGetPromise == Spec => []CT!Promise
BY PromiseInit, PromiseStep, ConnectionImplementsChatTurns, PTL DEF ClientSeesTurns, CT!Spec

-----------------------------------------------------------------------------
(* Liveness: a sender gets room, and a request whose token fired ends.     *)

\* Where a request's task can go from each place in one step of the system ...
LEMMA TaskMoves ==
  ASSUME TypeOK, [Next]_vars, NEW r \in Requests
  PROVE  /\ task[r] # "none" => task'[r] # "none"
         /\ task[r] = "running" => task'[r] \in {"running", "sending"}
         /\ task[r] = "sending" => task'[r] \in {"running", "sending", "returned"}
         /\ task[r] = "returned" => task'[r] \in {"returned", "gone"}
         /\ task[r] = "sending" /\ task'[r] = "sending" => saying'[r] = saying[r]
         /\ task[r] = "sending" /\ saying[r] # "part" => task'[r] # "running"
<1>1. ASSUME NEW q \in Requests, NEW i \in Ids, ReadRequest(q, i)
      PROVE  saying' = saying /\ (task[r] # "none" => task'[r] = task[r])
  BY <1>1 DEF ReadRequest, taskVars, TypeOK
<1>2. ASSUME NEW q \in Requests \ {r},
             (\E what \in Says : Say(q, what)) \/ Said(q) \/ Finish(q)
      PROVE  task'[r] = task[r] /\ saying'[r] = saying[r]
  BY <1>2 DEF Say, Said, Finish, TypeOK
<1>3. CASE (\E what \in Says : Say(r, what)) \/ Said(r) \/ Finish(r)
  BY <1>3 DEF Say, Said, Finish, TypeOK
<1>4. CASE UNCHANGED taskVars
  BY <1>4 DEF taskVars
<1>5. ASSUME NEW i \in Ids, ReadCancel(i) PROVE UNCHANGED taskVars
  BY <1>5 DEF ReadCancel
<1>6. ReadMalformed \/ ReaderStep \/ WriterStep => UNCHANGED taskVars
  BY DEF ReadMalformed, ReaderStep, AnswerMalformed, ReaderEnds, WriterStep, Write, WriteFails,
         WriterEnds
<1>7. ClientStalls \/ ClientGone \/ ClientEof \/ Shutdown => UNCHANGED taskVars
  BY DEF ClientStalls, ClientGone, ClientEof, Shutdown
<1>8. UNCHANGED vars => UNCHANGED taskVars
  BY DEF vars
<1>. QED
  BY <1>1, <1>2, <1>3, <1>4, <1>5, <1>6, <1>7, <1>8 DEF Next

\* ... and what the steps that are owed change.
LEMMA OwedLeaves ==
  ASSUME TypeOK, NEW r \in Requests, Owed(r)
  PROVE  /\ task[r] = "running" => task'[r] = "sending" /\ saying'[r] = "cancelled"
         /\ task[r] = "sending" => task'[r] # "sending"
         /\ task[r] = "returned" => task'[r] = "gone"
BY DEF Owed, Say, Said, Finish, TypeOK

\* The writer has work while the queue is full, and makes room.
LEMMA WriterMakesRoom == TypeOK /\ ~CanSend /\ WriterStep => CanSend'
<1>. SUFFICES ASSUME TypeOK, ~CanSend, WriterStep PROVE CanSend'
  OBVIOUS
<1>1. CASE Write
  <2>1. outq # <<>> /\ outq \in Seq(Message) /\ Len(outq) <= CONN_QUEUE
    BY <1>1 DEF Write, TypeOK
  <2>2. Len(outq') = Len(outq) - 1 /\ Len(outq) \in Nat
    BY <1>1, <2>1 DEF Write
  <2>. QED
    BY <2>1, <2>2, SizesAssumption DEF CanSend
<1>2. CASE WriteFails \/ WriterEnds
  BY <1>2 DEF WriteFails, WriterEnds, CanSend, Ended
<1>. QED
  BY <1>1, <1>2 DEF WriterStep

\* A partial message is one of the extras.
LEMMA PartsAreExtras ==
  ASSUME TypeOK, [Next]_vars, NEW r \in Requests, task[r] = "running", task'[r] = "sending",
         saying'[r] = "part"
  PROVE  extras' # extras
<1>1. ASSUME NEW q \in Requests, NEW i \in Ids, ReadRequest(q, i)
      PROVE  task'[r] = task[r]
  BY <1>1 DEF ReadRequest, TypeOK
<1>2. ASSUME NEW q \in Requests \ {r},
             (\E what \in Says : Say(q, what)) \/ Said(q) \/ Finish(q)
      PROVE  task'[r] = task[r]
  BY <1>2 DEF Say, Said, Finish, TypeOK
<1>3. CASE (\E what \in Says : Say(r, what)) \/ Said(r) \/ Finish(r)
  BY <1>3 DEF Say, Said, Finish, TypeOK
<1>4. ASSUME NEW i \in Ids, ReadCancel(i) PROVE UNCHANGED taskVars
  BY <1>4 DEF ReadCancel
<1>5. ReadMalformed \/ ReaderStep \/ WriterStep => UNCHANGED taskVars
  BY DEF ReadMalformed, ReaderStep, AnswerMalformed, ReaderEnds, WriterStep, Write, WriteFails,
         WriterEnds
<1>6. ClientStalls \/ ClientGone \/ ClientEof \/ Shutdown => UNCHANGED taskVars
  BY DEF ClientStalls, ClientGone, ClientEof, Shutdown
<1>7. UNCHANGED vars => UNCHANGED taskVars
  BY DEF vars
<1>. QED
  BY <1>1, <1>2, <1>3, <1>4, <1>5, <1>6, <1>7 DEF Next, taskVars

\* A token that has fired stays so, and was registered by a request that was
\* read; a client that is gone stays gone.
LEMMA FiredStays ==
  ASSUME EntryInv, [Next]_vars, NEW r \in Requests
  PROVE  /\ r \in fired => r \in fired'
         /\ r \notin fired /\ r \in fired' => task[r] # "none"
         /\ client = "gone" => client' = "gone"
<1>1. ASSUME NEW i \in Ids, ReadCancel(i)
      PROVE  /\ fired \subseteq fired' /\ client' = client
             /\ r \notin fired /\ r \in fired' => task[r] # "none"
  BY <1>1 DEF ReadCancel, Fire, peerVars, EntryInv, EntriesAreLive, Live, NoRequest
<1>2. ASSUME NEW q \in Requests,
             \/ \E i \in Ids : ReadRequest(q, i)
             \/ (\E what \in Says : Say(q, what)) \/ Said(q) \/ Finish(q)
      PROVE  fired' = fired /\ client' = client
  BY <1>2 DEF ReadRequest, Say, Said, Finish, peerVars
<1>3. ReadMalformed \/ ReaderStep \/ WriterStep => fired' = fired /\ client' = client
  BY DEF ReadMalformed, ReaderStep, AnswerMalformed, ReaderEnds, WriterStep, Write, WriteFails,
         WriterEnds, peerVars
<1>4. ClientStalls \/ ClientGone \/ ClientEof \/ Shutdown =>
        fired' = fired /\ (client = "gone" => client' = "gone")
  BY DEF ClientStalls, ClientGone, ClientEof, Shutdown
<1>5. UNCHANGED vars => fired' = fired /\ client' = client
  BY DEF vars, peerVars
<1>. QED
  BY <1>1, <1>2, <1>3, <1>4, <1>5 DEF Next

\* If the steps that NobodyIsStuck names can be taken, which the run checks (what
\* a state ENABLEs is out of the provers' reach), no sender waits for ever for
\* room in the queue of a client that is gone, whatever the queue's capacity and
\* however many requests wait for it.
THEOREM SendersComeFree == FairSpec /\ []NobodyIsStuck => DeadClientBlocksNobody
<1>1. ASSUME NEW r \in Requests
      PROVE  FairSpec /\ []NobodyIsStuck =>
               ((client = "gone" /\ task[r] = "sending") ~> (task[r] # "sending"))
  <2>. DEFINE Gone == client = "gone"
              Sending == task[r] = "sending"
              Free == task[r] # "sending"
  <2>1. EntryInv /\ [Next]_vars => (Gone => Gone')
    BY FiredStays
  <2>2. EntryInv /\ <<Owed(r)>>_vars => (Sending => Free')
    BY OwedLeaves DEF EntryInv
  <2>3. EntryInv /\ ~CanSend /\ <<WriterStep>>_vars => CanSend'
    BY WriterMakesRoom DEF EntryInv
  <2>4. NobodyIsStuck => /\ Sending /\ CanSend => ENABLED <<Owed(r)>>_vars
                         /\ Gone /\ ~CanSend => ENABLED <<WriterStep>>_vars
    BY DEF NobodyIsStuck
  <2>5. FairSpec => Spec /\ [][Next]_vars /\ WriterFair /\ RequestFair(r)
    BY DEF FairSpec, Spec, Fairness
  <2>6. Sending \/ Free
    OBVIOUS
  <2>. HIDE DEF Gone, Sending, Free
  <2>7. FairSpec /\ []NobodyIsStuck => (Gone /\ Sending ~> Free)
    BY <2>1, <2>2, <2>3, <2>4, <2>5, <2>6, EntryInvariant, PTL DEF RequestFair, WriterFair
  <2>. QED
    BY <2>7 DEF Gone, Sending, Free
<1>. QED
  BY <1>1 DEF DeadClientBlocksNobody

\* A cancelled request ends, for any queue and any number of requests, unless
\* its client stops reading for good.  To the hypothesis on ENABLED it adds that
\* partial messages come to an end (there are MaxExtras at most, but that a
\* bounded counter stops growing takes an induction that PTL does not do).
THEOREM CancelledRequestsEnd ==
  FairSpec /\ []NobodyIsStuck /\ <>[][extras' = extras]_vars => CancelEndsRequest
<1>1. ASSUME NEW r \in Requests
      PROVE  FairSpec /\ []NobodyIsStuck /\ <>[][extras' = extras]_vars
                      /\ <>[](client # "stalls") =>
               ((r \in fired) ~> (task[r] = "gone"))
  <2>. DEFINE Stopped == r \in fired
              At(place) == task[r] = place
              Part == saying[r] = "part"
              Reads == client # "stalls"
  <2>1. Init => ~Stopped
    BY DEF Init
  <2>2. EntryInv /\ [Next]_vars => /\ Stopped => Stopped'
                                   /\ ~Stopped /\ Stopped' => ~At("none")
    BY FiredStays
  <2>3. EntryInv => At("none") \/ At("running") \/ At("sending") \/ At("returned") \/ At("gone")
    BY DEF EntryInv, TypeOK
  <2>4. EntryInv /\ [Next]_vars =>
          /\ ~At("none") => ~At("none")'
          /\ At("running") => At("running")' \/ At("sending")'
          /\ At("sending") => At("running")' \/ At("sending")' \/ At("returned")'
          /\ At("returned") => At("returned")' \/ At("gone")'
          /\ At("sending") /\ At("sending")' /\ ~Part => ~Part'
          /\ At("sending") /\ ~Part => ~At("running")'
    BY TaskMoves DEF EntryInv
  <2>5. EntryInv /\ [Next]_vars /\ [extras' = extras]_vars =>
          (At("running") /\ At("sending")' => ~Part')
    <3>1. vars' = vars => extras' = extras
      BY DEF vars, readerVars
    <3>. QED
      BY <3>1, PartsAreExtras DEF EntryInv
  <2>6. EntryInv /\ <<Owed(r)>>_vars => /\ At("running") => At("sending")'
                                        /\ At("sending") => ~At("sending")'
                                        /\ At("returned") => At("gone")'
    BY OwedLeaves DEF EntryInv
  <2>7. EntryInv /\ ~CanSend /\ <<WriterStep>>_vars => CanSend'
    BY WriterMakesRoom DEF EntryInv
  <2>8. NobodyIsStuck => /\ Stopped /\ At("running") => ENABLED <<Owed(r)>>_vars
                         /\ At("sending") /\ CanSend => ENABLED <<Owed(r)>>_vars
                         /\ At("returned") => ENABLED <<Owed(r)>>_vars
                         /\ Reads /\ ~CanSend => ENABLED <<WriterStep>>_vars
    BY DEF NobodyIsStuck, IsCancelled
  <2>9. FairSpec => Spec /\ Init /\ [][Next]_vars /\ WriterFair /\ RequestFair(r)
    BY DEF FairSpec, Spec, Fairness
  <2>. HIDE DEF Stopped, At, Part, Reads
  <2>10. FairSpec /\ []NobodyIsStuck /\ <>[][extras' = extras]_vars /\ <>[]Reads =>
           (Stopped ~> At("gone"))
    BY <2>1, <2>2, <2>3, <2>4, <2>5, <2>6, <2>7, <2>8, <2>9, EntryInvariant, PTL
       DEF RequestFair, WriterFair
  <2>. QED
    BY <2>10 DEF Stopped, At, Reads
<1>. QED
  BY <1>1 DEF CancelEndsRequest
=============================================================================
