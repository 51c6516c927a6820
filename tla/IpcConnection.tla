--------------------------- MODULE IpcConnection ---------------------------
(***************************************************************************)
(* One client connection of the daemon's Unix-socket server:               *)
(* `handle_connection` in src/src/ipc/server.rs.  A reader loop, a writer  *)
(* task and one task per request interleave; they share the bounded        *)
(* outbound queue, the `in_flight` map and the cancellation tokens.        *)
(*                                                                         *)
(* What a request's handler says is left open: some partial messages, then *)
(* a terminal one, at any time or never (set_model, which says nothing, is *)
(* in Requests).  A handler listens for its token between two messages (as *)
(* chat_via_bridge does), never while one of them waits for room in the    *)
(* queue.  Broadcasts are not part of this module.                         *)
(*                                                                         *)
(* A definition X_Y stands before the definition X it is a mutation of.    *)
(***************************************************************************)
EXTENDS Naturals, Sequences, FiniteSets

CONSTANTS MaxRequests,   \* bound: requests read from the connection
          Ids,           \* the request_id values clients use; they may repeat
          CONN_QUEUE,    \* capacity of the outbound queue
          MaxExtras,     \* bound: partial messages and malformed lines
          NoId

ASSUME IdsAssumption == NoId \notin Ids
ASSUME SizesAssumption == /\ MaxRequests \in Nat
                          /\ CONN_QUEUE \in Nat \ {0}
                          /\ MaxExtras \in Nat

\* Requests are numbered as they are read.
Requests == 1..MaxRequests
NoRequest == 0

VARIABLES
  reader,     \* the read loop: reading, stuck sending an error, or over
  client,     \* the peer: it reads, has stopped reading, or is gone
  eof,        \* has the client closed its sending side?
  shutdown,   \* the server's CancellationToken
  extras,     \* partial messages sent and malformed lines read
  id,         \* id[r]: the request_id that r carries
  task,       \* task[r]: where the task spawned for r is
  saying,     \* saying[r]: the message r's handler is sending
  fired,      \* requests whose own token was cancelled
  inFlight,   \* in_flight: request_id -> the token registered for it
  outq,       \* the outbound queue
  writer      \* the writer task: running, ended by a write error, or done

\* What the client sent and received, kept to state properties.
VARIABLES asked,      \* requests in flight under an id when its cancel was read
          delivered   \* delivered[r]: messages of r that reached the client

readerVars == <<reader, extras>>
peerVars == <<client, eof, shutdown>>
taskVars == <<id, task, saying>>
vars == <<readerVars, peerVars, taskVars, fired, inFlight, outq, writer, asked, delivered>>

\* A queued message: a request's, or the error for a malformed line.
Says == {"part", "final", "cancelled"}
Message == [of : Requests, says : Says] \union {[of |-> NoRequest, says |-> "malformed"]}

TypeOK ==
  /\ reader \in {"reading", "stuck", "over"}
  /\ client \in {"reads", "stalls", "gone"}
  /\ eof \in BOOLEAN /\ shutdown \in BOOLEAN
  /\ extras \in 0..MaxExtras
  /\ id \in [Requests -> Ids \union {NoId}]
  /\ task \in [Requests -> {"none", "running", "sending", "returned", "gone"}]
  /\ saying \in [Requests -> Says]
  /\ fired \subseteq Requests
  /\ inFlight \in [Ids -> Requests \union {NoRequest}]
  /\ outq \in Seq(Message) /\ Len(outq) <= CONN_QUEUE
  /\ writer \in {"running", "failed", "done"}
  /\ asked \subseteq Requests
  /\ delivered \in [Requests -> Seq(Says)]

Init ==
  /\ reader = "reading" /\ extras = 0
  /\ client = "reads" /\ eof = FALSE /\ shutdown = FALSE
  /\ id = [r \in Requests |-> NoId]
  /\ task = [r \in Requests |-> "none"]
  /\ saying = [r \in Requests |-> "final"]
  /\ fired = {}
  /\ inFlight = [i \in Ids |-> NoRequest]
  /\ outq = <<>> /\ writer = "running"
  /\ asked = {}
  /\ delivered = [r \in Requests |-> <<>>]

-----------------------------------------------------------------------------
(* Conn::send: wait for room, then queue; drop the message when the writer *)
(* task, which holds the receiver, has ended.                              *)

Ended == writer # "running"
CanSend == Ended \/ Len(outq) < CONN_QUEUE
Send(m) == outq' = IF Ended THEN outq ELSE Append(outq, m)

-----------------------------------------------------------------------------
(* The read loop.                                                          *)

\* What a client has written can be read after it is gone.
Readable == reader = "reading" /\ ~eof

\* Any request but subscribe and cancel: register a fresh child token under
\* its id, replacing one that is there, and spawn the handler.
Register(i, r) == inFlight' = [inFlight EXCEPT ![i] = r]

ReadRequest(r, i) ==
  /\ Readable
  /\ task[r] = "none" /\ \A q \in 1..(r - 1) : task[q] # "none"
  /\ id' = [id EXCEPT ![r] = i]
  /\ Register(i, r)
  /\ task' = [task EXCEPT ![r] = "running"]
  /\ UNCHANGED <<readerVars, peerVars, saying, fired, outq, writer, asked, delivered>>

\* A cancel fires the token registered under its id, if there is one.
Fire_Everything(i) ==
  fired' = fired \union {r \in Requests : \E j \in Ids : inFlight[j] = r}
Fire(i) == fired' = IF inFlight[i] = NoRequest THEN fired ELSE fired \union {inFlight[i]}

ReadCancel(i) ==
  /\ Readable
  /\ Fire(i)
  /\ asked' = asked \union {r \in Requests : id[r] = i /\ task[r] # "gone"}
  /\ UNCHANGED <<readerVars, peerVars, taskVars, inFlight, outq, writer, delivered>>

\* A malformed line is answered by the read loop itself, which reads nothing
\* else until the answer is queued.
ReadMalformed ==
  /\ Readable
  /\ extras < MaxExtras
  /\ extras' = extras + 1
  /\ reader' = "stuck"
  /\ UNCHANGED <<peerVars, taskVars, fired, inFlight, outq, writer, asked, delivered>>

AnswerMalformed ==
  /\ reader = "stuck"
  /\ CanSend
  /\ Send([of |-> NoRequest, says |-> "malformed"])
  /\ reader' = "reading"
  /\ UNCHANGED <<extras, peerVars, taskVars, fired, inFlight, writer, asked, delivered>>

\* End of input, a read error, or the server's shutdown ends the loop and drops
\* its Conn; requests in flight go on.
ReaderEnds_OnInputOnly ==
  /\ reader = "reading"
  /\ eof \/ client = "gone"
  /\ reader' = "over"
  /\ UNCHANGED <<extras, peerVars, taskVars, fired, inFlight, outq, writer, asked, delivered>>
ReaderEnds ==
  /\ reader = "reading"
  /\ eof \/ client = "gone" \/ shutdown
  /\ reader' = "over"
  /\ UNCHANGED <<extras, peerVars, taskVars, fired, inFlight, outq, writer, asked, delivered>>

-----------------------------------------------------------------------------
(* The task of a request: the handler, then the removal from in_flight.    *)

\* Tokens are children of the server's.
IsCancelled_ByServerOnly(r) == shutdown
IsCancelled_SharedToken(r) == fired # {} \/ shutdown
IsCancelled(r) == r \in fired \/ shutdown

\* The handler decides what to say next.
Say(r, what) ==
  /\ task[r] = "running"
  /\ what = "part" => extras < MaxExtras
  /\ what = "cancelled" => IsCancelled(r)
  /\ saying' = [saying EXCEPT ![r] = what]
  /\ extras' = IF what = "part" THEN extras + 1 ELSE extras
  /\ task' = [task EXCEPT ![r] = "sending"]
  /\ UNCHANGED <<id, reader, peerVars, fired, inFlight, outq, writer, asked, delivered>>

\* Its conn.send goes through; after a terminal message it returns.
Said(r) ==
  /\ task[r] = "sending"
  /\ CanSend
  /\ Send([of |-> r, says |-> saying[r]])
  /\ task' = [task EXCEPT ![r] = IF saying[r] = "part" THEN "running" ELSE "returned"]
  /\ UNCHANGED <<id, saying, readerVars, peerVars, fired, inFlight, writer, asked, delivered>>

\* The spawned task removes the entry of its id, whoever's token it holds.
Unregister_Never(i) == UNCHANGED inFlight
Unregister_All(i) == inFlight' = [j \in Ids |-> NoRequest]
Unregister(i) == inFlight' = [inFlight EXCEPT ![i] = NoRequest]

Finish(r) ==
  /\ task[r] = "returned"
  /\ Unregister(id[r])
  /\ task' = [task EXCEPT ![r] = "gone"]
  /\ UNCHANGED <<id, saying, readerVars, peerVars, fired, outq, writer, asked, delivered>>

-----------------------------------------------------------------------------
(* The writer task.                                                        *)

Write ==
  /\ writer = "running"
  /\ outq # <<>>
  /\ client = "reads"
  /\ LET m == Head(outq)
     IN  delivered' = IF m.of = NoRequest THEN delivered
                      ELSE [delivered EXCEPT ![m.of] = Append(@, m.says)]
  /\ outq' = Tail(outq)
  /\ UNCHANGED <<readerVars, peerVars, taskVars, fired, inFlight, writer, asked>>

\* Writing to a client that is gone fails and ends the task: the queue goes
\* with it.
WriteFails_Retries ==
  /\ writer = "running"
  /\ outq # <<>>
  /\ client = "gone"
  /\ UNCHANGED vars
WriteFails ==
  /\ writer = "running"
  /\ outq # <<>>
  /\ client = "gone"
  /\ writer' = "failed"
  /\ outq' = <<>>
  /\ UNCHANGED <<readerVars, peerVars, taskVars, fired, inFlight, asked, delivered>>

\* recv returns None once the queue is empty and every Conn is dropped: the
\* reader's and the one each handler owns until it returns.
HandlersReturned_Assumed == TRUE
HandlersReturned == \A r \in Requests : task[r] \in {"none", "returned", "gone"}
WriterEnds ==
  /\ writer = "running"
  /\ outq = <<>>
  /\ reader = "over"
  /\ HandlersReturned
  /\ writer' = "done"
  /\ UNCHANGED <<readerVars, peerVars, taskVars, fired, inFlight, outq, asked, delivered>>

-----------------------------------------------------------------------------
(* The peer and the server around the connection (external).               *)

ClientStalls ==
  /\ \/ client = "reads" /\ client' = "stalls"
     \/ client = "stalls" /\ client' = "reads"
  /\ UNCHANGED <<eof, shutdown, readerVars, taskVars, fired, inFlight, outq, writer, asked, delivered>>

ClientGone ==
  /\ client # "gone"
  /\ client' = "gone"
  /\ UNCHANGED <<eof, shutdown, readerVars, taskVars, fired, inFlight, outq, writer, asked, delivered>>

\* The client closes its sending side and still reads.
ClientEof ==
  /\ ~eof /\ client # "gone"
  /\ eof' = TRUE
  /\ UNCHANGED <<client, shutdown, readerVars, taskVars, fired, inFlight, outq, writer, asked, delivered>>

Shutdown ==
  /\ ~shutdown
  /\ shutdown' = TRUE
  /\ UNCHANGED <<client, eof, readerVars, taskVars, fired, inFlight, outq, writer, asked, delivered>>

-----------------------------------------------------------------------------
ReaderStep == AnswerMalformed \/ ReaderEnds
WriterStep == Write \/ WriteFails \/ WriterEnds

\* Steps of r's task that the daemon owes: a handler may wait for the gateway
\* for ever, but not once its token has fired.
Owed(r) == Say(r, "cancelled") \/ Said(r) \/ Finish(r)

Next == \/ \E r \in Requests : \/ \E i \in Ids : ReadRequest(r, i)
                               \/ \E what \in Says : Say(r, what)
                               \/ Said(r)
                               \/ Finish(r)
        \/ \E i \in Ids : ReadCancel(i)
        \/ ReadMalformed \/ ReaderStep \/ WriterStep
        \/ ClientStalls \/ ClientGone \/ ClientEof \/ Shutdown

Spec == Init /\ [][Next]_vars

\* tokio keeps polling tasks that can proceed, and its semaphore hands out room
\* in the queue in order, so that a task that waits is not overtaken for ever
\* (the read loop is assumed less of: only so much can overtake it here).
RequestFair(r) == SF_vars(Owed(r))
WriterFair == WF_vars(WriterStep)
ReaderFair == WF_vars(ReaderStep)
Fairness == (\A r \in Requests : RequestFair(r)) /\ WriterFair /\ ReaderFair

FairSpec == Spec /\ Fairness

-----------------------------------------------------------------------------
(* Properties.                                                             *)

Live(r) == task[r] \in {"running", "sending", "returned"}

\* The table of requests in flight is what cancels need, also when a request_id is
\* used twice: while its id is its own, a request can be cancelled until its task
\* is gone, for neither another request's end nor a cancel takes its entry away;
CancelFindsRequest ==
  \A r \in Requests :
    Live(r) /\ (\A q \in Requests \ {r} : id[q] # id[r]) => inFlight[id[r]] = r

\* and in_flight does not leak.
EntriesAreLive ==
  \A i \in Ids : inFlight[i] # NoRequest => id[inFlight[i]] = i /\ Live(inFlight[i])

InFlightIsExact == CancelFindsRequest /\ EntriesAreLive

\* A cancel reaches no request but those in flight under its id when it was
\* read, whatever has finished and started under other ids in between.
OnlyAskedAreCancelled ==
  /\ fired \subseteq asked
  /\ \A r \in Requests : \A i \in DOMAIN delivered[r] :
       delivered[r][i] = "cancelled" => r \in asked \/ shutdown

\* Unless a write failed, no reply is lost: the terminal message of a request
\* that returned is queued or delivered, also after the client closed its
\* sending side or the server began to shut down.
RepliesAreKept ==
  writer # "failed" => \A r \in Requests : task[r] \in {"returned", "gone"} =>
    \/ \E i \in DOMAIN outq : outq[i] = [of |-> r, says |-> saying[r]]
    \/ /\ delivered[r] # <<>>
       /\ delivered[r][Len(delivered[r])] = saying[r]

\* What reaches the client of a request is what ChatTurns promises: parts, one
\* terminal message and silence, through a queue that other requests and the
\* read loop write to and that may be lost with its writer, and "cancelled" only
\* for a request whose own token has fired, or the server's.
Reached(r) == delivered[r] # <<>> /\ delivered[r][Len(delivered[r])] # "part"
Phase == [r \in Requests |-> IF task[r] = "none" THEN "idle"
                            ELSE IF Reached(r) THEN "ended" ELSE "active"]
Fired == {r \in Requests : task[r] # "none" /\ (r \in fired \/ shutdown)}
ReplyKind(what) == CASE what = "part" -> "draft"
                     [] what = "final" -> "complete"
                     [] what = "cancelled" -> "cancelled"
Replies == [r \in Requests |-> [i \in 1..Len(delivered[r]) |-> ReplyKind(delivered[r][i])]]

CT == INSTANCE ChatTurns WITH Turns <- Requests, phase <- Phase, cancelled <- Fired,
                              replies <- Replies
ClientSeesTurns == CT!Spec

\* Nobody needs another's help to go on, but a sender the writer's for room in
\* the queue, and the writer the client's.
NobodyIsStuck ==
  /\ \A r \in Requests :
       /\ task[r] = "running" /\ IsCancelled(r) => ENABLED <<Owed(r)>>_vars
       /\ task[r] = "sending" /\ CanSend => ENABLED <<Owed(r)>>_vars
       /\ task[r] = "returned" => ENABLED <<Owed(r)>>_vars
  /\ ~CanSend /\ client # "stalls" => ENABLED <<WriterStep>>_vars

\* A cancelled request ends, a shutdown ends the connection: a handler stuck in
\* conn.send behind a full queue, or a read loop stuck answering a malformed
\* line, comes free as long as the client does not stop reading for good.
CancelEndsRequest ==
  <>[](client # "stalls") => \A r \in Requests : (r \in fired) ~> (task[r] = "gone")
ShutdownEndsConnection ==
  <>[](client # "stalls") => (shutdown ~> Ended)

\* A client that dies frees every sender blocked on its queue ("one dead client
\* must not affect the daemon").
DeadClientBlocksNobody ==
  \A r \in Requests : (client = "gone" /\ task[r] = "sending") ~> (task[r] # "sending")
=============================================================================
