------------------------------ MODULE Requests ------------------------------
(***************************************************************************)
(* The requests of the socket that are not chats: sessions, history and    *)
(* the model picker (`handle`, src/src/daemon.rs), over the REST clients   *)
(* of Hermes (src/src/hermes/client.rs) and of the model router            *)
(* (src/src/ollama.rs).                                                    *)
(*                                                                         *)
(* A connection spawns a task for every request it reads, see              *)
(* IpcConnection, so requests of one client overlap as those of several    *)
(* do.  Both servers change under a request.  A cancel finds nothing that  *)
(* listens here.  `status` is in StatusFeed, `chat` in Bridge.             *)
(*                                                                         *)
(* A definition X_Y stands before the definition X it is a mutation of.    *)
(***************************************************************************)
EXTENDS Naturals, Sequences

CONSTANTS
  RequestIds,
  Sessions,       \* session ids of Hermes
  Catalog,        \* the models of /v1/models
  Foreign,        \* other names /api/ps can report
  Rows,           \* [role, content]: rows of a session's history
  NoModel,
  RouterConfigured,      \* is there a router token?
  MaxRows, MaxEvents     \* bounds: rows of a history, changes in the servers

ASSUME RouterAssumption == RouterConfigured \in BOOLEAN
ASSUME ModelsAssumption == NoModel \notin Catalog
ASSUME BoundsAssumption == MaxRows \in Nat /\ MaxEvents \in Nat

VARIABLES
  selected,   \* selected_model
  store,      \* Hermes: the source of each session it holds, and its history
  loaded,     \* the models the router has in memory
  pc, ask,    \* each request: where its task is, and what it asks
  probed,     \* the loaded set its task has got from /api/ps
  reply,      \* what its client got
  events

\* What was true at some time since the request was read, and which of its
\* calls have failed, kept to state properties.
VARIABLES seen, failures

upstream == <<store, loaded, events>>
vars == <<selected, upstream, pc, ask, probed, reply, seen, failures>>

\* A session is absent, or comes from some platform.
Sources == {"absent", "desktop", "telegram"}

Ask == [kind : {"session_create", "session_list", "model_list"}]
       \cup [kind : {"session_resume", "session_messages"}, session : Sessions]
       \cup [kind : {"set_model"}, model : Catalog]
NoAsk == [kind |-> "none"]

Reply == [type : {"none", "error"}]
         \cup [type : {"session_created"}, model : Catalog \cup {NoModel}]
         \cup [type : {"sessions"}, data : SUBSET Sessions]
         \cup [type : {"messages"}, data : Seq(Rows)]
         \cup [type : {"models"}, loaded : SUBSET Catalog, active : SUBSET Catalog]

TypeOK ==
  /\ selected \in Catalog \cup {NoModel}
  /\ store \in [Sessions -> [source : Sources, rows : Seq(Rows)]]
  /\ loaded \subseteq Catalog \cup Foreign
  /\ pc \in [RequestIds -> {"unsent", "spawned", "hermes", "catalog", "loaded", "marking", "done"}]
  /\ ask \in [RequestIds -> Ask \cup {NoAsk}] /\ reply \in [RequestIds -> Reply]
  /\ probed \in [RequestIds -> SUBSET (Catalog \cup Foreign)]
  /\ events \in 0..MaxEvents
  /\ failures \in [RequestIds -> SUBSET {"first", "second"}]

Init ==
  /\ selected = NoModel
  /\ store \in [Sessions -> [source : Sources, rows : {<<>>}]]
  /\ loaded = {}
  /\ pc = [r \in RequestIds |-> "unsent"] /\ ask = [r \in RequestIds |-> NoAsk]
  /\ probed = [r \in RequestIds |-> {}]
  /\ reply = [r \in RequestIds |-> [type |-> "none"]]
  /\ events = 0
  /\ seen = [r \in RequestIds |-> {}] /\ failures = [r \in RequestIds |-> {}]

\* What a request in progress could be told of grows with every step.  It looks
\* at the sessions, or at the models.
Snapshot(a) ==
  IF a.kind \in {"session_list", "session_resume", "session_messages"}
    THEN [store |-> store]
    ELSE [selected |-> selected, loaded |-> IF a.kind = "model_list" THEN loaded ELSE {}]

InProgress == {r \in RequestIds : pc[r] \notin {"unsent", "done"}}
Observe == seen' = [r \in RequestIds |->
                      IF r \in InProgress' THEN seen[r] \cup {Snapshot(ask[r])'} ELSE seen[r]]

-----------------------------------------------------------------------------
(* Hermes and the router (external).                                       *)

Change == events < MaxEvents /\ events' = events + 1
          /\ UNCHANGED <<selected, pc, ask, probed, reply, failures>> /\ Observe

SessionStarts(s) ==
  /\ store[s].source = "absent"
  /\ \E source \in Sources \ {"absent"} : store' = [store EXCEPT ![s].source = source]
  /\ UNCHANGED loaded /\ Change

SessionReset(s) ==
  /\ store[s].source # "absent"
  /\ store' = [store EXCEPT ![s] = [source |-> "absent", rows |-> <<>>]]
  /\ UNCHANGED loaded /\ Change

RowAdded(s) ==
  /\ store[s].source # "absent" /\ Len(store[s].rows) < MaxRows
  /\ \E row \in Rows : store' = [store EXCEPT ![s].rows = Append(@, row)]
  /\ UNCHANGED loaded /\ Change

LoadedChanges ==
  /\ loaded' \in (SUBSET (Catalog \cup Foreign)) \ {loaded}
  /\ UNCHANGED store /\ Change

-----------------------------------------------------------------------------
(* handle.                                                                 *)

\* A client sends a request (external), and its connection spawns a task.
Send(r) ==
  /\ pc[r] = "unsent"
  /\ \E a \in Ask : ask' = [ask EXCEPT ![r] = a]
  /\ pc' = [pc EXCEPT ![r] = "spawned"]
  /\ UNCHANGED <<selected, upstream, probed, reply, failures>> /\ Observe

Spawned(r, kinds) == pc[r] = "spawned" /\ ask[r].kind \in kinds

Goto(r, place) ==
  /\ pc' = [pc EXCEPT ![r] = place]
  /\ UNCHANGED <<upstream, ask>> /\ Observe

Answer(r, message) == Goto(r, "done") /\ reply' = [reply EXCEPT ![r] = message]
SendError(r) == Answer(r, [type |-> "error"])

\* A fresh chat id, tagged with the model; no call to Hermes.
CreateSession(r) ==
  /\ Spawned(r, {"session_create"})
  /\ UNCHANGED <<selected, probed, failures>>
  /\ Answer(r, [type |-> "session_created", model |-> selected])

\* set_model has no reply.
SetModel(r) ==
  /\ Spawned(r, {"set_model"})
  /\ selected' = ask[r].model
  /\ Goto(r, "done")
  /\ UNCHANGED <<probed, reply, failures>>

CallHermes(r) ==
  /\ Spawned(r, {"session_list", "session_resume", "session_messages"})
  /\ UNCHANGED <<selected, probed, reply, failures>>
  /\ Goto(r, "hermes")

CallRouter(r) ==
  /\ Spawned(r, {"model_list"})
  /\ UNCHANGED <<selected, probed, failures>>
  /\ IF RouterConfigured THEN Goto(r, "catalog") /\ UNCHANGED reply
                         ELSE SendError(r)

-----------------------------------------------------------------------------
(* HermesClient and OllamaRouterClient.                                    *)

\* list_sessions, filtered by the platform or by the id.
Known == {s \in Sessions : store[s].source # "absent"}

Listed_Unfiltered(a) ==
  IF a.kind = "session_list" THEN Known ELSE Known \cap {a.session}
Listed(a) ==
  IF a.kind = "session_list" THEN {s \in Known : store[s].source = "desktop"}
                             ELSE Known \cap {a.session}

\* The rows get_messages keeps: what the user and the assistant said in words.
Said(row) == row.role \in {"user", "assistant"} /\ row.content = "words"

\* The dialogue in the first i rows, for each i.
Dialogue(rows) ==
  LET kept[i \in 0..Len(rows)] ==
        IF i = 0 THEN <<>>
        ELSE IF Said(rows[i]) THEN Append(kept[i - 1], rows[i]) ELSE kept[i - 1]
  IN kept
Kept(rows) == Dialogue(rows)[Len(rows)]

HermesAnswers(r) ==
  /\ pc[r] = "hermes"
  /\ UNCHANGED <<selected, probed, failures>>
  /\ IF ask[r].kind # "session_messages"
       THEN Answer(r, [type |-> "sessions", data |-> Listed(ask[r])])
       ELSE IF ask[r].session \in Known
              THEN Answer(r, [type |-> "messages",
                              data |-> Kept(store[ask[r].session].rows)])
              ELSE SendError(r)

CatalogAnswers(r) ==
  /\ pc[r] = "catalog"
  /\ UNCHANGED <<selected, probed, reply, failures>>
  /\ Goto(r, "loaded")

LoadedAnswers(r) ==
  /\ pc[r] = "loaded"
  /\ UNCHANGED <<selected, reply, failures>>
  /\ probed' = [probed EXCEPT ![r] = loaded]
  /\ Goto(r, "marking")

\* The answers are in: the selected model is read, and the reply goes out.
MarkActive(r) ==
  /\ pc[r] = "marking"
  /\ UNCHANGED <<selected, probed, failures>>
  /\ Answer(r, [type |-> "models", loaded |-> probed[r] \cap Catalog,
                active |-> Catalog \cap {selected}])

\* A call fails: the first of a request fails it, the loaded probe does not.
CallFails_Strict(r) ==
  /\ pc[r] \in {"hermes", "catalog", "loaded"}
  /\ failures' = [failures EXCEPT ![r] = @ \cup {IF pc[r] = "loaded" THEN "second" ELSE "first"}]
  /\ UNCHANGED <<selected, probed>>
  /\ SendError(r)
CallFails(r) ==
  \/ /\ pc[r] \in {"hermes", "catalog"}
     /\ failures' = [failures EXCEPT ![r] = @ \cup {"first"}]
     /\ UNCHANGED <<selected, probed>>
     /\ SendError(r)
  \/ /\ pc[r] = "loaded"
     /\ failures' = [failures EXCEPT ![r] = @ \cup {"second"}]
     /\ UNCHANGED <<selected, probed, reply>>
     /\ Goto(r, "marking")

\* It is refused, breaks off, or answers what does not parse (external) ...
Refused(r) == CallFails(r)

\* ... or the timeout of the call ends it.
TimesOut_Never(r) == FALSE /\ UNCHANGED vars
TimesOut_NotForProbe(r) == pc[r] # "loaded" /\ CallFails(r)
TimesOut(r) == CallFails(r)

-----------------------------------------------------------------------------
HandlerStep(r) == \/ CreateSession(r) \/ SetModel(r) \/ CallHermes(r) \/ CallRouter(r)
                  \/ MarkActive(r)
ServerStep(r) == HermesAnswers(r) \/ CatalogAnswers(r) \/ LoadedAnswers(r) \/ Refused(r)

Next ==
  \/ \E r \in RequestIds : Send(r) \/ HandlerStep(r) \/ ServerStep(r) \/ TimesOut(r)
  \/ \E s \in Sessions : SessionStarts(s) \/ SessionReset(s) \/ RowAdded(s)
  \/ LoadedChanges

Spec == Init /\ [][Next]_vars

\* Tasks run and timers expire; no server has to answer.
Fair(r) == WF_vars(HandlerStep(r)) /\ WF_vars(TimesOut(r))
Fairness == \A r \in RequestIds : Fair(r)

FairSpec == Spec /\ Fairness
-----------------------------------------------------------------------------
(* Properties.                                                             *)

\* A history shows the rows at some places, in their order.
Places(rows) == {i \in DOMAIN rows : Said(rows[i])}
Shows(history, rows) ==
  \E place \in [DOMAIN history -> Places(rows)] :
    /\ \A i \in DOMAIN history : history[i] = rows[place[i]]
    /\ \A i, j \in DOMAIN history : i < j => place[i] < place[j]
    /\ \A k \in Places(rows) : \E i \in DOMAIN history : place[i] = k

AnswerIsCurrent(r) ==
  LET got == reply[r]
      asked == ask[r]
      Desktop(now) == \A s \in Sessions : s \in got.data <=> now.store[s].source = "desktop"
      TheOne(now) == \A s \in Sessions :
                       s \in got.data <=> s = asked.session /\ now.store[s].source # "absent"
      Loaded(now) == \A m \in Catalog : m \in got.loaded <=> m \in now.loaded
      Active(now) == \A m \in Catalog : m \in got.active <=> m = now.selected
  IN /\ asked.kind = "session_list" /\ got.type = "sessions" => \E now \in seen[r] : Desktop(now)
     /\ asked.kind = "session_resume" /\ got.type = "sessions" => \E now \in seen[r] : TheOne(now)
     /\ got.type = "messages" =>
          \E now \in seen[r] : Shows(got.data, now.store[asked.session].rows)
     /\ got.type = "session_created" => \E now \in seen[r] : got.model = now.selected
     /\ got.type = "models" =>
          /\ \E now \in seen[r] : Active(now)
          /\ \/ \E now \in seen[r] : Loaded(now)
             \/ "second" \in failures[r] /\ got.loaded = {}

\* Every part of an answer was true at some time between the reading of the
\* request and its reply, however the servers, set_model and the other requests
\* interleave with its calls.  The switcher lists the sessions of the desktop
\* alone, a resume the session asked for, a history every line of the dialogue
\* and nothing else; models are marked loaded as the router says, or not at all
\* when it does not say; at most the selected one is marked active.
AnswersAreCurrent == \A r \in RequestIds : AnswerIsCurrent(r)

ErrorHasCause(r) ==
  \/ "first" \in failures[r]
  \/ /\ ask[r].kind = "session_messages"
     /\ \E now \in seen[r] : now.store[ask[r].session].source = "absent"
  \/ ask[r].kind = "model_list" /\ ~RouterConfigured

\* A client is told of an error only when the call it needed has failed, the
\* session is gone or there is no router: never for the loaded probe.
ErrorsHaveCause == \A r \in RequestIds : reply[r].type = "error" => ErrorHasCause(r)

\* Wherever a request is, the daemon can take it further by itself: a task with
\* nothing to await runs on, and every call to a server has a timeout.
NobodyIsStuck ==
  \A r \in RequestIds :
    /\ pc[r] \in {"spawned", "marking"} => ENABLED <<HandlerStep(r)>>_vars
    /\ pc[r] \in {"hermes", "catalog", "loaded"} => ENABLED <<TimesOut(r)>>_vars

\* Every request that has a reply gets it, also when a server hangs.
EveryRequestEnds ==
  \A r \in RequestIds :
    pc[r] = "spawned" ~> pc[r] = "done" /\ (ask[r].kind # "set_model" => reply[r].type # "none")

\* A resume returns the session or an error.  (Said by the comment of
\* SessionResume; for a session that has been reset the list is empty.)
ResumeIsOneOrError ==
  \A r \in RequestIds :
    ask[r].kind = "session_resume" /\ pc[r] = "done"
      => reply[r].type = "error" \/ reply[r] = [type |-> "sessions", data |-> {ask[r].session}]
=============================================================================
