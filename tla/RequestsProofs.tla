--------------------------- MODULE RequestsProofs ---------------------------
(***************************************************************************)
(* Theorems about Requests: types, that answers were true while they were  *)
(* asked for, that errors have a cause, and, up to what a state ENABLEs,   *)
(* that every request ends, for any requests, sessions, models and         *)
(* histories.                                                              *)
(*                                                                         *)
(* What the filter of get_messages returns is shown by induction on the    *)
(* length of a history, for which Induction is derived from the fact that  *)
(* < is well founded on Nat (the library's induction theorems, which take  *)
(* an operator, cannot be used).                                           *)
(***************************************************************************)
EXTENDS Requests, WellFoundedInduction, TLAPS

\* Induction over the natural numbers, for a set: its complement has no least
\* element.
LEMMA Induction ==
  ASSUME NEW S, 0 \in S, \A n \in Nat : n \in S => n + 1 \in S
  PROVE  Nat \subseteq S
<1>. DEFINE R == OpToRel(<, Nat)
            T == Nat \ S
<1>1. SUFFICES ASSUME T # {} PROVE FALSE
  OBVIOUS
<1>2. PICK n \in T : \A m \in T : ~(<<m, n>> \in R)
  <2>1. IsWellFoundedOn(R, Nat) /\ T \subseteq Nat
    BY NatLessThanWellFounded
  <2>. HIDE DEF R, T
  <2>. QED
    BY <1>1, <2>1, WFMin
<1>3. \A m \in T : ~(m < n)
  BY <1>2 DEF OpToRel
<1>4. n # 0 /\ n - 1 \in Nat /\ n - 1 < n
  OBVIOUS
<1>. QED
  BY <1>3, <1>4

-----------------------------------------------------------------------------
(* The filter of get_messages.                                             *)

\* g says for each i <= n what the filter keeps of the first i rows.
Step(rows, i, kept) == IF Said(rows[i]) THEN Append(kept, rows[i]) ELSE kept
Keeps(g, rows, n) == g = [i \in 0..n |-> IF i = 0 THEN <<>> ELSE Step(rows, i, g[i - 1])]

\* There is such a function, so Dialogue is it.
LEMMA DialogueKeeps ==
  ASSUME NEW rows \in Seq(Rows)
  PROVE  Keeps(Dialogue(rows), rows, Len(rows))
<1>. DEFINE S == {n \in Nat : \E g : Keeps(g, rows, n)}
<1>1. 0 \in S
  <2>1. Keeps([i \in 0..0 |-> <<>>], rows, 0)
    BY DEF Keeps
  <2>. QED
    BY <2>1
<1>2. ASSUME NEW n \in Nat, n \in S
      PROVE  n + 1 \in S
  <2>1. PICK g : Keeps(g, rows, n)
    BY <1>2
  <2>. DEFINE h == [i \in 0..(n + 1) |-> IF i = n + 1 THEN Step(rows, n + 1, g[n]) ELSE g[i]]
  <2>2. \A i \in 0..n : h[i] = g[i]
    OBVIOUS
  <2>3. \A i \in 0..n : g[i] = IF i = 0 THEN <<>> ELSE Step(rows, i, g[i - 1])
    BY <2>1 DEF Keeps
  <2>4. \A i \in 0..(n + 1) : h[i] = IF i = 0 THEN <<>> ELSE Step(rows, i, h[i - 1])
    <3>1. TAKE i \in 0..(n + 1)
    <3>2. CASE i = n + 1
      <4>1. h[i] = Step(rows, i, g[n]) /\ h[i - 1] = g[n] /\ i # 0
        BY <3>2
      <4>. QED
        BY <4>1
    <3>3. CASE i \in 1..n
      <4>1. i \in 0..n /\ i - 1 \in 0..n /\ i # 0
        BY <3>3
      <4>2. h[i] = g[i] /\ h[i - 1] = g[i - 1]
        BY <2>2, <4>1
      <4>. QED
        BY <2>3, <4>1, <4>2
    <3>4. CASE i = 0
      BY <2>2, <2>3, <3>4
    <3>. QED
      BY <3>2, <3>3, <3>4
  <2>5. h = [i \in 0..(n + 1) |-> h[i]]
    OBVIOUS
  <2>6. Keeps(h, rows, n + 1)
    <3>. HIDE DEF h
    <3>. QED
      BY <2>4, <2>5 DEF Keeps
  <2>. QED
    BY <2>6
<1>3. Len(rows) \in S
  <2>. HIDE DEF S
  <2>. QED
    BY <1>1, <1>2, Induction
<1>4. PICK g : Keeps(g, rows, Len(rows))
  BY <1>3
<1>. QED
  BY <1>4 DEF Dialogue, Keeps, Step

\* history shows the dialogue in the first n rows.
SaidIn(rows, n) == {i \in 1..n : Said(rows[i])}
Fits(place, history, rows, n) ==
  /\ place \in [1..Len(history) -> SaidIn(rows, n)]
  /\ \A i \in 1..Len(history) : history[i] = rows[place[i]]
  /\ \A i, j \in 1..Len(history) : i < j => place[i] < place[j]
  /\ \A k \in SaidIn(rows, n) : \E i \in 1..Len(history) : place[i] = k
ShowsFirst(history, rows, n) ==
  history \in Seq(Rows) /\ \E place : Fits(place, history, rows, n)

LEMMA EmptyShows == ASSUME NEW rows PROVE ShowsFirst(<<>>, rows, 0)
<1>1. <<>> \in Seq(Rows) /\ 1..Len(<<>>) = {} /\ SaidIn(rows, 0) = {}
  BY DEF SaidIn
<1>2. Fits([i \in {} |-> 0], <<>>, rows, 0)
  BY <1>1 DEF Fits
<1>. QED
  BY <1>1, <1>2 DEF ShowsFirst

\* One row more.
LEMMA StepShows ==
  ASSUME NEW rows \in Seq(Rows), NEW n \in Nat, n < Len(rows),
         NEW history, ShowsFirst(history, rows, n)
  PROVE  ShowsFirst(Step(rows, n + 1, history), rows, n + 1)
<1>. DEFINE len == Len(history)
<1>1. PICK place : Fits(place, history, rows, n)
  BY DEF ShowsFirst
<1>2. history \in Seq(Rows) /\ len \in Nat /\ n + 1 \in 1..Len(rows) /\ rows[n + 1] \in Rows
  BY DEF ShowsFirst
<1>3. CASE ~Said(rows[n + 1])
  <2>1. SaidIn(rows, n + 1) = SaidIn(rows, n)
    BY <1>3 DEF SaidIn
  <2>2. Fits(place, history, rows, n + 1)
    BY <1>1, <2>1 DEF Fits
  <2>. QED
    BY <1>2, <1>3, <2>2 DEF ShowsFirst, Step
<1>4. CASE Said(rows[n + 1])
  <2>. DEFINE longer == Append(history, rows[n + 1])
              there == [i \in 1..(len + 1) |-> IF i = len + 1 THEN n + 1 ELSE place[i]]
  <2>1. /\ longer \in Seq(Rows) /\ Len(longer) = len + 1
        /\ \A i \in 1..len : longer[i] = history[i]
        /\ longer[len + 1] = rows[n + 1]
    BY <1>2
  <2>2. SaidIn(rows, n + 1) = SaidIn(rows, n) \cup {n + 1}
    BY <1>4 DEF SaidIn
  <2>3. /\ there[len + 1] = n + 1
        /\ \A i \in 1..len : there[i] = place[i] /\ place[i] \in SaidIn(rows, n) /\ place[i] < n + 1
    BY <1>1, <1>2 DEF Fits, SaidIn
  <2>4. \A i \in 1..(len + 1) : i \in 1..len \/ i = len + 1
    BY <1>2
  <2>5. there \in [1..(len + 1) -> SaidIn(rows, n + 1)]
    <3>1. \A i \in 1..(len + 1) : there[i] \in SaidIn(rows, n + 1)
      <4>. HIDE DEF there, len
      <4>. QED
        BY <2>2, <2>3, <2>4
    <3>2. there = [i \in 1..(len + 1) |-> there[i]]
      OBVIOUS
    <3>. HIDE DEF there
    <3>. QED
      BY <3>1, <3>2
  <2>. HIDE DEF longer, there
  <2>6. \A i \in 1..(len + 1) : longer[i] = rows[there[i]]
    BY <1>1, <2>1, <2>3, <2>4 DEF Fits
  <2>7. ASSUME NEW i \in 1..(len + 1), NEW j \in 1..(len + 1), i < j
        PROVE  there[i] < there[j]
    <3>1. i \in 1..len
      BY <1>2, <2>7
    <3>2. CASE j \in 1..len
      BY <1>1, <2>3, <2>7, <3>1, <3>2 DEF Fits
    <3>3. CASE j = len + 1
      BY <2>3, <3>1, <3>3
    <3>. QED
      BY <2>4, <3>2, <3>3
  <2>8. ASSUME NEW k \in SaidIn(rows, n + 1)
        PROVE  \E i \in 1..(len + 1) : there[i] = k
    <3>1. CASE k \in SaidIn(rows, n)
      <4>1. PICK i \in 1..len : place[i] = k
        BY <1>1, <3>1 DEF Fits
      <4>. QED
        BY <1>2, <2>3, <4>1
    <3>2. CASE k = n + 1
      BY <1>2, <2>3, <3>2
    <3>. QED
      BY <2>2, <3>1, <3>2
  <2>9. Fits(there, longer, rows, n + 1)
    BY <2>1, <2>5, <2>6, <2>7, <2>8 DEF Fits
  <2>. QED
    BY <1>4, <2>1, <2>9 DEF ShowsFirst, Step, longer
<1>. QED
  BY <1>3, <1>4

\* What get_messages keeps of a history shows all of its dialogue, in order.
THEOREM KeptShows ==
  ASSUME NEW rows \in Seq(Rows)
  PROVE  Kept(rows) \in Seq(Rows) /\ Shows(Kept(rows), rows)
<1>. DEFINE kept == Dialogue(rows)
            S == {n \in Nat : n <= Len(rows) => ShowsFirst(kept[n], rows, n)}
<1>1. \A i \in 0..Len(rows) :
        kept[i] = IF i = 0 THEN <<>> ELSE Step(rows, i, kept[i - 1])
  BY DialogueKeeps DEF Keeps
<1>. HIDE DEF kept
<1>2. 0 \in S
  <2>1. kept[0] = <<>>
    BY <1>1
  <2>. QED
    BY <2>1, EmptyShows
<1>3. ASSUME NEW n \in Nat, n \in S
      PROVE  n + 1 \in S
  <2>1. CASE n + 1 <= Len(rows)
    <3>1. ShowsFirst(kept[n], rows, n) /\ n < Len(rows)
      BY <1>3, <2>1
    <3>2. kept[n + 1] = Step(rows, n + 1, kept[n])
      BY <1>1, <2>1
    <3>. QED
      BY <3>1, <3>2, StepShows
  <2>. QED
    BY <2>1
<1>4. Len(rows) \in S
  <2>. HIDE DEF S
  <2>. QED
    BY <1>2, <1>3, Induction
<1>5. ShowsFirst(Kept(rows), rows, Len(rows))
  BY <1>4 DEF Kept, kept
<1>6. PICK place : Fits(place, Kept(rows), rows, Len(rows))
  BY <1>5 DEF ShowsFirst
<1>7. Kept(rows) \in Seq(Rows) /\ DOMAIN Kept(rows) = 1..Len(Kept(rows))
  BY <1>5 DEF ShowsFirst
<1>8. Places(rows) = SaidIn(rows, Len(rows))
  BY DEF Places, SaidIn
<1>9. /\ place \in [DOMAIN Kept(rows) -> Places(rows)]
      /\ \A i \in DOMAIN Kept(rows) : Kept(rows)[i] = rows[place[i]]
      /\ \A i, j \in DOMAIN Kept(rows) : i < j => place[i] < place[j]
      /\ \A k \in Places(rows) : \E i \in DOMAIN Kept(rows) : place[i] = k
  <2>. USE <1>7, <1>8
  <2>1. place \in [DOMAIN Kept(rows) -> Places(rows)]
    BY <1>6 DEF Fits
  <2>2. \A i \in DOMAIN Kept(rows) : Kept(rows)[i] = rows[place[i]]
    BY <1>6 DEF Fits
  <2>3. \A i, j \in DOMAIN Kept(rows) : i < j => place[i] < place[j]
    BY <1>6 DEF Fits
  <2>4. \A k \in Places(rows) : \E i \in DOMAIN Kept(rows) : place[i] = k
    BY <1>6, Zenon DEF Fits
  <2>. QED
    BY <2>1, <2>2, <2>3, <2>4
<1>10. Shows(Kept(rows), rows)
  BY <1>9, Zenon DEF Shows
<1>. QED
  BY <1>7, <1>10

-----------------------------------------------------------------------------
(* The inductive invariant: what each request holds at each place.         *)

Busy(q) == pc[q] \notin {"unsent", "done"}
HermesKinds == {"session_list", "session_resume", "session_messages"}

\* What a request in progress sees now is among what it has seen.
Witnessed(q) == Busy(q) => Snapshot(ask[q]) \in seen[q]

\* A request is at a server it calls for its kind.
KindsFit(q) ==
  /\ pc[q] = "hermes" => ask[q].kind \in HermesKinds
  /\ pc[q] \in {"catalog", "loaded", "marking"} => ask[q].kind = "model_list"

Unanswered(q) == pc[q] # "done" => reply[q].type = "none"

\* The loaded set a task marks with is one the router had, or the empty one
\* of a failed probe.
ProbedIsKnown(q) ==
  /\ pc[q] \in {"unsent", "spawned", "hermes", "catalog", "loaded"} => probed[q] = {}
  /\ pc[q] = "marking" => \/ \E now \in seen[q] : now.loaded = probed[q]
                          \/ "second" \in failures[q] /\ probed[q] = {}

ErrorOK(q) == reply[q].type = "error" => ErrorHasCause(q)

\* A request that is over has its reply; set_model has none.
Told(q) == pc[q] = "done" /\ ask[q].kind # "set_model" => reply[q].type # "none"

Held(q) == Witnessed(q) /\ KindsFit(q) /\ Unanswered(q) /\ ProbedIsKnown(q) /\ Told(q)
           /\ AnswerIsCurrent(q) /\ ErrorOK(q)

Types == TypeOK /\ DOMAIN seen = RequestIds
Inv == Types /\ \A q \in RequestIds : Held(q)

\* A step that leaves a request alone: others moved, or a server changed.
Quiet(q) ==
  /\ pc'[q] = pc[q] /\ ask'[q] = ask[q] /\ probed'[q] = probed[q]
  /\ reply'[q] = reply[q] /\ failures'[q] = failures[q]

\* What Observe adds.
Grows ==
  /\ DOMAIN seen' = RequestIds
  /\ \A q \in RequestIds : seen[q] \subseteq seen'[q] /\ Witnessed(q)'

LEMMA ObserveGrows == Types /\ Observe => Grows
BY DEF Types, Observe, InProgress, Grows, Witnessed, Busy

LEMMA QuietHolds ==
  ASSUME NEW q \in RequestIds, Held(q), Quiet(q), Grows
  PROVE  Held(q)'
<1>1. seen[q] \subseteq seen'[q] /\ Witnessed(q)'
  BY DEF Grows
<1>2. KindsFit(q)' /\ Unanswered(q)' /\ ProbedIsKnown(q)' /\ Told(q)'
  BY <1>1 DEF Held, Quiet, KindsFit, Unanswered, ProbedIsKnown, Told
<1>3. AnswerIsCurrent(q)'
  BY <1>1 DEF Held, Quiet, AnswerIsCurrent
<1>4. ErrorOK(q)'
  BY <1>1 DEF Held, Quiet, ErrorOK, ErrorHasCause
<1>. QED
  BY <1>1, <1>2, <1>3, <1>4 DEF Held

-----------------------------------------------------------------------------
(* Types.                                                                  *)

PcValues == {"unsent", "spawned", "hermes", "catalog", "loaded", "marking", "done"}

LEMMA GotoTypes ==
  ASSUME TypeOK, NEW r \in RequestIds, NEW place \in PcValues, Goto(r, place)
  PROVE  /\ store' = store /\ loaded' = loaded /\ events' = events /\ ask' = ask
         /\ pc' \in [RequestIds -> PcValues] /\ Observe
         /\ pc'[r] = place /\ \A q \in RequestIds \ {r} : pc'[q] = pc[q]
BY DEF TypeOK, Goto, PcValues, upstream

LEMMA AnswerTypes ==
  ASSUME TypeOK, NEW r \in RequestIds, NEW message \in Reply, Answer(r, message),
         selected' \in Catalog \cup {NoModel}, probed' = probed,
         failures' \in [RequestIds -> SUBSET {"first", "second"}]
  PROVE  TypeOK'
<1>1. Goto(r, "done") /\ "done" \in PcValues
  BY DEF Answer, PcValues
<1>2. reply' \in [RequestIds -> Reply]
  BY DEF Answer, TypeOK
<1>. QED
  BY <1>1, <1>2, GotoTypes DEF TypeOK, PcValues

LEMMA ErrorInReply == [type |-> "error"] \in Reply
BY DEF Reply

LEMMA ChangeCounts == TypeOK /\ Change => events' \in 0..MaxEvents
BY BoundsAssumption DEF Change, TypeOK

LEMMA TypesStep ==
  ASSUME TypeOK, [Next]_vars
  PROVE  TypeOK'
<1>. DEFINE FailureSets == SUBSET {"first", "second"}
<1>1. ASSUME NEW r \in RequestIds, Send(r) PROVE TypeOK'
  BY <1>1 DEF Send, TypeOK, upstream
<1>2. ASSUME NEW r \in RequestIds, CreateSession(r) PROVE TypeOK'
  <2>1. [type |-> "session_created", model |-> selected] \in Reply
    BY DEF TypeOK, Reply
  <2>. QED
    BY <1>2, <2>1, AnswerTypes DEF CreateSession, TypeOK
<1>3. ASSUME NEW r \in RequestIds, SetModel(r) PROVE TypeOK'
  <2>1. ask[r].model \in Catalog
    BY <1>3 DEF SetModel, Spawned, TypeOK, Ask, NoAsk
  <2>. QED
    BY <1>3, <2>1, GotoTypes DEF SetModel, TypeOK, PcValues
<1>4. ASSUME NEW r \in RequestIds, CallHermes(r) PROVE TypeOK'
  BY <1>4, GotoTypes DEF CallHermes, TypeOK, PcValues
<1>5. ASSUME NEW r \in RequestIds, CallRouter(r) PROVE TypeOK'
  <2>1. CASE RouterConfigured
    BY <1>5, <2>1, GotoTypes DEF CallRouter, TypeOK, PcValues
  <2>2. CASE ~RouterConfigured
    BY <1>5, <2>2, AnswerTypes, ErrorInReply DEF CallRouter, SendError, TypeOK
  <2>. QED
    BY <2>1, <2>2
<1>6. ASSUME NEW r \in RequestIds, MarkActive(r) PROVE TypeOK'
  <2>1. [type |-> "models", loaded |-> probed[r] \cap Catalog,
         active |-> Catalog \cap {selected}] \in Reply
    BY DEF Reply
  <2>. QED
    BY <1>6, <2>1, AnswerTypes DEF MarkActive, TypeOK
<1>7. ASSUME NEW r \in RequestIds, HermesAnswers(r) PROVE TypeOK'
  <2>1. CASE ask[r].kind # "session_messages"
    <3>1. [type |-> "sessions", data |-> Listed(ask[r])] \in Reply
      BY DEF Reply, Listed, Known
    <3>. QED
      BY <1>7, <2>1, <3>1, AnswerTypes DEF HermesAnswers, TypeOK
  <2>2. CASE ask[r].kind = "session_messages" /\ ask[r].session \in Known
    <3>1. store[ask[r].session].rows \in Seq(Rows)
      BY <2>2 DEF Known, TypeOK
    <3>2. [type |-> "messages", data |-> Kept(store[ask[r].session].rows)] \in Reply
      BY <3>1, KeptShows DEF Reply
    <3>. QED
      BY <1>7, <2>2, <3>2, AnswerTypes DEF HermesAnswers, TypeOK
  <2>3. CASE ask[r].kind = "session_messages" /\ ask[r].session \notin Known
    BY <1>7, <2>3, AnswerTypes, ErrorInReply DEF HermesAnswers, SendError, TypeOK
  <2>. QED
    BY <2>1, <2>2, <2>3
<1>8. ASSUME NEW r \in RequestIds, CatalogAnswers(r) PROVE TypeOK'
  BY <1>8, GotoTypes DEF CatalogAnswers, TypeOK, PcValues
<1>9. ASSUME NEW r \in RequestIds, LoadedAnswers(r) PROVE TypeOK'
  BY <1>9, GotoTypes DEF LoadedAnswers, TypeOK, PcValues
<1>10. ASSUME NEW r \in RequestIds, CallFails(r) PROVE TypeOK'
  <2>1. failures' \in [RequestIds -> FailureSets]
    BY <1>10 DEF CallFails, TypeOK
  <2>2. CASE SendError(r) /\ UNCHANGED <<selected, probed>>
    BY <2>1, <2>2, AnswerTypes, ErrorInReply DEF SendError, TypeOK
  <2>3. CASE Goto(r, "marking") /\ UNCHANGED <<selected, probed, reply>>
    BY <2>1, <2>3, GotoTypes DEF TypeOK, PcValues
  <2>. QED
    BY <1>10, <2>2, <2>3 DEF CallFails
<1>11. ASSUME NEW s \in Sessions, SessionStarts(s) PROVE TypeOK'
  BY <1>11, ChangeCounts DEF SessionStarts, Change, TypeOK
<1>12. ASSUME NEW s \in Sessions, SessionReset(s) PROVE TypeOK'
  <2>1. [source |-> "absent", rows |-> <<>>] \in [source : Sources, rows : Seq(Rows)]
    BY DEF Sources
  <2>. QED
    BY <1>12, <2>1, ChangeCounts DEF SessionReset, Change, TypeOK
<1>13. ASSUME NEW s \in Sessions, RowAdded(s) PROVE TypeOK'
  <2>1. PICK row \in Rows : store' = [store EXCEPT ![s].rows = Append(@, row)]
    BY <1>13 DEF RowAdded
  <2>2. Append(store[s].rows, row) \in Seq(Rows)
    BY DEF TypeOK
  <2>. QED
    BY <1>13, <2>1, <2>2, ChangeCounts DEF RowAdded, Change, TypeOK
<1>14. ASSUME LoadedChanges PROVE TypeOK'
  BY <1>14, ChangeCounts DEF LoadedChanges, Change, TypeOK
<1>15. CASE UNCHANGED vars
  BY <1>15 DEF vars, upstream, TypeOK
<1>. QED
  BY <1>1, <1>2, <1>3, <1>4, <1>5, <1>6, <1>7, <1>8, <1>9, <1>10, <1>11, <1>12,
     <1>13, <1>14, <1>15
  DEF Next, HandlerStep, ServerStep, Refused, TimesOut

-----------------------------------------------------------------------------
(* One step of a request.                                                  *)

\* A step of r leaves the others alone; its own part is shown per action.
LEMMA OthersQuiet ==
  ASSUME NEW r \in RequestIds, NEW q \in RequestIds \ {r}, Types,
         Send(r) \/ HandlerStep(r) \/ ServerStep(r) \/ TimesOut(r)
  PROVE  Quiet(q) /\ Observe
<1>1. CASE Send(r)
  BY <1>1 DEF Send, Quiet, Types, TypeOK
<1>2. CASE HandlerStep(r)
  BY <1>2 DEF HandlerStep, CreateSession, SetModel, CallHermes, CallRouter, MarkActive,
              SendError, Answer, Goto, Quiet, Types, TypeOK
<1>3. CASE ServerStep(r) \/ TimesOut(r)
  BY <1>3 DEF ServerStep, HermesAnswers, CatalogAnswers, LoadedAnswers, Refused, TimesOut,
              CallFails, SendError, Answer, Goto, Quiet, Types, TypeOK
<1>. QED
  BY <1>1, <1>2, <1>3

\* An answered request is held to its answer only.
LEMMA AnswerHolds ==
  ASSUME NEW r \in RequestIds, Types, NEW message, message.type # "none", Answer(r, message)
  PROVE  /\ Grows /\ reply'[r] = message /\ ask'[r] = ask[r]
         /\ Witnessed(r)' /\ KindsFit(r)' /\ Unanswered(r)' /\ ProbedIsKnown(r)' /\ Told(r)'
<1>1. Grows /\ pc'[r] = "done" /\ reply'[r] = message /\ ask'[r] = ask[r]
  BY ObserveGrows DEF Answer, Goto, Types, TypeOK
<1>. QED
  BY <1>1 DEF Witnessed, Busy, KindsFit, Unanswered, ProbedIsKnown, Told

LEMMA ErrorHolds ==
  ASSUME NEW r \in RequestIds, Types, SendError(r), ErrorHasCause(r)'
  PROVE  Held(r)'
<1>1. Answer(r, [type |-> "error"])
  BY DEF SendError
<1>2. reply'[r].type = "error"
  BY <1>1, AnswerHolds
<1>3. AnswerIsCurrent(r)'
  BY <1>2 DEF AnswerIsCurrent
<1>4. ErrorOK(r)'
  BY DEF ErrorOK
<1>. QED
  BY <1>1, <1>3, <1>4, AnswerHolds DEF Held

\* A request that goes on has no answer yet.
LEMMA GoesOn ==
  ASSUME NEW r \in RequestIds, Types, Held(r), NEW place \in PcValues \ {"done"}, Goto(r, place),
         pc[r] # "done", reply' = reply, KindsFit(r)', ProbedIsKnown(r)'
  PROVE  Held(r)'
<1>1. Grows /\ pc'[r] # "done"
  BY ObserveGrows, GotoTypes DEF Goto, Types
<1>2. reply'[r].type = "none"
  BY DEF Held, Unanswered
<1>3. AnswerIsCurrent(r)' /\ ErrorOK(r)' /\ Unanswered(r)' /\ Told(r)'
  BY <1>1, <1>2 DEF AnswerIsCurrent, ErrorOK, Unanswered, Told
<1>. QED
  BY <1>1, <1>3 DEF Grows, Held

\* What the replies of HermesClient say was so when it answered.
LEMMA HermesHolds ==
  ASSUME NEW r \in RequestIds, Types, Held(r), HermesAnswers(r)
  PROVE  Held(r)'
<1>. DEFINE now == [store |-> store]
<1>1. ask[r].kind \in HermesKinds /\ now \in seen[r]
  BY DEF Held, HermesAnswers, KindsFit, Witnessed, Busy, Snapshot, HermesKinds
<1>2. CASE ask[r].kind # "session_messages"
  <2>. DEFINE message == [type |-> "sessions", data |-> Listed(ask[r])]
  <2>1. Answer(r, message)
    BY <1>2 DEF HermesAnswers
  <2>2. reply'[r] = message /\ ask'[r] = ask[r] /\ now \in seen'[r]
    BY <1>1, <2>1, AnswerHolds DEF Grows
  <2>3. \A s \in Sessions : s \in message.data <=>
          IF ask[r].kind = "session_list" THEN now.store[s].source = "desktop"
          ELSE s = ask[r].session /\ now.store[s].source # "absent"
    BY DEF Listed, Known, Types, TypeOK
  <2>. HIDE DEF now
  <2>4. AnswerIsCurrent(r)'
    BY <1>1, <1>2, <2>2, <2>3 DEF AnswerIsCurrent, HermesKinds
  <2>5. ErrorOK(r)'
    BY <2>2 DEF ErrorOK
  <2>. QED
    BY <2>1, <2>4, <2>5, AnswerHolds DEF Held
<1>3. CASE ask[r].kind = "session_messages" /\ ask[r].session \in Known
  <2>. DEFINE rows == store[ask[r].session].rows
              message == [type |-> "messages", data |-> Kept(rows)]
  <2>1. Answer(r, message)
    BY <1>3 DEF HermesAnswers
  <2>2. reply'[r] = message /\ ask'[r] = ask[r] /\ now \in seen'[r]
    BY <1>1, <2>1, AnswerHolds DEF Grows
  <2>3. rows \in Seq(Rows)
    BY <1>3 DEF Known, Types, TypeOK
  <2>4. Shows(message.data, now.store[ask[r].session].rows)
    BY <2>3, KeptShows
  <2>. HIDE DEF now
  <2>5. AnswerIsCurrent(r)'
    BY <1>3, <2>2, <2>4 DEF AnswerIsCurrent
  <2>6. ErrorOK(r)'
    BY <2>2 DEF ErrorOK
  <2>. QED
    BY <2>1, <2>5, <2>6, AnswerHolds DEF Held
<1>4. CASE ask[r].kind = "session_messages" /\ ask[r].session \notin Known
  <2>1. SendError(r)
    BY <1>4 DEF HermesAnswers
  <2>2. ask'[r] = ask[r] /\ now \in seen'[r]
    BY <1>1, <2>1, AnswerHolds DEF Grows, SendError
  <2>3. ask[r].session \in Sessions
    BY <1>4 DEF Types, TypeOK, Ask, NoAsk
  <2>4. ErrorHasCause(r)'
    BY <1>4, <2>2, <2>3 DEF ErrorHasCause, Known
  <2>. QED
    BY <2>1, <2>4, ErrorHolds
<1>. QED
  BY <1>2, <1>3, <1>4

\* What the model picker is told.
LEMMA MarkActiveHolds ==
  ASSUME NEW r \in RequestIds, Types, Held(r), MarkActive(r)
  PROVE  Held(r)'
<1>. DEFINE now == [selected |-> selected, loaded |-> loaded]
            message == [type |-> "models", loaded |-> probed[r] \cap Catalog,
                        active |-> Catalog \cap {selected}]
<1>1. Answer(r, message)
  BY DEF MarkActive
<1>2. now \in seen[r] /\ ask[r].kind = "model_list"
  BY DEF Held, MarkActive, KindsFit, Witnessed, Busy, Snapshot
<1>3. reply'[r] = message /\ ask'[r] = ask[r] /\ now \in seen'[r] /\ seen[r] \subseteq seen'[r]
  BY <1>1, <1>2, AnswerHolds DEF Grows
<1>4. failures'[r] = failures[r]
  BY DEF MarkActive
<1>5. \A m \in Catalog : m \in message.active <=> m = now.selected
  OBVIOUS
<1>6. \/ \E earlier \in seen'[r] : \A m \in Catalog : m \in message.loaded <=> m \in earlier.loaded
      \/ "second" \in failures'[r] /\ message.loaded = {}
  BY <1>3, <1>4 DEF Held, ProbedIsKnown, MarkActive
<1>7. message.type = "models"
  OBVIOUS
<1>. HIDE DEF message, now
<1>8. AnswerIsCurrent(r)'
  BY <1>2, <1>3, <1>5, <1>6, <1>7 DEF AnswerIsCurrent
<1>9. ErrorOK(r)'
  BY <1>3, <1>7 DEF ErrorOK
<1>. QED
  BY <1>1, <1>7, <1>8, <1>9, AnswerHolds DEF Held

LEMMA CallFailsHolds ==
  ASSUME NEW r \in RequestIds, Types, Held(r), CallFails(r)
  PROVE  Held(r)'
<1>1. CASE pc[r] \in {"hermes", "catalog"}
  <2>1. SendError(r) /\ "first" \in failures'[r]
    BY <1>1 DEF CallFails, Types, TypeOK
  <2>. QED
    BY <2>1, ErrorHolds DEF ErrorHasCause
<1>2. CASE pc[r] = "loaded"
  <2>1. Goto(r, "marking") /\ reply' = reply /\ probed' = probed /\ "second" \in failures'[r]
    BY <1>2 DEF CallFails, Types, TypeOK
  <2>2. pc'[r] = "marking" /\ ask' = ask
    BY <2>1, GotoTypes DEF Types, PcValues
  <2>3. KindsFit(r)' /\ ProbedIsKnown(r)'
    BY <1>2, <2>1, <2>2 DEF Held, KindsFit, ProbedIsKnown
  <2>. QED
    BY <1>2, <2>1, <2>3, GoesOn DEF PcValues
<1>. QED
  BY <1>1, <1>2 DEF CallFails

LEMMA SendHolds ==
  ASSUME NEW r \in RequestIds, Types, Held(r), Send(r)
  PROVE  Held(r)'
<1>1. Grows /\ pc'[r] = "spawned" /\ reply'[r] = reply[r] /\ probed'[r] = probed[r]
  BY ObserveGrows DEF Send, Types, TypeOK
<1>2. reply'[r].type = "none" /\ probed'[r] = {}
  BY <1>1 DEF Held, Send, Unanswered, ProbedIsKnown
<1>3. AnswerIsCurrent(r)' /\ ErrorOK(r)' /\ Unanswered(r)'
  BY <1>2 DEF AnswerIsCurrent, ErrorOK, Unanswered
<1>. QED
  BY <1>1, <1>2, <1>3 DEF Held, Grows, KindsFit, ProbedIsKnown, Told

LEMMA CreateSessionHolds ==
  ASSUME NEW r \in RequestIds, Types, Held(r), CreateSession(r)
  PROVE  Held(r)'
<1>. DEFINE message == [type |-> "session_created", model |-> selected]
<1>1. Answer(r, message)
  BY DEF CreateSession
<1>2. Snapshot(ask[r]) \in seen[r] /\ Snapshot(ask[r]).selected = selected
  BY DEF Held, CreateSession, Spawned, Witnessed, Busy, Snapshot
<1>3. reply'[r] = message /\ seen[r] \subseteq seen'[r]
  BY <1>1, AnswerHolds DEF Grows
<1>4. message.type = "session_created" /\ message.model = selected
  OBVIOUS
<1>. HIDE DEF message
<1>5. AnswerIsCurrent(r)' /\ ErrorOK(r)'
  BY <1>2, <1>3, <1>4 DEF AnswerIsCurrent, ErrorOK
<1>. QED
  BY <1>1, <1>4, <1>5, AnswerHolds DEF Held

\* The steps that send the client nothing.
LEMMA OtherStepsHold ==
  ASSUME NEW r \in RequestIds, Types, Held(r),
         SetModel(r) \/ CallHermes(r) \/ CallRouter(r) \/ CatalogAnswers(r) \/ LoadedAnswers(r)
  PROVE  Held(r)'
<1>1. CASE SetModel(r)
  <2>1. Goto(r, "done") /\ reply'[r] = reply[r] /\ reply[r].type = "none"
    BY <1>1 DEF SetModel, Spawned, Held, Unanswered
  <2>2. Grows /\ pc'[r] = "done" /\ ask'[r].kind = "set_model"
    BY <1>1, <2>1, GotoTypes, ObserveGrows DEF Types, PcValues, SetModel, Spawned
  <2>3. AnswerIsCurrent(r)' /\ ErrorOK(r)' /\ Told(r)'
    BY <2>1, <2>2 DEF AnswerIsCurrent, ErrorOK, Told
  <2>. QED
    BY <2>2, <2>3 DEF Held, Grows, KindsFit, Unanswered, ProbedIsKnown
<1>2. CASE CallHermes(r)
  <2>1. Goto(r, "hermes") /\ pc[r] = "spawned" /\ reply' = reply /\ probed' = probed
    BY <1>2 DEF CallHermes, Spawned
  <2>2. pc'[r] = "hermes" /\ ask' = ask
    BY <2>1, GotoTypes DEF Types, PcValues
  <2>3. KindsFit(r)' /\ ProbedIsKnown(r)'
    BY <1>2, <2>1, <2>2 DEF CallHermes, Spawned, Held, KindsFit, HermesKinds, ProbedIsKnown
  <2>. QED
    BY <2>1, <2>3, GoesOn DEF PcValues
<1>3. CASE CallRouter(r) /\ RouterConfigured
  <2>1. Goto(r, "catalog") /\ pc[r] = "spawned" /\ reply' = reply /\ probed' = probed
    BY <1>3 DEF CallRouter, Spawned
  <2>2. pc'[r] = "catalog" /\ ask' = ask
    BY <2>1, GotoTypes DEF Types, PcValues
  <2>3. KindsFit(r)' /\ ProbedIsKnown(r)'
    BY <1>3, <2>1, <2>2 DEF CallRouter, Spawned, Held, KindsFit, ProbedIsKnown
  <2>. QED
    BY <2>1, <2>3, GoesOn DEF PcValues
<1>4. CASE CallRouter(r) /\ ~RouterConfigured
  <2>1. SendError(r) /\ ask[r].kind = "model_list"
    BY <1>4 DEF CallRouter, Spawned
  <2>2. ErrorHasCause(r)'
    BY <1>4, <2>1, AnswerHolds DEF SendError, ErrorHasCause
  <2>. QED
    BY <2>1, <2>2, ErrorHolds
<1>5. CASE CatalogAnswers(r)
  <2>1. Goto(r, "loaded") /\ pc[r] = "catalog" /\ reply' = reply /\ probed' = probed
    BY <1>5 DEF CatalogAnswers
  <2>2. pc'[r] = "loaded" /\ ask' = ask
    BY <2>1, GotoTypes DEF Types, PcValues
  <2>3. KindsFit(r)' /\ ProbedIsKnown(r)'
    BY <2>1, <2>2 DEF Held, KindsFit, ProbedIsKnown
  <2>. QED
    BY <2>1, <2>3, GoesOn DEF PcValues
<1>6. CASE LoadedAnswers(r)
  <2>1. Goto(r, "marking") /\ pc[r] = "loaded" /\ reply' = reply /\ probed'[r] = loaded
    BY <1>6 DEF LoadedAnswers, Types, TypeOK
  <2>2. pc'[r] = "marking" /\ ask' = ask /\ Grows
    BY <2>1, GotoTypes, ObserveGrows DEF Types, PcValues
  <2>3. Snapshot(ask[r]) \in seen'[r] /\ Snapshot(ask[r]).loaded = loaded
    BY <2>1, <2>2 DEF Held, KindsFit, Witnessed, Busy, Grows, Snapshot
  <2>4. KindsFit(r)' /\ ProbedIsKnown(r)'
    BY <2>1, <2>2, <2>3 DEF Held, KindsFit, ProbedIsKnown
  <2>. QED
    BY <2>1, <2>4, GoesOn DEF PcValues
<1>. QED
  BY <1>1, <1>2, <1>3, <1>4, <1>5, <1>6

-----------------------------------------------------------------------------
(* The theorems.                                                           *)

LEMMA InvInit == Init => Inv
<1>. SUFFICES ASSUME Init PROVE Inv
  OBVIOUS
<1>1. TypeOK
  <2>1. <<>> \in Seq(Rows) /\ 0 \in 0..MaxEvents
    BY BoundsAssumption
  <2>. QED
    BY <2>1 DEF Init, TypeOK, Reply
<1>2. ASSUME NEW q \in RequestIds PROVE Held(q)
  BY DEF Init, Held, Witnessed, Busy, KindsFit, Unanswered, ProbedIsKnown, Told,
         AnswerIsCurrent, ErrorOK
<1>. QED
  BY <1>1, <1>2 DEF Inv, Types, Init

LEMMA InvStep == Inv /\ [Next]_vars => Inv'
<1>. SUFFICES ASSUME Inv, [Next]_vars PROVE Inv'
  OBVIOUS
<1>1. TypeOK'
  BY TypesStep DEF Inv, Types
<1>2. ASSUME NEW q \in RequestIds, Quiet(q), Observe PROVE Held(q)'
  BY <1>2, QuietHolds, ObserveGrows DEF Inv
<1>3. ASSUME NEW r \in RequestIds, Send(r) \/ HandlerStep(r) \/ ServerStep(r) \/ TimesOut(r)
      PROVE  \A q \in RequestIds : Held(q)'
  <2>1. Held(r)'
    BY <1>3, SendHolds, CreateSessionHolds, OtherStepsHold, HermesHolds, MarkActiveHolds,
       CallFailsHolds
    DEF Inv, HandlerStep, ServerStep, Refused, TimesOut
  <2>2. ASSUME NEW q \in RequestIds \ {r} PROVE Held(q)'
    BY <1>2, <1>3, OthersQuiet DEF Inv
  <2>. QED
    BY <2>1, <2>2
<1>4. ASSUME Change PROVE \A q \in RequestIds : Held(q)'
  BY <1>2, <1>4 DEF Change, Quiet
<1>5. ASSUME UNCHANGED vars PROVE \A q \in RequestIds : Held(q)'
  <2>1. Grows
    BY <1>5 DEF vars, upstream, Inv, Types, Held, Grows, Witnessed, Busy, Snapshot
  <2>2. \A q \in RequestIds : Quiet(q)
    BY <1>5 DEF vars, upstream, Quiet
  <2>. QED
    BY <2>1, <2>2, QuietHolds DEF Inv
<1>6. \A s \in Sessions : SessionStarts(s) \/ SessionReset(s) \/ RowAdded(s) => Change
  BY DEF SessionStarts, SessionReset, RowAdded
<1>7. LoadedChanges => Change
  BY DEF LoadedChanges
<1>8. \A q \in RequestIds : Held(q)'
  <2>1. CASE \E r \in RequestIds : Send(r) \/ HandlerStep(r) \/ ServerStep(r) \/ TimesOut(r)
    BY <1>3, <2>1
  <2>2. CASE Change
    BY <1>4, <2>2
  <2>3. CASE UNCHANGED vars
    BY <1>5, <2>3
  <2>. QED
    BY <1>6, <1>7, <2>1, <2>2, <2>3 DEF Next
<1>9. DOMAIN seen' = RequestIds
  <2>1. Change => Observe
    BY DEF Change
  <2>2. \A r \in RequestIds :
          Send(r) \/ HandlerStep(r) \/ ServerStep(r) \/ TimesOut(r) => Observe
    BY DEF HandlerStep, ServerStep, Refused, TimesOut, CallFails, CreateSession, SetModel,
           CallHermes, CallRouter, MarkActive, HermesAnswers, CatalogAnswers, LoadedAnswers,
           SendError, Answer, Goto, Send
  <2>3. UNCHANGED vars => seen' = seen
    BY DEF vars
  <2>4. Observe \/ seen' = seen
    BY <1>6, <1>7, <2>1, <2>2, <2>3 DEF Next
  <2>. QED
    BY <2>4 DEF Observe, Inv, Types
<1>. QED
  BY <1>1, <1>8, <1>9 DEF Inv, Types

LEMMA InvHolds == Spec => []Inv
BY InvInit, InvStep, PTL DEF Spec

\* The model's types, those of the replies among them.
THEOREM RequestsTypeCorrect == Spec => []TypeOK
<1>1. Inv => TypeOK
  BY DEF Inv, Types
<1>. QED
  BY <1>1, InvHolds, PTL

\* What a client is told was true at some time while it waited, however the
\* servers, set_model and other requests interleave with the calls of `handle`:
\* the sessions of the desktop and no others, every line of the dialogue in a
\* history of any length, the models the router has in memory.
THEOREM AnswersWereTrue == Spec => []AnswersAreCurrent
<1>1. Inv => AnswersAreCurrent
  BY DEF Inv, Held, AnswersAreCurrent
<1>. QED
  BY <1>1, InvHolds, PTL

\* A client gets an error only when the call its request depends on failed, its
\* session was gone, or there is no router token.
THEOREM ErrorsAreCaused == Spec => []ErrorsHaveCause
<1>1. Inv => ErrorsHaveCause
  BY DEF Inv, Held, ErrorOK, ErrorsHaveCause
<1>. QED
  BY <1>1, InvHolds, PTL

-----------------------------------------------------------------------------
(* Liveness: from place to place until the reply.                          *)

\* Where a request can go from each place, in one step of the system ...
LEMMA Moves ==
  ASSUME Inv, [Next]_vars, NEW r \in RequestIds
  PROVE  /\ pc[r] = "spawned" => pc'[r] \in {"spawned", "hermes", "catalog", "done"}
         /\ pc[r] = "hermes" => pc'[r] \in {"hermes", "done"}
         /\ pc[r] = "catalog" => pc'[r] \in {"catalog", "loaded", "done"}
         /\ pc[r] = "loaded" => pc'[r] \in {"loaded", "marking"}
         /\ pc[r] = "marking" => pc'[r] \in {"marking", "done"}
<1>. USE DEF Inv, Types
<1>1. ASSUME NEW q \in RequestIds \ {r},
             Send(q) \/ HandlerStep(q) \/ ServerStep(q) \/ TimesOut(q)
      PROVE  pc'[r] = pc[r]
  BY <1>1, OthersQuiet DEF Quiet
<1>2. CASE Send(r)
  BY <1>2 DEF Send
<1>3. CASE HandlerStep(r)
  BY <1>3 DEF HandlerStep, CreateSession, SetModel, CallHermes, CallRouter, MarkActive, Spawned,
              SendError, Answer, Goto, TypeOK
<1>4. CASE ServerStep(r) \/ TimesOut(r)
  BY <1>4 DEF ServerStep, HermesAnswers, CatalogAnswers, LoadedAnswers, Refused, TimesOut,
              CallFails, SendError, Answer, Goto, TypeOK
<1>5. CASE UNCHANGED vars
  BY <1>5 DEF vars
<1>6. CASE \E s \in Sessions : SessionStarts(s) \/ SessionReset(s) \/ RowAdded(s)
  <2>1. Change
    BY <1>6 DEF SessionStarts, SessionReset, RowAdded
  <2>. QED
    BY <2>1 DEF Change
<1>7. CASE LoadedChanges
  BY <1>7 DEF LoadedChanges, Change
<1>. QED
  BY <1>1, <1>2, <1>3, <1>4, <1>5, <1>6, <1>7 DEF Next

\* ... and that the step its own task, or its timer, takes leaves the place.
LEMMA Leaves ==
  ASSUME Inv, NEW r \in RequestIds
  PROVE  /\ pc[r] \in {"spawned", "marking"} /\ HandlerStep(r) => pc'[r] # pc[r]
         /\ pc[r] \in {"hermes", "catalog", "loaded"} /\ TimesOut(r) => pc'[r] # pc[r]
BY DEF Inv, Types, TypeOK, HandlerStep, CreateSession, SetModel, CallHermes, CallRouter,
       MarkActive, Spawned, TimesOut, CallFails, SendError, Answer, Goto

\* If the steps that NobodyIsStuck names can be taken, which the run checks (what
\* a state ENABLEs is out of the provers' reach), every request ends, and with a
\* reply, whatever the servers do and however many there are of each.
THEOREM RequestsEnd == FairSpec /\ []NobodyIsStuck => EveryRequestEnds
<1>1. ASSUME NEW r \in RequestIds
      PROVE  FairSpec /\ []NobodyIsStuck =>
               (pc[r] = "spawned" ~>
                  pc[r] = "done" /\ (ask[r].kind # "set_model" => reply[r].type # "none"))
  <2>. DEFINE At(place) == pc[r] = place
              Ended == At("done") /\ (ask[r].kind # "set_model" => reply[r].type # "none")
  <2>1. Inv /\ At("done") => Ended
    BY DEF Inv, Held, Told
  <2>2. Inv /\ [Next]_vars =>
          /\ At("spawned") => At("spawned")' \/ At("hermes")' \/ At("catalog")' \/ At("done")'
          /\ At("hermes") => At("hermes")' \/ At("done")'
          /\ At("catalog") => At("catalog")' \/ At("loaded")' \/ At("done")'
          /\ At("loaded") => At("loaded")' \/ At("marking")'
          /\ At("marking") => At("marking")' \/ At("done")'
    BY Moves
  <2>3. Inv /\ <<HandlerStep(r)>>_vars =>
          (At("spawned") => ~At("spawned")') /\ (At("marking") => ~At("marking")')
    BY Leaves
  <2>4. Inv /\ <<TimesOut(r)>>_vars => /\ At("hermes") => ~At("hermes")'
                                       /\ At("catalog") => ~At("catalog")'
                                       /\ At("loaded") => ~At("loaded")'
    BY Leaves
  <2>5. NobodyIsStuck => /\ At("spawned") \/ At("marking") => ENABLED <<HandlerStep(r)>>_vars
                         /\ At("hermes") \/ At("catalog") \/ At("loaded") =>
                              ENABLED <<TimesOut(r)>>_vars
    BY DEF NobodyIsStuck
  <2>6. FairSpec => Spec /\ [][Next]_vars /\ Fair(r)
    BY DEF FairSpec, Spec, Fairness
  <2>. HIDE DEF At
  <2>7. FairSpec /\ []NobodyIsStuck => (At("spawned") ~> Ended)
    BY <2>1, <2>2, <2>3, <2>4, <2>5, <2>6, InvHolds, PTL DEF Fair
  <2>. QED
    BY <2>7 DEF At
<1>. QED
  BY <1>1 DEF EveryRequestEnds
=============================================================================
