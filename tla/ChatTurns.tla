----------------------------- MODULE ChatTurns -----------------------------
(***************************************************************************)
(* What the daemon promises for one chat request, whatever the adapter     *)
(* behind it does: nothing, then any number of drafts, then exactly one    *)
(* terminal reply and silence.  It abstracts `chat_via_bridge` in          *)
(* src/src/daemon.rs to the stream of DaemonMessages it sends (Bridge),    *)
(* and a connection to what the client receives of it (IpcConnection).     *)
(***************************************************************************)
EXTENDS Sequences, Naturals

CONSTANT Turns

VARIABLES phase,      \* phase[t]: has the request been taken up, and answered?
          cancelled,  \* the requests a client has cancelled
          replies     \* replies[t]: kinds of the messages sent for t, in order

vars == <<phase, cancelled, replies>>

\* ChatComplete, or one of the three Errors of a chat.
Finals == {"complete", "offline", "cancelled", "disconnected"}

Init == /\ phase = [t \in Turns |-> "idle"]
        /\ cancelled = {}
        /\ replies = [t \in Turns |-> <<>>]

\* A request taken up while the daemon shuts down is cancelled from the start:
\* its token is a child of the server's.
Start(t) == /\ phase[t] = "idle"
            /\ phase' = [phase EXCEPT ![t] = "active"]
            /\ cancelled' \in {cancelled, cancelled \union {t}}
            /\ UNCHANGED replies

\* A cancel reaches one request, a shutdown all.  For a request that has been
\* answered it changes nothing that its client can see, but the handler may not
\* have left `in_flight` yet.
Cancel(T) == /\ \A t \in T : phase[t] # "idle"
             /\ cancelled' = cancelled \union T
             /\ UNCHANGED <<phase, replies>>

Draft(t) == /\ phase[t] = "active"
            /\ replies' = [replies EXCEPT ![t] = Append(@, "draft")]
            /\ UNCHANGED <<phase, cancelled>>

\* A turn is only reported cancelled when somebody asked, and only reported
\* offline before anything was streamed for it.
End(t, kind) == /\ phase[t] = "active"
                /\ kind = "cancelled" => t \in cancelled
                /\ kind = "offline" => replies[t] = <<>>
                /\ phase' = [phase EXCEPT ![t] = "ended"]
                /\ replies' = [replies EXCEPT ![t] = Append(@, kind)]
                /\ UNCHANGED cancelled

Next == \/ \E t \in Turns : \/ Start(t)
                            \/ Draft(t)
                            \/ \E kind \in Finals : End(t, kind)
        \/ \E T \in SUBSET Turns : Cancel(T)

Spec == Init /\ [][Next]_vars
-----------------------------------------------------------------------------
(* Properties.                                                             *)

TypeOK == /\ phase \in [Turns -> {"idle", "active", "ended"}]
          /\ cancelled \subseteq Turns
          /\ replies \in [Turns -> Seq({"draft"} \union Finals)]

\* What a client may rely on when it looks at the replies alone: a terminal one
\* is the last, so there is one at most, and there is one when the turn is over;
\* "cancelled" is for those who asked, and "offline" comes alone.
Promise ==
  \A t \in Turns :
    /\ phase[t] = "ended" <=> \E i \in DOMAIN replies[t] : replies[t][i] # "draft"
    /\ \A i \in DOMAIN replies[t] :
         /\ replies[t][i] # "draft" => i = Len(replies[t])
         /\ replies[t][i] = "cancelled" => t \in cancelled
         /\ replies[t][i] = "offline" => Len(replies[t]) = 1
=============================================================================
