------------------------------ MODULE MCBridge ------------------------------
(***************************************************************************)
(* Bridge for TLC.  With one panel conversation and launcher chats, any    *)
(* two of the turns may share a chat id or not.                            *)
(***************************************************************************)
EXTENDS Bridge
=============================================================================
