-------------------------- MODULE MCIpcConnection --------------------------
(* IpcConnection for TLC. *)
EXTENDS IpcConnection
=============================================================================
