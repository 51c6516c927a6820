-------------------------- MODULE MCDesktopAdapter --------------------------
(* DesktopAdapter for TLC. *)
EXTENDS DesktopAdapter
=============================================================================
