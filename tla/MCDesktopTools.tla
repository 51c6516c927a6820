--------------------------- MODULE MCDesktopTools ---------------------------
(* DesktopTools for TLC. *)
EXTENDS DesktopTools
=============================================================================
