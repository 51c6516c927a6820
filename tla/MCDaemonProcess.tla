-------------------------- MODULE MCDaemonProcess --------------------------
(* DaemonProcess for TLC. *)
EXTENDS DaemonProcess

CONSTANTS badAddr, filekey

Raw(addr) == [key |-> filekey, socket |-> Absent, addr |-> addr, token |-> Empty]

\* A plain file, and one whose address does not parse.
MCFiles == {Raw(Absent), Raw(badAddr)}

\* HERMES_API_KEY is set and empty, as an EnvironmentFile can leave it.
MCEnv == [key |-> Empty, token |-> Absent]
=============================================================================
