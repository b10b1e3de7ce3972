--------------------------- MODULE MCDaemonReload ---------------------------
(***************************************************************************)
(* Small instances of DaemonReload: two requests at a time. The service    *)
(* file makes the folder of the archive read-only for the daemon; without  *)
(* it the daemon may write there.                                          *)
(***************************************************************************)
EXTENDS DaemonReload

CONSTANTS R1, R2
=============================================================================
