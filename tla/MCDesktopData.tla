---------------------------- MODULE MCDesktopData ----------------------------
(* The desktop data directory with two request threads. *)
EXTENDS DesktopData, TLC

=============================================================================
