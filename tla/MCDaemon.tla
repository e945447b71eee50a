------------------------------ MODULE MCDaemon ------------------------------
(* Instances of Daemon for TLC: every constant has its value in a .cfg. *)
EXTENDS Daemon
=============================================================================
