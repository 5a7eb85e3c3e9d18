----------------------------- MODULE MCStartup -----------------------------
(* The instance of Startup for TLC: a table of nine descriptors, which the  *)
(* launcher may have filled up to the last, every command line and every    *)
(* configuration file.                                                      *)
EXTENDS Startup

Descriptors == 8
=============================================================================
