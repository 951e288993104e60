---------------------------- MODULE MCHttpSessions ----------------------------
(* Instances of HttpSessions for TLC.                                        *)
EXTENDS HttpSessions, TLC
=============================================================================
