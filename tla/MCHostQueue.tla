---------------------------- MODULE MCHostQueue ----------------------------
(* A small instance of HostQueue for TLC. *)
EXTENDS HostQueue

CONSTANTS f1, f2, MaxReports

MCReports == 1 .. MaxReports
=============================================================================
