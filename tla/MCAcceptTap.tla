---------------------------- MODULE MCAcceptTap ----------------------------
(* A small instance of AcceptTap for TLC. *)
EXTENDS AcceptTap

CONSTANTS m1, m2

MCPrefix(n) == 0 .. n
MCGenerations == MCPrefix(5)
MCArms == MCPrefix(4)
=============================================================================
