---------------------------- MODULE MCInference ----------------------------
(* A small instance of Inference for TLC. *)
EXTENDS Inference

CONSTANTS MaxHandles, MaxRequests

MCHandles == 1 .. MaxHandles
MCStamps == 1 .. MaxRequests
=============================================================================
