----------------------------- MODULE MCAxWorker -----------------------------
(* A small instance of AxWorker for TLC. *)
EXTENDS AxWorker, TLC

CONSTANTS mail, web, field, button

MCApps == {mail, web}
MCElements == {field, button}
=============================================================================
