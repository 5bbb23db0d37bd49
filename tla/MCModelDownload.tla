---------------------------- MODULE MCModelDownload ----------------------------
(* A small instance of ModelDownload: the server's other files are shorter and *)
(* longer than the pinned one, and the ceiling is exact or has room.           *)
EXTENDS ModelDownload

MCContent == [old |-> <<"o1">>, new |-> <<"n1", "n2">>, huge |-> <<"h1", "h2", "h3", "h4">>]
MCLeftover == <<"o1", "o2", "o3", "o4">>
=============================================================================
