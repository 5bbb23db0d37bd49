---------------------------- MODULE MCTypedMemory ----------------------------
(***************************************************************************)
(* TypedMemory with a field of a browser and a field of an editor.         *)
(***************************************************************************)
EXTENDS TypedMemory, TLC

MCAppOf == ("page" :> "browser") @@ ("editor" :> "editor")
=============================================================================
