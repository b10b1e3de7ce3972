---------------------------- MODULE MCSelfUpdate ----------------------------
(***************************************************************************)
(* SelfUpdate with two or three releases, four or five processes, and a    *)
(* script that looks once or twice whether the program has gone.           *)
(***************************************************************************)
EXTENDS SelfUpdate
=============================================================================
