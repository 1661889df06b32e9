------------------------------ MODULE MCRemote ------------------------------
(* Small instances of Remote for TLC. *)
EXTENDS Remote

MCNobody == {}
MCLea == {"Lea"}
=============================================================================
