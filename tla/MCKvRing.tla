------------------------------ MODULE MCKvRing ------------------------------
(***************************************************************************)
(* Instances of KvRing for TLC.                                            *)
(***************************************************************************)
EXTENDS KvRing

CONSTANTS d1, d2
=============================================================================
