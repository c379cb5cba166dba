------------------------------ MODULE ArenaMC ------------------------------
(***************************************************************************)
(* Instances of Arena for TLC.                                             *)
(***************************************************************************)
EXTENDS Arena

MCBackings == {"none", "growable"}
=============================================================================
