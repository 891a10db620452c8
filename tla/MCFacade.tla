------------------------------ MODULE MCFacade ------------------------------
(* The instances of MCEthRpc with a reader. *)
EXTENDS MCEthRpc, FacadeReads
=============================================================================
