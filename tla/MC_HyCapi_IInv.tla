---------------------------- MODULE MC_HyCapi_IInv ----------------------------
(* The instance of MC_HyCapi, checked against the inductive invariant IInv *)
(* of HyCapi_proofs before it is proved.                                    *)
EXTENDS MC_HyCapi, HyCapi_proofs
=============================================================================
