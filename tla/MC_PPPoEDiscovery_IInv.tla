---------------------- MODULE MC_PPPoEDiscovery_IInv ----------------------
(* The instance of MC_PPPoEDiscovery, checked against the inductive        *)
(* invariant IInv of PPPoEDiscovery_proofs before it is proved.            *)
EXTENDS MC_PPPoEDiscovery, PPPoEDiscovery_proofs
=============================================================================
