---------------------------- MODULE MCCoordinator ----------------------------
(* Small instances of Coordinator: which configurations a run starts from,  *)
(* and the symmetry of the command identities.                              *)
EXTENDS CoordinatorProperties, TLC

EveryConfig == CoordinatorConfig

\* The default of CoordinatorConfig.
VrchatFirst == {[link_mode |-> "InverseBidirectional", link_enabled |-> TRUE,
                 startup_authority |-> "Vrchat", resume_policy |-> "SyncFromVrchat"]}

NonceSymmetry == Permutations(Nonces)
=============================================================================
