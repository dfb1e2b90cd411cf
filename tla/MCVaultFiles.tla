----------------------------- MODULE MCVaultFiles -----------------------------
(* A small instance of VaultFiles for TLC. *)
EXTENDS VaultFiles, TLC

Symmetry ==
    Permutations(Process) \cup Permutations(Conversation) \cup Permutations(Identity)
        \cup Permutations(Key)

NoFaults == {}
=============================================================================
