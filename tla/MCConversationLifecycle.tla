----------------------- MODULE MCConversationLifecycle -----------------------
(* Small instances of ConversationLifecycle for TLC. *)
EXTENDS ConversationLifecycle, TLC

Symmetry == Permutations(Process) \cup Permutations(Original) \cup Permutations(Alias)

NoFaults == {}
\* Not "unavailable": it would let every repeated attempt end by failing, so
\* that fairness alone ended operations that make no progress.
LateFaults == {"unsynced", "crash"}
=============================================================================
