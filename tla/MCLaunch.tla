------------------------------- MODULE MCLaunch -------------------------------
(* Small instances of Launch for TLC. *)
EXTENDS Launch, TLC

Symmetry == Permutations(Process) \cup Permutations(Conversation) \cup Permutations(Identity)

NoFaults == {}
LaunchFaults == {"crash", "unavailable"}
=============================================================================
