----------------------------- MODULE MCSyncJobs -----------------------------
(* A small account for SyncJobs. *)
EXTENDS SyncJobs, TLC

\* Any unused id, where ids are symmetric, or one of them.
AnyId(S) == S
OneId(S) == {s \in S : s = CHOOSE t \in S : TRUE}

Symmetry == Permutations(Workers) \cup Permutations(Jobs)
=============================================================================
