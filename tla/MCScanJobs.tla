----------------------------- MODULE MCScanJobs -----------------------------
(* Small instances of ScanJobs for TLC. *)
EXTENDS ScanJobs, TLC

\* Agents, requests and the runs of one scope are interchangeable: no action
\* and no property names one of them.
PoolSymmetry == Permutations(Agents) \cup Permutations(Requests)
ClaimSymmetry == PoolSymmetry \cup Permutations(LanJobs)
=============================================================================
