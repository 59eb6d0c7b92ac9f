------------------------------ MODULE MCMonitor ------------------------------
(***************************************************************************)
(* Finite instances of Monitor.                                            *)
(***************************************************************************)
EXTENDS Monitor, TLC

\* Streamers and task names are interchangeable (the safety run only).
MonitorSymmetry == Permutations(Uids) \cup Permutations(TaskIds)

=============================================================================
