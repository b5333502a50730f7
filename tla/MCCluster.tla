------------------------------ MODULE MCCluster ------------------------------
(***************************************************************************)
(* Instances of PodsController for TLC: few nodes, pods and API changes.   *)
(***************************************************************************)
EXTENDS PodsController, TLC

(* Node names and pod addresses are interchangeable. *)
Interchangeable == Permutations(Node) \cup Permutations(PodObj)
=============================================================================
