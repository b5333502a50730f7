----------------------------- MODULE KubeObjects -----------------------------
(***************************************************************************)
(* The Kubernetes objects the viewer follows, as far as its store tells    *)
(* them apart.                                                             *)
(***************************************************************************)
EXTENDS Integers

CONSTANTS
  Node,     \* node names
  Key,      \* objectKey: namespace and name of a pod
  Request,  \* what a pod may request of one resource (Pod.Requested)
  NodeInfo, \* what a node object may say of itself (v1.Node)
  Nil       \* absent: no object, a missing map entry, an empty node name

ASSUME RequestIsInt == Request \subseteq Int
ASSUME NilIsNoName == Nil \notin Node \cup Key \cup NodeInfo

(* A pod is scheduled once, may be resized, and ends: it completes, fails  *)
(* or gets a deletion timestamp (isTerminalPod).                           *)
PodState == [node : Node \cup {Nil}, req : Request, ended : BOOLEAN]

(* A node with a deletion timestamp and no finalizers is deleting. *)
NodeState == [info : NodeInfo, deleting : BOOLEAN]

(* A pod that is there and not terminal; a node that is there and stays. *)
IsLive(p) == p # Nil /\ ~p.ended
Stays(s) == s # Nil /\ ~s.deleting

(* What the store keeps of a pod: where it runs and what it requests. *)
Content == [node : Node \cup {Nil}, req : Request]
ContentOf(p) == [node |-> p.node, req |-> p.req]

ASSUME NilIsNoObject == Nil \notin PodState \cup NodeState \cup Content
=============================================================================
