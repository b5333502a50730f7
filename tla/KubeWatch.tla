------------------------------ MODULE KubeWatch ------------------------------
(***************************************************************************)
(* The API server and the client-go informers, as PodsController uses      *)
(* them: List and Watch of the nodes and of the pods.  The library is not  *)
(* in the repository; the controller relies on this much of it.            *)
(*                                                                         *)
(* An informer lists once, then watches.  It hands the handlers of one     *)
(* resource one event at a time, an object's events in the order of its    *)
(* changes, and classifies an event by what it delivered last of that      *)
(* object: Add, Update or Delete.  A watch may be lost; what arrived is    *)
(* still delivered, and then the informer lists again: the changes it      *)
(* missed collapse into one event, and every object that is still there is *)
(* delivered again.                                                        *)
(***************************************************************************)
EXTENDS KubeObjects, Sequences

CONSTANTS
  MaxChanges,      \* bound: changes of API objects in a behaviour
  MaxLosses,       \* bound: lost watches in a behaviour
  CanResize,       \* may a running pod's requests change (in-place resize)?
  CanRejoin,       \* may a deleted node name come back?
  CanChangeEarly   \* may objects change before the informers have listed them?

ASSUME BoundsAreNat == MaxChanges \in Nat /\ MaxLosses \in Nat
ASSUME SwitchesAreBoolean == {CanResize, CanRejoin, CanChangeEarly} \subseteq BOOLEAN

VARIABLES
  apiPods, apiNodes,   \* the objects that exist, or Nil
  podSeen, nodeSeen,   \* the informers' stores: the state last delivered
  podQueue, nodeQueue, \* the events still to deliver, per object
  listed,              \* the informers that have listed: "pods", "nodes"
  watching,            \* those with a watch that is not lost
  gone,                \* node names that were deleted
  changes, losses      \* counters for the bounds

apiVars == <<apiPods, apiNodes, gone, changes>>
podFeed == <<podSeen, podQueue>>
nodeFeed == <<nodeSeen, nodeQueue>>
watchVars == <<apiVars, podFeed, nodeFeed, listed, watching, losses>>

KubeTypeOK ==
  /\ apiPods \in [Key -> PodState \cup {Nil}]
  /\ apiNodes \in [Node -> NodeState \cup {Nil}]
  /\ podSeen \in [Key -> PodState \cup {Nil}]
  /\ nodeSeen \in [Node -> NodeState \cup {Nil}]
  /\ podQueue \in [Key -> Seq(PodState \cup {Nil})]
  /\ nodeQueue \in [Node -> Seq(NodeState \cup {Nil})]
  /\ listed \subseteq {"pods", "nodes"}
  /\ watching \subseteq listed
  /\ gone \subseteq Node
  /\ changes \in 0..MaxChanges
  /\ losses \in 0..MaxLosses

KubeInit ==
  /\ apiPods \in [Key -> PodState \cup {Nil}]
  /\ apiNodes \in [Node -> NodeState \cup {Nil}]
  /\ podSeen = [k \in Key |-> Nil]
  /\ nodeSeen = [n \in Node |-> Nil]
  /\ podQueue = [k \in Key |-> <<>>]
  /\ nodeQueue = [n \in Node |-> <<>>]
  /\ listed = {}
  /\ watching = {}
  /\ gone = {}
  /\ changes = 0
  /\ losses = 0

-----------------------------------------------------------------------------
(* Changes of the API's objects: kube-apiserver, scheduler, kubelet, users *)

Change ==
  /\ changes < MaxChanges
  /\ changes' = changes + 1
  /\ CanChangeEarly \/ listed = {"pods", "nodes"}

SetPod(k, s) ==
  /\ Change
  /\ apiPods' = [apiPods EXCEPT ![k] = s]
  /\ podQueue' = IF "pods" \in watching THEN [podQueue EXCEPT ![k] = Append(@, s)] ELSE podQueue
  /\ UNCHANGED <<apiNodes, gone, podSeen, nodeFeed, listed, watching, losses>>

CreatePod(k, r) ==
  /\ apiPods[k] = Nil
  /\ SetPod(k, [node |-> Nil, req |-> r, ended |-> FALSE])

SchedulePod(k, n) ==
  /\ IsLive(apiPods[k]) /\ apiPods[k].node = Nil
  /\ SetPod(k, [apiPods[k] EXCEPT !.node = n])

ResizePod(k, r) ==
  /\ CanResize
  /\ IsLive(apiPods[k]) /\ apiPods[k].req # r
  /\ SetPod(k, [apiPods[k] EXCEPT !.req = r])

EndPod(k) ==
  /\ IsLive(apiPods[k])
  /\ SetPod(k, [apiPods[k] EXCEPT !.ended = TRUE])

RemovePod(k) ==
  /\ apiPods[k] # Nil
  /\ SetPod(k, Nil)

SetNode(n, s) ==
  /\ Change
  /\ apiNodes' = [apiNodes EXCEPT ![n] = s]
  /\ nodeQueue' = IF "nodes" \in watching THEN [nodeQueue EXCEPT ![n] = Append(@, s)] ELSE nodeQueue
  /\ UNCHANGED <<apiPods, podFeed, nodeSeen, listed, watching, losses>>

JoinNode(n, i) ==
  /\ apiNodes[n] = Nil
  /\ n \in gone => CanRejoin
  /\ SetNode(n, [info |-> i, deleting |-> FALSE])
  /\ UNCHANGED gone

ChangeNode(n, i) ==
  /\ apiNodes[n] # Nil /\ apiNodes[n].info # i
  /\ SetNode(n, [apiNodes[n] EXCEPT !.info = i])
  /\ UNCHANGED gone

MarkNode(n) ==
  /\ Stays(apiNodes[n])
  /\ SetNode(n, [apiNodes[n] EXCEPT !.deleting = TRUE])
  /\ UNCHANGED gone

(* The node is deleted, or its labels leave the selector of the watch: its *)
(* pods need not be.                                                       *)
RemoveNode(n) ==
  /\ apiNodes[n] # Nil
  /\ SetNode(n, Nil)
  /\ gone' = gone \cup {n}

ApiChange ==
  \/ \E k \in Key :
       \/ \E r \in Request : CreatePod(k, r) \/ ResizePod(k, r)
       \/ \E n \in Node : SchedulePod(k, n)
       \/ EndPod(k) \/ RemovePod(k)
  \/ \E n \in Node :
       \/ \E i \in NodeInfo : JoinNode(n, i) \/ ChangeNode(n, i)
       \/ MarkNode(n) \/ RemoveNode(n)

-----------------------------------------------------------------------------
(* What a list has to deliver to an informer that has seen an object and   *)
(* has the events q of it still to deliver.                                *)
Catchup(now, seen, q) ==
  LET known == IF q = <<>> THEN seen ELSE q[Len(q)]
  IN  IF now = Nil /\ known = Nil THEN q ELSE Append(q, now)

ListPods ==
  /\ podQueue' = [k \in Key |-> Catchup(apiPods[k], podSeen[k], podQueue[k])]
  /\ UNCHANGED <<apiVars, podSeen, nodeFeed>>

ListNodes ==
  /\ nodeQueue' = [n \in Node |-> Catchup(apiNodes[n], nodeSeen[n], nodeQueue[n])]
  /\ UNCHANGED <<apiVars, podFeed, nodeSeen>>

(* The first list, and the one after a lost watch. *)
List(resource) ==
  /\ resource \notin watching
  /\ listed' = listed \cup {resource}
  /\ watching' = watching \cup {resource}
  /\ IF resource = "pods" THEN ListPods ELSE ListNodes
  /\ UNCHANGED losses

LoseWatch(resource) ==
  /\ resource \in watching
  /\ losses < MaxLosses
  /\ losses' = losses + 1
  /\ watching' = watching \ {resource}
  /\ UNCHANGED <<apiVars, podFeed, nodeFeed, listed>>

(* The informer hands out the next event of one object. *)
DeliverPod(k) ==
  /\ podQueue[k] # <<>>
  /\ podSeen' = [podSeen EXCEPT ![k] = Head(podQueue[k])]
  /\ podQueue' = [podQueue EXCEPT ![k] = Tail(@)]
  /\ UNCHANGED <<apiVars, nodeFeed, listed, watching, losses>>

DeliverNode(n) ==
  /\ nodeQueue[n] # <<>>
  /\ nodeSeen' = [nodeSeen EXCEPT ![n] = Head(nodeQueue[n])]
  /\ nodeQueue' = [nodeQueue EXCEPT ![n] = Tail(@)]
  /\ UNCHANGED <<apiVars, podFeed, listed, watching, losses>>
=============================================================================
