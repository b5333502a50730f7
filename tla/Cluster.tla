------------------------------- MODULE Cluster -------------------------------
(***************************************************************************)
(* The shared store of pkg/model: a Cluster (cluster.go), the Node objects *)
(* it registers by name (node.go) and the Pod objects that both of them    *)
(* point to (pod.go).                                                      *)
(*                                                                         *)
(* Every critical section under Cluster.mu, Node.mu or Pod.mu is one step. *)
(* AddPod and DeletePod take several of them, so a call in progress is a   *)
(* frame call[t] of the goroutine t that makes it, and other goroutines    *)
(* may step between two sections.                                          *)
(*                                                                         *)
(* Pods are pointers: pods[k] and bound[n][k] may name the same object,    *)
(* whose content (heap) Pod.Update overwrites in place.  An object never   *)
(* changes its namespace and name, so each key has its own PodObj's.       *)
(***************************************************************************)
EXTENDS KubeObjects

CONSTANTS
  PodObj,   \* addresses of the Pod objects of one key
  Thread    \* goroutines that call AddPod, DeletePod or hold a *Node

ASSUME NilIsNoAddress == Nil \notin PodObj

VARIABLES
  nodeDataAvailable, \* Cluster.nodeDataAvailable
  registered,        \* the names in Cluster.nodes
  visible,           \* the registered nodes with Node.visible
  info,              \* Node.node of each registered node
  bound,             \* bound[n][k]: Node.pods of the object registered as n
  used,              \* used[n][k]: what pod k has left in Node.used
  pods,              \* Cluster.pods
  heap,              \* heap[k][o]: Pod.pod of object o
  call,              \* the AddPod or DeletePod in progress in each goroutine
  held               \* the *Node a goroutine holds, while it is registered

storeVars == <<nodeDataAvailable, registered, visible, info, bound, used, pods, heap>>
nodeMapVars == <<registered, visible, info>>
bindingVars == <<bound, used>>
clusterVars == <<storeVars, call, held>>

Steps == {"idle", "lookup", "update", "put", "findToBind", "bind",
          "get", "findToUnbind", "unbind", "drop"}

Idle == [at |-> "idle", key |-> Nil, obj |-> Nil]
Frame == [at : Steps, key : Key \cup {Nil}, obj : PodObj \cup {Nil}]

NoBindings == [k \in Key |-> Nil]
NothingUsed == [k \in Key |-> 0]

ClusterTypeOK ==
  /\ nodeDataAvailable \in BOOLEAN
  /\ registered \subseteq Node
  /\ visible \subseteq registered
  /\ info \in [Node -> NodeInfo \cup {Nil}]
  /\ bound \in [Node -> [Key -> PodObj \cup {Nil}]]
  /\ used \in [Node -> [Key -> Int]]
  /\ pods \in [Key -> PodObj \cup {Nil}]
  /\ heap \in [Key -> [PodObj -> Content \cup {Nil}]]
  /\ call \in [Thread -> Frame]
  /\ held \in [Thread -> Node \cup {Nil}]

(* NewCluster *)
ClusterInit ==
  /\ nodeDataAvailable = TRUE
  /\ registered = {}
  /\ visible = {}
  /\ info = [n \in Node |-> Nil]
  /\ bound = [n \in Node |-> NoBindings]
  /\ used = [n \in Node |-> NothingUsed]
  /\ pods = [k \in Key |-> Nil]
  /\ heap = [k \in Key |-> [o \in PodObj |-> Nil]]
  /\ call = [t \in Thread |-> Idle]
  /\ held = [t \in Thread |-> Nil]

-----------------------------------------------------------------------------
(* Reading *)

InUse(k) ==
  {pods[k]} \cup {bound[n][k] : n \in Node}
            \cup {call[t].obj : t \in {u \in Thread : call[u].key = k}}

(* The address a new Pod object of key k gets. *)
IsFresh(k, o) ==
  LET free == PodObj \ InUse(k)
  IN  free # {} /\ o = CHOOSE x \in free : TRUE

NodeName(k) == heap[k][pods[k]].node

(* VisiblePods: a pod of an unknown or hidden node is not listed, unless   *)
(* there is no node data at all.                                           *)
VisiblePods ==
  {k \in Key : /\ pods[k] # Nil
               /\ \/ ~nodeDataAvailable
                  \/ NodeName(k) = Nil
                  \/ NodeName(k) \in registered \cap visible}

-----------------------------------------------------------------------------
(* Nodes.  AddNode on a known name updates the object that is there and    *)
(* returns it; otherwise it registers the new one, hidden, with no pods.   *)
AddNode(t, n, i) ==
  /\ held' = [held EXCEPT ![t] = n]
  /\ info' = [info EXCEPT ![n] = i]
  /\ registered' = registered \cup {n}
  /\ UNCHANGED visible

(* Mutant: AddNode's caller never shows the node. *)
ShowNothing(t) == UNCHANGED nodeMapVars

Show(t) ==
  /\ visible' = visible \cup ({held[t]} \ {Nil})
  /\ UNCHANGED <<registered, info>>

(* Mutant: the node goes, and with it the pods of every node. *)
DeleteNodeAndAllPods(n) ==
  /\ registered' = registered \ {n}
  /\ visible' = visible \ {n}
  /\ info' = [info EXCEPT ![n] = Nil]
  /\ bound' = [bound EXCEPT ![n] = NoBindings]
  /\ used' = [used EXCEPT ![n] = NothingUsed]
  /\ pods' = IF n \in registered THEN [k \in Key |-> Nil] ELSE pods
  /\ held' = [t \in Thread |-> IF held[t] = n THEN Nil ELSE held[t]]

(* Mutant: the node that comes back under the name is visible at once. *)
DeleteNodeNotVisible(n) ==
  /\ registered' = registered \ {n}
  /\ info' = [info EXCEPT ![n] = Nil]
  /\ bound' = [bound EXCEPT ![n] = NoBindings]
  /\ used' = [used EXCEPT ![n] = NothingUsed]
  /\ pods' = [k \in Key |-> IF pods[k] # Nil /\ NodeName(k) = n THEN Nil ELSE pods[k]]
  /\ held' = [t \in Thread |-> IF held[t] = n THEN Nil ELSE held[t]]
  /\ UNCHANGED visible

(* DeleteNode drops the node with its bindings and every pod that names    *)
(* it.  A goroutine that holds the pointer goes on with an object nobody   *)
(* can reach, so its later steps on it show nowhere: held becomes Nil.     *)
DeleteNode(n) ==
  /\ registered' = registered \ {n}
  /\ visible' = visible \ {n}
  /\ info' = [info EXCEPT ![n] = Nil]
  /\ bound' = [bound EXCEPT ![n] = NoBindings]
  /\ used' = [used EXCEPT ![n] = NothingUsed]
  /\ pods' = IF n \in registered
               THEN [k \in Key |-> IF pods[k] # Nil /\ NodeName(k) = n THEN Nil ELSE pods[k]]
               ELSE pods
  /\ held' = [t \in Thread |-> IF held[t] = n THEN Nil ELSE held[t]]

-----------------------------------------------------------------------------
(* AddPod: put the pod in the map; look its node up; bind it there.        *)

At(t, step) == call[t].at = step
Goto(t, step) == call' = [call EXCEPT ![t].at = step]
Return(t) == call' = [call EXCEPT ![t] = Idle]

CallAddPod(t, k, o) == call' = [call EXCEPT ![t] = [at |-> "put", key |-> k, obj |-> o]]
CallDeletePod(t, k) == call' = [call EXCEPT ![t] = [at |-> "get", key |-> k, obj |-> Nil]]

PutPod(t) ==
  /\ At(t, "put")
  /\ LET k == call[t].key
         o == call[t].obj
     IN  /\ pods' = [pods EXCEPT ![k] = o]
         /\ IF heap[k][o].node = Nil THEN Return(t) ELSE Goto(t, "findToBind")
  /\ UNCHANGED <<nodeDataAvailable, nodeMapVars, bindingVars, heap, held>>

(* GetNodeByName *)
FindNode(t, n, found, missing) ==
  /\ held' = [held EXCEPT ![t] = IF n \in registered THEN n ELSE Nil]
  /\ IF n \in registered THEN found ELSE missing
  /\ UNCHANGED storeVars

FindNodeToBind(t) ==
  /\ At(t, "findToBind")
  /\ FindNode(t, heap[call[t].key][call[t].obj].node, Goto(t, "bind"), Return(t))

(* Mutant: the requests are added again when the key is bound already. *)
BindPodAddsAgain(t) ==
  /\ At(t, "bind")
  /\ LET n == held[t]
         k == call[t].key
     IN  IF n = Nil
           THEN UNCHANGED bindingVars
           ELSE /\ bound' = [bound EXCEPT ![n][k] = call[t].obj]
                /\ used' = [used EXCEPT ![n][k] = @ + heap[k][call[t].obj].req]
  /\ Return(t)
  /\ held' = [held EXCEPT ![t] = Nil]
  /\ UNCHANGED <<nodeDataAvailable, nodeMapVars, pods, heap>>

(* Node.BindPod: the binding is replaced; the requests are only added when *)
(* the key was not bound.                                                  *)
BindPod(t) ==
  /\ At(t, "bind")
  /\ LET n == held[t]
         k == call[t].key
         o == call[t].obj
     IN  IF n = Nil
           THEN UNCHANGED bindingVars
           ELSE /\ bound' = [bound EXCEPT ![n][k] = o]
                /\ used' = [used EXCEPT ![n][k] =
                              IF bound[n][k] = Nil THEN @ + heap[k][o].req ELSE @]
  /\ Return(t)
  /\ held' = [held EXCEPT ![t] = Nil]
  /\ UNCHANGED <<nodeDataAvailable, nodeMapVars, pods, heap>>

-----------------------------------------------------------------------------
(* DeletePod: find the pod, find its node, unbind it, drop it from the map.*)

(* Mutant: the pod leaves the map and stays bound to its node. *)
GetPodToDeleteLeavesBinding(t) ==
  /\ At(t, "get")
  /\ Goto(t, "drop")
  /\ UNCHANGED <<storeVars, held>>

GetPodToDelete(t) ==
  /\ At(t, "get")
  /\ LET k == call[t].key
     IN  IF pods[k] = Nil \/ NodeName(k) = Nil
           THEN Goto(t, "drop")
           ELSE call' = [call EXCEPT ![t].at = "findToUnbind", ![t].obj = pods[k]]
  /\ UNCHANGED <<storeVars, held>>

FindNodeToUnbind(t) ==
  /\ At(t, "findToUnbind")
  /\ FindNode(t, heap[call[t].key][call[t].obj].node, Goto(t, "unbind"), Goto(t, "drop"))

(* Node.DeletePod subtracts what the bound object requests now. *)
UnbindPod(t) ==
  /\ At(t, "unbind")
  /\ LET n == held[t]
         k == call[t].key
     IN  IF n = Nil \/ bound[n][k] = Nil
           THEN UNCHANGED bindingVars
           ELSE /\ used' = [used EXCEPT ![n][k] = @ - heap[k][bound[n][k]].req]
                /\ bound' = [bound EXCEPT ![n][k] = Nil]
  /\ Goto(t, "drop")
  /\ held' = [held EXCEPT ![t] = Nil]
  /\ UNCHANGED <<nodeDataAvailable, nodeMapVars, pods, heap>>

DropPod(t) ==
  /\ At(t, "drop")
  /\ pods' = [pods EXCEPT ![call[t].key] = Nil]
  /\ Return(t)
  /\ UNCHANGED <<nodeDataAvailable, nodeMapVars, bindingVars, heap, held>>

(* One critical section of a call in progress. *)
PodCall(t) ==
  \/ PutPod(t) \/ FindNodeToBind(t) \/ BindPod(t)
  \/ GetPodToDelete(t) \/ FindNodeToUnbind(t) \/ UnbindPod(t) \/ DropPod(t)
=============================================================================
