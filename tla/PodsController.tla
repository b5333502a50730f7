--------------------------- MODULE PodsController ---------------------------
(***************************************************************************)
(* PodsController (pkg/client/pods_controller.go) over the shared store:   *)
(* Start seeds the store from two lists in the main goroutine, and starts  *)
(* a watch goroutine for the nodes and one for the pods, whose handlers    *)
(* change the store for every event an informer hands them.                *)
(*                                                                         *)
(* The seeding of the pods runs while the node watch is already going; the *)
(* two watches run side by side from then on.                              *)
(***************************************************************************)
EXTENDS Cluster, KubeWatch

CONSTANTS
  Main, NodeWatch, PodWatch, \* the goroutines
  Answers                    \* what the API may answer to a list or a watch probe

ASSUME ThreadsAreThese ==
  /\ Thread = {Main, NodeWatch, PodWatch}
  /\ Main # NodeWatch /\ Main # PodWatch /\ NodeWatch # PodWatch
ASSUME AnswersAreThese == Answers \subseteq {"ok", "forbidden", "error"} /\ "ok" \in Answers

VARIABLES
  start,    \* where Start is
  seeds,    \* the listed items it has yet to add
  running,  \* the watches it has started
  nodeCall  \* the node event being handled: where, and of which node

startVars == <<start, seeds, running>>
vars == <<clusterVars, watchVars, startVars, nodeCall>>

StartSteps == {"listNodes", "seedNodes", "showNode", "probeNodes",
               "listPods", "seedPods", "probePods", "done"}
NodeSteps == {"idle", "show", "find", "update"}

NoNodeCall == [at |-> "idle", node |-> Nil]
NoSeeds == [nodes |-> {}, pods |-> {}]

TypeOK ==
  /\ ClusterTypeOK
  /\ KubeTypeOK
  /\ start \in StartSteps
  /\ seeds \in [nodes : SUBSET (Node \X NodeInfo), pods : SUBSET (Key \X Content)]
  /\ running \subseteq {"pods", "nodes"}
  /\ nodeCall \in [at : NodeSteps, node : Node \cup {Nil}]

Init ==
  /\ ClusterInit
  /\ KubeInit
  /\ start = "listNodes"
  /\ seeds = NoSeeds
  /\ running = {}
  /\ nodeCall = NoNodeCall

(* NewPod: a Pod object of its own for the state p of the API's pod k. *)
NewPod(k, o, p) ==
  /\ IsFresh(k, o)
  /\ heap' = [heap EXCEPT ![k][o] = ContentOf(p)]

-----------------------------------------------------------------------------
(* Start, in the main goroutine *)

(* seedNodes lists the nodes.  Only a forbidden list gives up node data,   *)
(* and with it the node watch; after any other error the watch is tried.   *)
SeedNodesList(answer) ==
  /\ start = "listNodes"
  /\ nodeDataAvailable' = CASE answer = "ok" -> TRUE
                            [] answer = "forbidden" -> FALSE
                            [] answer = "error" -> nodeDataAvailable
  /\ start' = CASE answer = "ok" -> "seedNodes"
                [] answer = "forbidden" -> "listPods"
                [] answer = "error" -> "probeNodes"
  /\ seeds' = IF answer = "ok"
                THEN [seeds EXCEPT !.nodes =
                        {<<n, apiNodes[n].info>> : n \in {m \in Node : apiNodes[m] # Nil}}]
                ELSE seeds
  /\ UNCHANGED <<nodeMapVars, bindingVars, pods, heap, call, held, watchVars, running, nodeCall>>

SeedNode(n, i) ==
  /\ start = "seedNodes"
  /\ <<n, i>> \in seeds.nodes
  /\ seeds' = [seeds EXCEPT !.nodes = @ \ {<<n, i>>}]
  /\ AddNode(Main, n, i)
  /\ start' = "showNode"
  /\ UNCHANGED <<nodeDataAvailable, bindingVars, pods, heap, call, watchVars, running, nodeCall>>

ShowSeededNode ==
  /\ start = "showNode"
  /\ Show(Main)
  /\ held' = [held EXCEPT ![Main] = Nil]
  /\ start' = "seedNodes"
  /\ UNCHANGED <<nodeDataAvailable, bindingVars, pods, heap, call, watchVars, seeds, running, nodeCall>>

SeedNodesDone ==
  /\ start = "seedNodes" /\ seeds.nodes = {}
  /\ start' = "probeNodes"
  /\ UNCHANGED <<clusterVars, watchVars, seeds, running, nodeCall>>

(* canWatchNodes and startNodeWatch, canWatchPods and startPodWatch: a     *)
(* watch whose probe is forbidden is not started.                          *)
StartWatch(step, answer, resource, next) ==
  /\ start = step
  /\ start' = next
  /\ running' = IF answer = "forbidden" THEN running ELSE running \cup {resource}
  /\ UNCHANGED <<clusterVars, watchVars, seeds, nodeCall>>

StartNodeWatch(answer) == StartWatch("probeNodes", answer, "nodes", "listPods")
StartPodWatch(answer) == StartWatch("probePods", answer, "pods", "done")

(* seedPods: terminal pods are skipped; without access to the pods there   *)
(* is neither a watch nor the metrics poller.                              *)
SeedPodsList(answer) ==
  /\ start = "listPods"
  /\ start' = CASE answer = "ok" -> "seedPods"
                [] answer = "forbidden" -> "done"
                [] answer = "error" -> "probePods"
  /\ seeds' = IF answer = "ok"
                THEN [seeds EXCEPT !.pods =
                        {<<k, ContentOf(apiPods[k])>> :
                           k \in {j \in Key : IsLive(apiPods[j])}}]
                ELSE seeds
  /\ UNCHANGED <<clusterVars, watchVars, running, nodeCall>>

SeedPod(k, c, o) ==
  /\ start = "seedPods" /\ At(Main, "idle")
  /\ <<k, c>> \in seeds.pods
  /\ seeds' = [seeds EXCEPT !.pods = @ \ {<<k, c>>}]
  /\ NewPod(k, o, c)
  /\ CallAddPod(Main, k, o)
  /\ UNCHANGED <<nodeDataAvailable, nodeMapVars, bindingVars, pods, held, watchVars, start, running, nodeCall>>

SeedPodsDone ==
  /\ start = "seedPods" /\ At(Main, "idle") /\ seeds.pods = {}
  /\ start' = "probePods"
  /\ UNCHANGED <<clusterVars, watchVars, seeds, running, nodeCall>>

StartStep ==
  \/ \E answer \in Answers :
       SeedNodesList(answer) \/ StartNodeWatch(answer) \/ SeedPodsList(answer) \/ StartPodWatch(answer)
  \/ \E n \in Node, i \in NodeInfo : SeedNode(n, i)
  \/ ShowSeededNode \/ SeedNodesDone
  \/ \E k \in Key, c \in Content, o \in PodObj : SeedPod(k, c, o)
  \/ SeedPodsDone

-----------------------------------------------------------------------------
(* The node watch: one handler at a time, in the informer's goroutine *)

NodeEvent(n) ==
  /\ nodeCall.at = "idle"
  /\ DeliverNode(n)
  /\ UNCHANGED <<nodeDataAvailable, heap, call, startVars>>

NodeAdded(n) ==
  /\ NodeEvent(n)
  /\ nodeSeen[n] = Nil /\ Head(nodeQueue[n]) # Nil
  /\ AddNode(NodeWatch, n, Head(nodeQueue[n]).info)
  /\ nodeCall' = [at |-> "show", node |-> n]
  /\ UNCHANGED <<bindingVars, pods>>

(* The delete event, and an update that says the node is on its way out. *)
NodeLeaves(n) ==
  /\ NodeEvent(n)
  /\ nodeSeen[n] # Nil
  /\ ~Stays(Head(nodeQueue[n]))
  /\ DeleteNode(n)
  /\ UNCHANGED nodeCall

NodeUpdated(n) ==
  /\ NodeEvent(n)
  /\ nodeSeen[n] # Nil
  /\ Stays(Head(nodeQueue[n]))
  /\ nodeCall' = [at |-> "find", node |-> n]
  /\ UNCHANGED <<nodeMapVars, bindingVars, pods, held>>

(* An update of a node the cluster does not know is ignored. *)
FindNodeToUpdate ==
  /\ nodeCall.at = "find"
  /\ FindNode(NodeWatch, nodeCall.node, nodeCall' = [nodeCall EXCEPT !.at = "update"],
                                        nodeCall' = NoNodeCall)
  /\ UNCHANGED <<call, watchVars, startVars>>

(* Mutant: the handler shows the node and does not update it. *)
UpdateNodeShowsOnly ==
  /\ nodeCall.at = "update"
  /\ nodeCall' = [nodeCall EXCEPT !.at = "show"]
  /\ UNCHANGED <<clusterVars, watchVars, startVars>>

UpdateNode ==
  /\ nodeCall.at = "update"
  /\ info' = [info EXCEPT ![held[NodeWatch]] = nodeSeen[nodeCall.node].info]
  /\ nodeCall' = [nodeCall EXCEPT !.at = "show"]
  /\ UNCHANGED <<nodeDataAvailable, registered, visible, bindingVars, pods, heap, call, held,
                 watchVars, startVars>>

ShowNode ==
  /\ nodeCall.at = "show"
  /\ Show(NodeWatch)
  /\ held' = [held EXCEPT ![NodeWatch] = Nil]
  /\ nodeCall' = NoNodeCall
  /\ UNCHANGED <<nodeDataAvailable, bindingVars, pods, heap, call, watchVars, startVars>>

NodeHandler ==
  \/ \E n \in Node : NodeAdded(n) \/ NodeLeaves(n) \/ NodeUpdated(n)
  \/ FindNodeToUpdate \/ UpdateNode \/ ShowNode

-----------------------------------------------------------------------------
(* The pod watch *)

PodEvent(k) ==
  /\ At(PodWatch, "idle")
  /\ DeliverPod(k)
  /\ UNCHANGED <<nodeDataAvailable, nodeMapVars, bindingVars, pods, held, startVars, nodeCall>>

PodAdded(k, o) ==
  /\ PodEvent(k)
  /\ podSeen[k] = Nil
  /\ IsLive(Head(podQueue[k]))
  /\ NewPod(k, o, Head(podQueue[k]))
  /\ CallAddPod(PodWatch, k, o)

EndedPodAdded(k) ==
  /\ PodEvent(k)
  /\ podSeen[k] = Nil /\ Head(podQueue[k]) # Nil
  /\ ~IsLive(Head(podQueue[k]))
  /\ UNCHANGED <<heap, call>>

(* The delete event, and an update to a terminal state. *)
PodLeaves(k) ==
  /\ PodEvent(k)
  /\ podSeen[k] # Nil
  /\ ~IsLive(Head(podQueue[k]))
  /\ CallDeletePod(PodWatch, k)
  /\ UNCHANGED heap

(* Mutant: the update of a terminal pod is an update like any other. *)
PodUpdatedEvenEnded(k) ==
  /\ PodEvent(k)
  /\ podSeen[k] # Nil
  /\ Head(podQueue[k]) # Nil
  /\ call' = [call EXCEPT ![PodWatch] = [at |-> "lookup", key |-> k, obj |-> Nil]]
  /\ UNCHANGED heap

PodUpdated(k) ==
  /\ PodEvent(k)
  /\ podSeen[k] # Nil
  /\ IsLive(Head(podQueue[k]))
  /\ call' = [call EXCEPT ![PodWatch] = [at |-> "lookup", key |-> k, obj |-> Nil]]
  /\ UNCHANGED heap

(* The update handler gets the pod: a new object if the cluster does not   *)
(* have it, else the object it has, which Pod.Update then overwrites.      *)
UpdateUnknownPod(o) ==
  /\ At(PodWatch, "lookup")
  /\ LET k == call[PodWatch].key
     IN  /\ pods[k] = Nil
         /\ NewPod(k, o, podSeen[k])
         /\ CallAddPod(PodWatch, k, o)
  /\ UNCHANGED <<nodeDataAvailable, nodeMapVars, bindingVars, pods, held, watchVars, startVars, nodeCall>>

UpdateKnownPod ==
  /\ At(PodWatch, "lookup")
  /\ LET k == call[PodWatch].key
     IN  /\ pods[k] # Nil
         /\ call' = [call EXCEPT ![PodWatch].at = "update", ![PodWatch].obj = pods[k]]
  /\ UNCHANGED <<storeVars, held, watchVars, startVars, nodeCall>>

(* Mutant: the known pod is added again without Pod.Update. *)
UpdatePodKeepsOld ==
  /\ At(PodWatch, "update")
  /\ Goto(PodWatch, "put")
  /\ UNCHANGED <<storeVars, held, watchVars, startVars, nodeCall>>

UpdatePod ==
  /\ At(PodWatch, "update")
  /\ LET k == call[PodWatch].key
         o == call[PodWatch].obj
     IN  heap' = [heap EXCEPT ![k][o] = ContentOf(podSeen[k])]
  /\ Goto(PodWatch, "put")
  /\ UNCHANGED <<nodeDataAvailable, nodeMapVars, bindingVars, pods, held, watchVars, startVars, nodeCall>>

PodHandler ==
  \/ \E k \in Key :
       \/ \E o \in PodObj : PodAdded(k, o)
       \/ EndedPodAdded(k) \/ PodLeaves(k) \/ PodUpdated(k)
  \/ \E o \in PodObj : UpdateUnknownPod(o)
  \/ UpdateKnownPod \/ UpdatePod

-----------------------------------------------------------------------------

ClusterCall(t) ==
  /\ PodCall(t)
  /\ UNCHANGED <<watchVars, startVars, nodeCall>>

WatchBegins(resource) ==
  /\ resource \in running
  /\ List(resource)
  /\ UNCHANGED <<clusterVars, startVars, nodeCall>>

Environment ==
  /\ ApiChange \/ \E resource \in {"pods", "nodes"} : LoseWatch(resource)
  /\ UNCHANGED <<clusterVars, startVars, nodeCall>>

Next ==
  \/ StartStep
  \/ NodeHandler
  \/ PodHandler
  \/ \E t \in Thread : ClusterCall(t)
  \/ \E resource \in {"pods", "nodes"} : WatchBegins(resource)
  \/ Environment

(* The goroutines are scheduled, the informers deliver, and list again     *)
(* after a lost watch; the API's objects need not change.                  *)
Fairness ==
  /\ WF_vars(StartStep)
  /\ WF_vars(NodeHandler)
  /\ WF_vars(PodHandler)
  /\ \A t \in Thread : WF_vars(ClusterCall(t))
  /\ \A resource \in {"pods", "nodes"} : WF_vars(WatchBegins(resource))

Spec == Init /\ [][Next]_vars
FairSpec == Spec /\ Fairness

-----------------------------------------------------------------------------
(* Correctness *)

Handled(k) == call[PodWatch].key # k
NodeHandled(n) == nodeCall.node # n

(* While a pod lives, the store shows it as the pod watch delivered it     *)
(* last, never an older state, however the seeding, the node watch and     *)
(* lost watches interleave with the handler.                               *)
StoreShowsLastDelivered ==
  \A k \in Key :
    IsLive(podSeen[k]) /\ Handled(k) /\ pods[k] # Nil =>
      heap[k][pods[k]] = ContentOf(podSeen[k])

(* The store implements the table: what the watch said of a pod, and what  *)
(* the object in the pod map holds.                                        *)
Shown(k) == IF pods[k] = Nil THEN Nil ELSE heap[k][pods[k]]
Told(k) == IF IsLive(podSeen[k]) THEN ContentOf(podSeen[k]) ELSE Nil

Table == INSTANCE PodTable
  WITH following <- "pods" \in running,
       told <- [k \in Key |-> Told(k)],
       table <- [k \in Key |-> Shown(k)]

(* The sections of AddPod, DeletePod, Pod.Update and DeleteNode, run by    *)
(* three goroutines, look like single steps to the list: an event takes    *)
(* effect at once and before the next, a node takes all its pods with it   *)
(* at once, and nothing else ever changes what is shown of a pod.          *)
ImplementsPodTable == Table!TableSpec

(* A pod the watch has delivered, and not as terminal, is missing from the *)
(* store only if its node was removed meanwhile: no AddPod is lost to a    *)
(* DeletePod or a DeleteNode of something else.                            *)
LostOnlyWithItsNode ==
  \A k \in Key :
    IsLive(podSeen[k]) /\ Handled(k) /\ pods[k] = Nil =>
      LET n == podSeen[k].node
      IN  n \in gone \/ (n # Nil /\ apiNodes[n] # Nil /\ apiNodes[n].deleting)

(* A pod in the store is a live pod of the API, as soon as the watch has   *)
(* delivered all there is: no deleted or terminal pod lingers in the list. *)
NoPhantomPods ==
  \A k \in Key :
    "pods" \in watching /\ podQueue[k] = <<>> /\ Handled(k) /\ pods[k] # Nil =>
      IsLive(apiPods[k])

(* Once no call on the pod is in progress, a node binds it only if the     *)
(* store has that pod, as the same object, and the pod runs on that node:  *)
(* Node.NumPods and Node.Used count nothing that is not listed under the   *)
(* node.  They may well miss a pod that is: AddPod binds nothing if the    *)
(* node is not registered yet, and no one does until the pod's next event. *)
BindingsMatchStore ==
  \A k \in Key, n \in Node :
    (\A t \in Thread : call[t].key # k) /\ bound[n][k] # Nil =>
      bound[n][k] = pods[k] /\ NodeName(k) = n

(* Node.used is at all times the sum of the requests of the bound pods: no *)
(* order of binds and unbinds counts a pod twice or takes it off twice.    *)
UsedIsSumOfBound ==
  \A n \in Node, k \in Key :
    used[n][k] = IF bound[n][k] = Nil THEN 0 ELSE heap[k][bound[n][k]].req

(* A registered node is hidden only while the goroutine that registered it *)
(* is on its way to show it, so no node and none of its pods stay hidden.  *)
HiddenOnlyInTransit ==
  \A n \in registered \ visible : \E t \in {Main, NodeWatch} : held[t] = n

(* A node the watch has delivered, and that stays, is registered with what *)
(* the watch last said of it, once its event is handled.                   *)
NodesShowLastDelivered ==
  \A n \in Node :
    Stays(nodeSeen[n]) /\ NodeHandled(n) => n \in registered /\ info[n] = nodeSeen[n].info

(* The list the viewer shows: every live pod, as the API has it, unless    *)
(* its node is or was gone, and no other.                                  *)
NodeIsKnown(n) == n = Nil \/ (n \notin gone /\ Stays(apiNodes[n])) \/ ~nodeDataAvailable

ListMirrorsApi ==
  \A k \in Key :
    /\ k \in VisiblePods => IsLive(apiPods[k]) /\ heap[k][pods[k]] = ContentOf(apiPods[k])
    /\ IsLive(apiPods[k]) /\ NodeIsKnown(apiPods[k].node) => k \in VisiblePods

Following == "pods" \in running /\ (nodeDataAvailable => "nodes" \in running)

(* Once the API's objects stop changing, a viewer that follows both        *)
(* resources shows the API's pods and goes on doing so.                    *)
EventuallyMirrors == <>[](Following => ListMirrorsApi)

(* A pod that is gone leaves nothing in the usage of any node. *)
GonePodsUseNothing ==
  \A k \in Key :
    podSeen[k] = Nil /\ pods[k] = Nil /\ (\A t \in Thread : call[t].key # k) =>
      \A n \in Node : used[n][k] = 0
=============================================================================
