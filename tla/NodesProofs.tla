----------------------------- MODULE NodesProofs ------------------------------
(***************************************************************************)
(* Theorems about what comes and goes: no node stays hidden, no pod is     *)
(* lost but with its node, nodes show what was delivered last, and pods    *)
(* that are gone do not linger.                                            *)
(***************************************************************************)
EXTENDS PodsControllerProofs, SequenceTheorems

OrderInv == TypeInv /\ StartOrder /\ FreshInv

LEMMA OrderInvInductive ==
  /\ Init => OrderInv
  /\ OrderInv /\ [Next]_vars => OrderInv'
<1>1. Init => OrderInv
  BY InitTypeInv, InitFresh DEF OrderInv
<1>2. ASSUME OrderInv, Next
      PROVE  OrderInv'
  BY <1>2, NextTypeInv, StartOrderNext, FreshNext DEF OrderInv
<1>3. ASSUME OrderInv, UNCHANGED vars
      PROVE  OrderInv'
  BY <1>3, NextTypeInv
     DEF vars, clusterVars, storeVars, watchVars, podFeed, startVars, StartOrder, FreshInv,
         IsFreshInStore, Handled, At, OrderInv
<1> QED BY <1>1, <1>2, <1>3

-----------------------------------------------------------------------------
(* A hidden node is in the hands of one who is about to show it. *)

ShownNext(n) ==
  \/ start = "showNode" /\ held[Main] = n
  \/ nodeCall.at = "show" /\ held[NodeWatch] = n

Transit == \A n \in registered \ visible : ShownNext(n)

LEMMA TransitNext ==
  ASSUME OrderInv, Transit, Next
  PROVE  Transit'
<1>1. /\ held \in [Thread -> Node \cup {Nil}] /\ {Main, NodeWatch, PodWatch} \subseteq Thread
      /\ Main # NodeWatch /\ Main # PodWatch /\ NodeWatch # PodWatch
      /\ registered \subseteq Node
  BY ThreadsAreThese DEF OrderInv, TypeInv, ClusterInv, ClusterTypeOK
<1>2. nodeCall.at \in NodeSteps
  BY DEF OrderInv, TypeInv, ControllerTypeOK
<1>3. CASE StartStep
  <2>1. ASSUME NEW n \in Node, NEW i \in NodeInfo, SeedNode(n, i)
        PROVE  Transit'
    <3>1. /\ held' = [held EXCEPT ![Main] = n] /\ start = "seedNodes" /\ start' = "showNode"
          /\ registered' = registered \cup {n} /\ UNCHANGED <<visible, nodeCall>>
      BY <2>1 DEF SeedNode, AddNode
    <3> QED BY <1>1, <3>1 DEF Transit, ShownNext
  <2>2. CASE ShowSeededNode
    <3>1. /\ held' = [held EXCEPT ![Main] = Nil] /\ visible' = visible \cup ({held[Main]} \ {Nil})
          /\ start' = "seedNodes" /\ UNCHANGED <<registered, nodeCall>>
      BY <2>2 DEF ShowSeededNode, Show
    <3>2. \A n \in registered : n # Nil
      BY <1>1, NilIsNoName
    <3> QED BY <1>1, <3>1, <3>2 DEF Transit, ShownNext
  <2>3. CASE ~ShowSeededNode /\ ~\E n \in Node, i \in NodeInfo : SeedNode(n, i)
    <3>1. UNCHANGED <<registered, visible, held, nodeCall>> /\ start # "showNode"
      BY <1>3, <2>3
         DEF StartStep, SeedNodesList, SeedPodsList, StartNodeWatch, StartPodWatch, StartWatch,
             SeedNodesDone, SeedPod, SeedPodsDone, clusterVars, storeVars, nodeMapVars
    <3> QED BY <3>1 DEF Transit, ShownNext
  <2> QED BY <2>1, <2>2, <2>3
<1>4. CASE NodeHandler
  <2>1. UNCHANGED start
    BY <1>4 DEF NodeHandler, NodeAdded, NodeLeaves, NodeUpdated, NodeEvent, FindNodeToUpdate,
                UpdateNode, ShowNode, startVars
  <2>2. ASSUME NEW n \in Node, NodeAdded(n)
        PROVE  Transit'
    <3>1. /\ held' = [held EXCEPT ![NodeWatch] = n] /\ nodeCall.at = "idle" /\ nodeCall'.at = "show"
          /\ registered' = registered \cup {n} /\ UNCHANGED visible
      BY <2>2 DEF NodeAdded, NodeEvent, AddNode
    <3> QED BY <1>1, <2>1, <3>1 DEF Transit, ShownNext
  <2>3. ASSUME NEW n \in Node, NodeLeaves(n)
        PROVE  Transit'
    <3>1. /\ held' = [t \in Thread |-> IF held[t] = n THEN Nil ELSE held[t]] /\ nodeCall.at = "idle"
          /\ registered' = registered \ {n} /\ visible' = visible \ {n}
      BY <2>3 DEF NodeLeaves, NodeEvent, DeleteNode
    <3> QED BY <1>1, <2>1, <3>1 DEF Transit, ShownNext
  <2>4. ASSUME NEW n \in Node, NodeUpdated(n)
        PROVE  Transit'
    BY <2>1, <2>4 DEF NodeUpdated, NodeEvent, nodeMapVars, Transit, ShownNext
  <2>5. CASE FindNodeToUpdate \/ UpdateNode
    <3>1. /\ held'[Main] = held[Main] /\ nodeCall.at \in {"find", "update"}
          /\ UNCHANGED <<registered, visible>>
      BY <1>1, <2>5 DEF FindNodeToUpdate, FindNode, UpdateNode, storeVars
    <3> QED BY <2>1, <3>1 DEF Transit, ShownNext
  <2>6. CASE ShowNode
    <3>1. /\ held' = [held EXCEPT ![NodeWatch] = Nil] /\ UNCHANGED registered
          /\ visible' = visible \cup ({held[NodeWatch]} \ {Nil})
      BY <2>6 DEF ShowNode, Show
    <3>2. \A n \in registered : n # Nil
      BY <1>1, NilIsNoName
    <3> QED BY <1>1, <2>1, <3>1, <3>2 DEF Transit, ShownNext
  <2> QED BY <1>4, <2>2, <2>3, <2>4, <2>5, <2>6 DEF NodeHandler
<1>5. ASSUME UNCHANGED <<registered, visible, held, start, nodeCall>>
      PROVE  Transit'
  BY <1>5 DEF Transit, ShownNext
<1>6. CASE PodHandler
  BY <1>5, <1>6
     DEF PodHandler, PodAdded, EndedPodAdded, PodLeaves, PodUpdated, PodEvent, UpdateUnknownPod,
         UpdateKnownPod, UpdatePod, storeVars, nodeMapVars, startVars
<1>7. ASSUME NEW t \in Thread, ClusterCall(t)
      PROVE  Transit'
  <2>1. PodCall(t) /\ UNCHANGED <<start, nodeCall>>
    BY <1>7 DEF ClusterCall, startVars
  <2>2. call[t] # Idle
    BY <2>1, PodCallFrames DEF OrderInv, Idle
  <2>3. t # NodeWatch /\ (t = Main => start # "showNode")
    BY <2>2 DEF OrderInv, StartOrder
  <2>4. UNCHANGED <<registered, visible>> /\ \A u \in Thread : u # t => held'[u] = held[u]
    BY <1>1, <2>1
       DEF PodCall, PutPod, FindNodeToBind, BindPod, GetPodToDelete, FindNodeToUnbind, FindNode,
           UnbindPod, DropPod, storeVars, nodeMapVars
  <2> QED BY <1>1, <2>1, <2>3, <2>4 DEF Transit, ShownNext
<1>8. CASE (\E resource \in {"pods", "nodes"} : WatchBegins(resource)) \/ Environment
  BY <1>5, <1>8 DEF WatchBegins, Environment, clusterVars, storeVars, startVars
<1> QED BY <1>3, <1>4, <1>6, <1>7, <1>8 DEF Next

(* A node is hidden only between its registration and the Show of the same *)
(* goroutine: the two goroutines that register nodes do not keep each      *)
(* other's nodes hidden, and a node that leaves is forgotten by both.      *)
THEOREM HiddenNodesAreShownNext == Spec => []HiddenOnlyInTransit
<1>1. Init => Transit
  BY DEF Init, ClusterInit, Transit
<1>2. Transit /\ UNCHANGED vars => Transit'
  BY DEF vars, clusterVars, storeVars, startVars, Transit, ShownNext
<1>3. Transit => HiddenOnlyInTransit
  BY DEF Transit, ShownNext, HiddenOnlyInTransit
<1>4. OrderInv /\ Transit /\ [Next]_vars => OrderInv' /\ Transit'
  BY <1>2, OrderInvInductive, TransitNext
<1> QED BY <1>1, <1>3, <1>4, OrderInvInductive, PTL DEF Spec

-----------------------------------------------------------------------------
(* What the node watch may still say: a node is said to leave only if it   *)
(* did, or is about to, whatever was lost and listed again.                *)

Removed(n) == n \in gone \/ (n # Nil /\ apiNodes[n] # Nil /\ apiNodes[n].deleting)
Known(n) == apiNodes[n] # Nil \/ n \in gone

Truthful(n, s) == Known(n) /\ (~Stays(s) => Removed(n))

NodeFeedInv ==
  /\ \A n \in Node : nodeSeen[n] # Nil => Known(n)
  /\ \A n \in Node : \A i \in 1..Len(nodeQueue[n]) : Truthful(n, nodeQueue[n][i])

LEMMA SetNodeFeed ==
  ASSUME TypeInv, NodeFeedInv, NEW n \in Node, NEW s \in NodeState \cup {Nil}, SetNode(n, s),
         gone \subseteq gone', gone' \subseteq gone \cup {n},
         s = Nil => n \in gone',
         Removed(n) => n \in gone' \/ s.deleting
  PROVE  NodeFeedInv' /\ \A m \in Node : Removed(m) => Removed(m)'
<1>1. /\ apiNodes \in [Node -> NodeState \cup {Nil}] /\ nodeQueue \in [Node -> Seq(NodeState \cup {Nil})]
      /\ apiNodes' = [apiNodes EXCEPT ![n] = s] /\ UNCHANGED nodeSeen
      /\ nodeQueue' = [nodeQueue EXCEPT ![n] = Append(@, s)] \/ UNCHANGED nodeQueue
  BY DEF SetNode, TypeInv, KubeTypeOK
<1>2. \A m \in Node : (Known(m) => Known(m)') /\ (Removed(m) => Removed(m)')
  BY <1>1, NilIsNoName DEF Known, Removed
<1>3. Truthful(n, s)'
  BY <1>1, NilIsNoName DEF Truthful, Known, Removed, Stays
<1>4. \A m \in Node : \A r : Truthful(m, r) => Truthful(m, r)'
  BY <1>2 DEF Truthful
<1>5. ASSUME NEW m \in Node, NEW i \in 1..Len(nodeQueue'[m]), NEW r, r = nodeQueue'[m][i]
      PROVE  Truthful(m, r)'
  <2>1. CASE nodeQueue'[m] = nodeQueue[m]
    BY <1>4, <1>5, <2>1 DEF NodeFeedInv
  <2>2. CASE m = n /\ nodeQueue'[m] = Append(nodeQueue[m], s)
    <3>1. \/ i \in 1..Len(nodeQueue[m]) /\ nodeQueue'[m][i] = nodeQueue[m][i]
          \/ nodeQueue'[m][i] = s
      BY <1>1, <1>5, <2>2
    <3> QED BY <1>3, <1>4, <1>5, <2>2, <3>1 DEF NodeFeedInv
  <2> QED BY <1>1, <2>1, <2>2
<1> QED BY <1>1, <1>2, <1>5 DEF NodeFeedInv

LEMMA ApiNodeFeed ==
  ASSUME TypeInv, NodeFeedInv, ApiChange
  PROVE  NodeFeedInv' /\ \A m \in Node : Removed(m) => Removed(m)'
<1>1. apiNodes \in [Node -> NodeState \cup {Nil}] /\ gone \subseteq Node
  BY DEF TypeInv, KubeTypeOK
<1>2. ASSUME UNCHANGED <<apiNodes, nodeFeed, gone>>
      PROVE  NodeFeedInv' /\ \A m \in Node : Removed(m) => Removed(m)'
  BY <1>2 DEF NodeFeedInv, Truthful, Known, Removed, nodeFeed
<1>3. ASSUME NEW k \in Key,
             \/ \E r \in Request : CreatePod(k, r) \/ ResizePod(k, r)
             \/ \E n \in Node : SchedulePod(k, n)
             \/ EndPod(k) \/ RemovePod(k)
      PROVE  UNCHANGED <<apiNodes, nodeFeed, gone>>
  BY <1>3 DEF CreatePod, ResizePod, SchedulePod, EndPod, RemovePod, SetPod
<1>4. ASSUME NEW n \in Node, NEW i \in NodeInfo, JoinNode(n, i)
      PROVE  NodeFeedInv' /\ \A m \in Node : Removed(m) => Removed(m)'
  <2>1. [info |-> i, deleting |-> FALSE] \in NodeState
    BY DEF NodeState
  <2> QED BY <1>4, <2>1, SetNodeFeed, NilIsNoObject DEF JoinNode, Removed
<1>5. ASSUME NEW n \in Node, NEW i \in NodeInfo, ChangeNode(n, i)
      PROVE  NodeFeedInv' /\ \A m \in Node : Removed(m) => Removed(m)'
  <2>1. /\ [apiNodes[n] EXCEPT !.info = i] \in NodeState
        /\ [apiNodes[n] EXCEPT !.info = i].deleting = apiNodes[n].deleting
    BY <1>1, <1>5 DEF ChangeNode, NodeState
  <2> QED BY <1>5, <2>1, SetNodeFeed, NilIsNoObject DEF ChangeNode, Removed
<1>6. ASSUME NEW n \in Node, MarkNode(n)
      PROVE  NodeFeedInv' /\ \A m \in Node : Removed(m) => Removed(m)'
  <2>1. /\ [apiNodes[n] EXCEPT !.deleting = TRUE] \in NodeState
        /\ [apiNodes[n] EXCEPT !.deleting = TRUE].deleting
    BY <1>1, <1>6 DEF MarkNode, Stays, NodeState
  <2> QED BY <1>6, <2>1, SetNodeFeed, NilIsNoObject DEF MarkNode
<1>7. ASSUME NEW n \in Node, RemoveNode(n)
      PROVE  NodeFeedInv' /\ \A m \in Node : Removed(m) => Removed(m)'
  BY <1>7, SetNodeFeed DEF RemoveNode
<1> QED BY <1>2, <1>3, <1>4, <1>5, <1>6, <1>7 DEF ApiChange

LEMMA ListNodeFeed ==
  ASSUME TypeInv, NodeFeedInv, ListNodes
  PROVE  NodeFeedInv'
<1>1. /\ nodeQueue \in [Node -> Seq(NodeState \cup {Nil})] /\ apiNodes \in [Node -> NodeState \cup {Nil}]
      /\ nodeQueue' = [n \in Node |-> Catchup(apiNodes[n], nodeSeen[n], nodeQueue[n])]
      /\ UNCHANGED <<apiNodes, gone, nodeSeen>>
  BY DEF ListNodes, apiVars, TypeInv, KubeTypeOK
<1>2. ASSUME NEW n \in Node, NEW i \in 1..Len(nodeQueue'[n])
      PROVE  Truthful(n, nodeQueue'[n][i])
  <2> DEFINE q == nodeQueue[n]
  <2>1. q \in Seq(NodeState \cup {Nil})
    BY <1>1
  <2>2. CASE nodeQueue'[n] = q
    BY <1>2, <2>2 DEF NodeFeedInv
  <2>3. CASE nodeQueue'[n] = Append(q, apiNodes[n]) /\ ~(apiNodes[n] = Nil /\ nodeQueue'[n] = q)
    <3>1. \/ i \in 1..Len(q) /\ nodeQueue'[n][i] = q[i]
          \/ nodeQueue'[n][i] = apiNodes[n]
      BY <1>2, <2>1, <2>3
    <3>2. Known(n)
      <4>1. CASE apiNodes[n] # Nil
        BY <4>1 DEF Known
      <4>2. CASE apiNodes[n] = Nil /\ q = <<>>
        <5>1. nodeSeen[n] # Nil
          BY <1>1, <2>3, <4>2 DEF Catchup
        <5> QED BY <5>1 DEF NodeFeedInv
      <4>3. CASE q # <<>>
        <5>1. 1 \in 1..Len(q)
          BY <2>1, <4>3
        <5> QED BY <5>1 DEF NodeFeedInv, Truthful
      <4> QED BY <4>1, <4>2, <4>3
    <3>3. Truthful(n, apiNodes[n])
      BY <3>2, NilIsNoName DEF Truthful, Known, Removed, Stays
    <3> QED BY <3>1, <3>3 DEF NodeFeedInv
  <2> QED BY <1>1, <2>2, <2>3 DEF Catchup
<1> QED BY <1>1, <1>2 DEF NodeFeedInv, Truthful, Known, Removed

LEMMA NodeFeedNext ==
  ASSUME TypeInv, NodeFeedInv, Next
  PROVE  NodeFeedInv' /\ \A m \in Node : Removed(m) => Removed(m)'
<1>1. ASSUME UNCHANGED <<apiNodes, gone, nodeFeed>>
      PROVE  NodeFeedInv' /\ \A m \in Node : Removed(m) => Removed(m)'
  BY <1>1 DEF NodeFeedInv, Truthful, Known, Removed, nodeFeed
<1>2. CASE StartStep
  BY <1>1, <1>2
     DEF StartStep, SeedNodesList, SeedPodsList, StartNodeWatch, StartPodWatch, StartWatch, SeedNode,
         ShowSeededNode, SeedNodesDone, SeedPod, SeedPodsDone, watchVars, apiVars
<1>3. CASE NodeHandler
  <2>1. ASSUME NEW n \in Node, DeliverNode(n)
        PROVE  NodeFeedInv' /\ \A m \in Node : Removed(m) => Removed(m)'
    <3>1. /\ nodeQueue[n] \in Seq(NodeState \cup {Nil}) /\ nodeQueue[n] # <<>>
          /\ nodeSeen' = [nodeSeen EXCEPT ![n] = nodeQueue[n][1]]
          /\ nodeQueue' = [nodeQueue EXCEPT ![n] = Tail(@)]
          /\ UNCHANGED <<apiNodes, gone>>
      BY <2>1 DEF DeliverNode, apiVars, TypeInv, KubeTypeOK
    <3>2. /\ Truthful(n, nodeQueue[n][1])
          /\ \A i \in 1..Len(Tail(nodeQueue[n])) : Truthful(n, Tail(nodeQueue[n])[i])
      BY <3>1 DEF NodeFeedInv
    <3>3. \A m \in Node : nodeSeen'[m] # Nil => Known(m)
      BY <3>1, <3>2 DEF NodeFeedInv, Truthful, TypeInv, KubeTypeOK
    <3>4. \A m \in Node : \A i \in 1..Len(nodeQueue'[m]) : Truthful(m, nodeQueue'[m][i])
      BY <3>1, <3>2 DEF NodeFeedInv, TypeInv, KubeTypeOK
    <3> QED BY <3>1, <3>3, <3>4 DEF NodeFeedInv, Truthful, Known, Removed
  <2>2. CASE ~\E n \in Node : DeliverNode(n)
    BY <1>1, <1>3, <2>2
       DEF NodeHandler, NodeAdded, NodeLeaves, NodeUpdated, NodeEvent, FindNodeToUpdate, UpdateNode,
           ShowNode, watchVars, apiVars
  <2> QED BY <2>1, <2>2
<1>4. CASE PodHandler
  BY <1>1, <1>4
     DEF PodHandler, PodAdded, EndedPodAdded, PodLeaves, PodUpdated, PodEvent, DeliverPod,
         UpdateUnknownPod, UpdateKnownPod, UpdatePod, watchVars, apiVars
<1>5. CASE \E t \in Thread : ClusterCall(t)
  BY <1>1, <1>5 DEF ClusterCall, watchVars, apiVars
<1>6. ASSUME NEW resource \in {"pods", "nodes"}, WatchBegins(resource)
      PROVE  NodeFeedInv' /\ \A m \in Node : Removed(m) => Removed(m)'
  <2>1. CASE ListPods
    BY <1>1, <2>1 DEF ListPods, apiVars
  <2>2. CASE ListNodes
    BY <2>2, ListNodeFeed DEF ListNodes, apiVars, Removed
  <2> QED BY <1>6, <2>1, <2>2 DEF WatchBegins, List
<1>7. CASE Environment
  BY <1>1, <1>7, ApiNodeFeed DEF Environment, LoseWatch, apiVars
<1> QED BY <1>2, <1>3, <1>4, <1>5, <1>6, <1>7 DEF Next

-----------------------------------------------------------------------------
(* A pod that is missing although it lives has lost its node. *)

Excused(k) == Removed(podSeen[k].node)

Binding == call[PodWatch].at \in {"findToBind", "bind"}
Missing(k) == IsLive(podSeen[k]) /\ pods[k] = Nil /\ (Handled(k) \/ Binding)

LostInv == \A k \in Key : Missing(k) => Excused(k)

LEMMA ExcusedStays ==
  ASSUME TypeInv, NEW k \in Key, IsLive(podSeen[k]), Excused(k), podSeen'[k] = podSeen[k],
         \A m \in Node : Removed(m) => Removed(m)'
  PROVE  Excused(k)'
<1>1. podSeen[k].node \in Node
  BY DEF TypeInv, KubeTypeOK, IsLive, PodState, Excused, Removed
<1> PICK m \in Node : m = podSeen[k].node
  BY <1>1
<1> QED BY DEF Excused, Removed

LEMMA LostUntouched ==
  ASSUME TypeInv, LostInv, UNCHANGED podSeen, call'[PodWatch] = call[PodWatch],
         \A m \in Node : Removed(m) => Removed(m)',
         \A k \in Key : pods'[k] = pods[k] \/ (Missing(k)' => Excused(k)')
  PROVE  LostInv'
<1>1. ASSUME NEW k \in Key, Missing(k)', pods'[k] = pods[k]
      PROVE  Missing(k)
  BY <1>1 DEF Missing, Handled, Binding
<1>2. ASSUME NEW k \in Key, Missing(k)', pods'[k] = pods[k]
      PROVE  Excused(k)'
  BY <1>1, <1>2, ExcusedStays DEF LostInv, Missing
<1> QED BY <1>2 DEF LostInv

LEMMA LostNext ==
  ASSUME OrderInv, NodeFeedInv, LostInv, Next
  PROVE  LostInv'
<1> DEFINE w == call[PodWatch]
<1>1. /\ \A m \in Node : Removed(m) => Removed(m)'
      /\ w \in Frame /\ (w.at = "idle" => w = Idle)
      /\ pods \in [Key -> PodObj \cup {Nil}]
  BY NodeFeedNext, ThreadsDiffer DEF OrderInv, TypeInv, ClusterInv, ClusterTypeOK, StartOrder, At
<1>2. ASSUME UNCHANGED <<podSeen, pods>>, call'[PodWatch] = w
      PROVE  LostInv'
  BY <1>1, <1>2, LostUntouched DEF OrderInv
<1>3. CASE StartStep
  <2>1. call'[PodWatch] = w
    BY <1>3, ThreadsDiffer
       DEF StartStep, SeedNodesList, SeedPodsList, StartNodeWatch, StartPodWatch, StartWatch, SeedNode,
           ShowSeededNode, SeedNodesDone, SeedPod, SeedPodsDone, CallAddPod, clusterVars, OrderInv,
           TypeInv, ClusterInv, ClusterTypeOK
  <2> QED
    BY <1>2, <1>3, <2>1
       DEF StartStep, SeedNodesList, SeedPodsList, StartNodeWatch, StartPodWatch, StartWatch, SeedNode,
           ShowSeededNode, SeedNodesDone, SeedPod, SeedPodsDone, clusterVars, storeVars, watchVars,
           podFeed
<1>4. CASE NodeHandler
  <2>1. UNCHANGED <<call, podSeen, heap>>
    BY <1>4 DEF NodeHandler, NodeAdded, NodeLeaves, NodeUpdated, NodeEvent, DeliverNode,
                FindNodeToUpdate, FindNode, UpdateNode, ShowNode, storeVars, watchVars, podFeed
  <2>2. ASSUME NEW n \in Node, NodeLeaves(n)
        PROVE  LostInv'
    <3>1. Removed(n)'
      <4>1. nodeQueue[n] \in Seq(NodeState \cup {Nil}) /\ nodeQueue[n] # <<>> /\ ~Stays(nodeQueue[n][1])
        BY <2>2 DEF NodeLeaves, NodeEvent, DeliverNode, OrderInv, TypeInv, KubeTypeOK
      <4>2. 1 \in 1..Len(nodeQueue[n])
        BY <4>1
      <4> QED BY <1>1, <4>1, <4>2 DEF NodeFeedInv, Truthful
    <3>2. ASSUME NEW k \in Key, Missing(k)', pods'[k] # pods[k]
          PROVE  Excused(k)'
      <4>1. pods[k] # Nil /\ heap[k][pods[k]].node = n
        BY <2>2, <3>2 DEF NodeLeaves, DeleteNode, NodeName
      <4>2. IsLive(podSeen[k]) /\ (Handled(k) \/ Binding)
        BY <2>1, <3>2 DEF Missing, Handled, Binding
      <4>3. IsFreshInStore(k)
        <5>1. CASE Handled(k)
          BY <4>2, <5>1 DEF OrderInv, FreshInv
        <5>2. CASE ~Handled(k)
          BY <4>2, <5>2 DEF OrderInv, FreshInv, Handled, Binding
        <5> QED BY <5>1, <5>2
      <4>4. podSeen[k].node = n
        BY <4>1, <4>3 DEF IsFreshInStore, ContentOf
      <4>5. podSeen'[k].node = n
        BY <2>1, <4>4
      <4> QED BY <3>1, <4>5 DEF Excused, Removed
    <3> QED BY <1>1, <2>1, <3>2, LostUntouched DEF OrderInv
  <2>3. CASE ~\E n \in Node : NodeLeaves(n)
    <3>1. UNCHANGED pods
      BY <1>4, <2>3 DEF NodeHandler, NodeAdded, NodeUpdated, FindNodeToUpdate, FindNode, UpdateNode,
                        ShowNode, storeVars
    <3> QED BY <1>2, <2>1, <3>1
  <2> QED BY <2>2, <2>3
<1>5. (* A pod that the handler has just heard of, or is working on. *)
      ASSUME NEW k \in Key, \A j \in Key : j # k => podSeen'[j] = podSeen[j] /\ pods'[j] = pods[j],
             w = Idle \/ w.key = k, Missing(k)' => Excused(k)'
      PROVE  LostInv'
  <2>1. ASSUME NEW j \in Key, j # k, Missing(j)'
        PROVE  Excused(j)'
    <3>1. Missing(j)
      BY <1>5, <2>1, NilIsNoName DEF Missing, Handled, Idle
    <3> QED BY <1>1, <1>5, <2>1, <3>1, ExcusedStays DEF LostInv, Missing, OrderInv
  <2> QED BY <1>5, <2>1 DEF LostInv
<1>6. CASE PodHandler
  <2>1. ASSUME NEW k \in Key, PodEvent(k)
        PROVE  /\ w = Idle /\ UNCHANGED pods
               /\ \A j \in Key : j # k => podSeen'[j] = podSeen[j]
               /\ podSeen'[k] = Head(podQueue[k])
    BY <1>1, <2>1 DEF PodEvent, DeliverPod, At, OrderInv, TypeInv, KubeTypeOK
  <2>2. ASSUME NEW k \in Key, NEW o \in PodObj, PodAdded(k, o)
        PROVE  LostInv'
    <3>1. PodEvent(k) /\ call'[PodWatch].at = "put" /\ call'[PodWatch].key = k
      BY <2>2, ThreadsDiffer DEF PodAdded, CallAddPod, OrderInv, TypeInv, ClusterInv, ClusterTypeOK
    <3> QED BY <1>5, <2>1, <3>1 DEF Missing, Handled, Binding
  <2>3. ASSUME NEW k \in Key, EndedPodAdded(k)
        PROVE  LostInv'
    BY <1>5, <2>1, <2>3 DEF EndedPodAdded, Missing
  <2>4. ASSUME NEW k \in Key, PodLeaves(k) \/ PodUpdated(k)
        PROVE  LostInv'
    <3>1. PodEvent(k) /\ call'[PodWatch].at \in {"get", "lookup"} /\ call'[PodWatch].key = k
      BY <2>4, ThreadsDiffer
         DEF PodLeaves, PodUpdated, CallDeletePod, OrderInv, TypeInv, ClusterInv, ClusterTypeOK
    <3> QED BY <1>5, <2>1, <3>1 DEF Missing, Handled, Binding
  <2>5. CASE (\E o \in PodObj : UpdateUnknownPod(o)) \/ UpdateKnownPod \/ UpdatePod
    <3>1. /\ call'[PodWatch].at \in {"put", "update"} /\ call'[PodWatch].key = w.key
          /\ UNCHANGED <<podSeen, pods>>
      BY <2>5, ThreadsDiffer
         DEF UpdateUnknownPod, UpdateKnownPod, UpdatePod, CallAddPod, Goto, OrderInv, TypeInv,
             ClusterInv, ClusterTypeOK, Frame, storeVars, watchVars, podFeed
    <3>2. \A k \in Key : Missing(k)' => Missing(k)
      BY <3>1 DEF Missing, Handled, Binding
    <3> QED BY <1>1, <3>1, <3>2, ExcusedStays DEF LostInv, Missing, OrderInv
  <2> QED BY <1>6, <2>2, <2>3, <2>4, <2>5 DEF PodHandler
<1>7. ASSUME NEW t \in Thread, ClusterCall(t)
      PROVE  LostInv'
  <2>1. PodCall(t) /\ UNCHANGED podSeen
    BY <1>7 DEF ClusterCall, watchVars, podFeed
  <2>2. CASE t # PodWatch
    <3>1. t = Main /\ call[Main] # Idle
      BY <2>1, <2>2, PodCallFrames, ThreadsAreThese DEF OrderInv, StartOrder, Idle
    <3>2. \A k \in Key : podSeen[k] = Nil
      BY <3>1 DEF OrderInv, StartOrder
    <3> QED BY <2>1, <3>2 DEF LostInv, Missing, IsLive
  <2>3. CASE t = PodWatch
    <3>1. w.at # "idle" /\ w.key \in Key
      BY <2>1, <2>3, PodCallFrames, ThreadsDiffer DEF OrderInv, TypeInv, ClusterInv, CallOK
    <3> PICK k \in Key : k = w.key
      BY <3>1
    <3>2. \A j \in Key : j # k => podSeen'[j] = podSeen[j] /\ pods'[j] = pods[j]
      BY <1>1, <2>1, <2>3
         DEF PodCall, PutPod, FindNodeToBind, BindPod, GetPodToDelete, FindNodeToUnbind, FindNode,
             UnbindPod, DropPod, storeVars
    <3>3. CASE PutPod(PodWatch)
      <4>1. pods'[k] # Nil
        BY <1>1, <3>3, ThreadsDiffer
           DEF PutPod, At, OrderInv, TypeInv, ClusterInv, CallOK, WithObject
      <4> QED BY <1>5, <3>2, <4>1 DEF Missing
    <3>4. CASE FindNodeToBind(PodWatch) \/ BindPod(PodWatch)
      <4>1. Binding /\ UNCHANGED pods
        BY <3>4 DEF FindNodeToBind, BindPod, FindNode, At, Binding, storeVars
      <4>2. Missing(k)' => Missing(k)
        BY <2>1, <4>1 DEF Missing
      <4>3. Missing(k)' => Excused(k)'
        BY <1>1, <2>1, <4>2, ExcusedStays DEF LostInv, Missing, OrderInv
      <4> QED BY <1>5, <3>2, <4>3
    <3>5. CASE w.at \in Deleting
      <4>1. ~IsLive(podSeen'[k])
        BY <2>1, <3>5 DEF OrderInv, FreshInv
      <4> QED BY <1>5, <3>2, <4>1 DEF Missing
    <3> QED BY <2>1, <2>3, <3>3, <3>4, <3>5
            DEF PodCall, GetPodToDelete, FindNodeToUnbind, UnbindPod, DropPod, At, Deleting
  <2> QED BY <2>2, <2>3
<1>8. CASE (\E resource \in {"pods", "nodes"} : WatchBegins(resource)) \/ Environment
  <2>1. UNCHANGED <<pods, call>>
    BY <1>8 DEF WatchBegins, Environment, clusterVars, storeVars
  <2>2. UNCHANGED podSeen
    BY <1>8 DEF WatchBegins, List, ListPods, ListNodes, Environment, ApiChange, CreatePod, ResizePod,
                SchedulePod, EndPod, RemovePod, SetPod, JoinNode, ChangeNode, MarkNode, RemoveNode,
                SetNode, LoseWatch, podFeed
  <2> QED BY <1>2, <2>1, <2>2
<1> QED BY <1>3, <1>4, <1>6, <1>7, <1>8 DEF Next

(* No live pod that was delivered is missing from the list unless its node *)
(* was removed, whichever watches were lost and in whatever order the      *)
(* goroutines ran: no AddPod is lost to a call about something else.       *)
THEOREM PodsAreLostOnlyWithTheirNode == Spec => []LostOnlyWithItsNode
<1> DEFINE Inv == OrderInv /\ NodeFeedInv /\ LostInv
<1>1. Init => Inv
  <2>1. Init => NodeFeedInv
    BY DEF Init, KubeInit, NodeFeedInv
  <2>2. Init => LostInv
    BY DEF Init, KubeInit, LostInv, Missing, IsLive
  <2> QED BY <2>1, <2>2, OrderInvInductive
<1>2. Inv /\ [Next]_vars => Inv'
  <2>1. CASE Inv /\ Next
    BY <2>1, OrderInvInductive, NodeFeedNext, LostNext DEF OrderInv
  <2>2. CASE Inv /\ UNCHANGED vars
    BY <2>2, OrderInvInductive
       DEF vars, clusterVars, storeVars, watchVars, apiVars, podFeed, nodeFeed, NodeFeedInv, Truthful,
           Known, Removed, LostInv, Missing, Handled, Binding, Excused
  <2> QED BY <2>1, <2>2
<1>3. Inv => LostOnlyWithItsNode
  BY DEF LostInv, Missing, Excused, Removed, LostOnlyWithItsNode
<1> QED BY <1>1, <1>2, <1>3, PTL DEF Spec

-----------------------------------------------------------------------------
(***************************************************************************)
(* A theorem about what the store says of a node: as long as no watch is   *)
(* lost, every node that stays is registered as the node watch delivered   *)
(* it last, although the handler ignores updates of unknown nodes.         *)
(***************************************************************************)

(* The events of one object, s delivered last and q to come: each is an    *)
(* admissible successor, in R, of the one before.                          *)

LastOf(s, q) == IF q = <<>> THEN s ELSE q[Len(q)]

Chained(R, s, q) ==
  /\ q # <<>> => <<s, q[1]>> \in R
  /\ \A i \in 1..(Len(q) - 1) : <<q[i], q[i + 1]>> \in R

LEMMA TailIs ==
  ASSUME NEW S, NEW q \in Seq(S), q # <<>>
  PROVE  /\ Len(q) \in Nat \ {0} /\ Head(q) = q[1]
         /\ Tail(q) \in Seq(S) /\ Len(Tail(q)) = Len(q) - 1
         /\ \A i \in 1..Len(Tail(q)) : Tail(q)[i] = q[i + 1]
         /\ Tail(q) # <<>> => Len(Tail(q)) \in Nat \ {0}
<1>1. Len(q) \in Nat \ {0} /\ Head(q) = q[1]
  BY EmptySeq
<1>2. /\ Tail(q) \in Seq(S) /\ Len(Tail(q)) = Len(q) - 1
      /\ \A i \in 1..Len(Tail(q)) : Tail(q)[i] = q[i + 1]
  BY HeadTailProperties
<1>3. \A t \in Seq(S) : t # <<>> => Len(t) \in Nat \ {0}
  BY EmptySeq
<1> QED BY <1>1, <1>2, <1>3

LEMMA LastAfterTail ==
  ASSUME NEW S, NEW s, NEW q \in Seq(S), q # <<>>
  PROVE  LastOf(Head(q), Tail(q)) = LastOf(s, q)
<1>1. ASSUME NEW t \in Seq(S), Len(t) = Len(q) - 1, \A i \in 1..Len(t) : t[i] = q[i + 1],
             t # <<>> => Len(t) \in Nat \ {0}
      PROVE  LastOf(q[1], t) = LastOf(s, q)
  BY <1>1, TailIs DEF LastOf
<1>2. LastOf(q[1], Tail(q)) = LastOf(s, q)
  BY <1>1, TailIs, Zenon
<1> QED BY <1>2, TailIs

LEMMA ChainTail ==
  ASSUME NEW S, NEW R, NEW s, NEW q \in Seq(S), q # <<>>, Chained(R, s, q)
  PROVE  <<s, Head(q)>> \in R /\ Chained(R, Head(q), Tail(q))
<1>1. ASSUME NEW t \in Seq(S), Len(t) = Len(q) - 1, \A i \in 1..Len(t) : t[i] = q[i + 1],
             t # <<>> => Len(t) \in Nat \ {0}
      PROVE  Chained(R, q[1], t)
  <2>1. t # <<>> => <<q[1], t[1]>> \in R
    BY <1>1, TailIs DEF Chained
  <2>2. ASSUME NEW i \in 1..(Len(t) - 1)
        PROVE  <<t[i], t[i + 1]>> \in R
    <3>1. i + 1 \in 1..(Len(q) - 1) /\ i \in 1..Len(t) /\ i + 1 \in 1..Len(t)
      BY <1>1, TailIs
    <3>2. <<q[i + 1], q[i + 1 + 1]>> \in R
      BY <3>1 DEF Chained
    <3>3. t[i] = q[i + 1] /\ t[i + 1] = q[i + 1 + 1]
      BY <1>1, <3>1
    <3> QED BY <3>2, <3>3
  <2> QED BY <2>1, <2>2 DEF Chained
<1>2. Chained(R, q[1], Tail(q))
  BY <1>1, TailIs, Zenon
<1> QED BY <1>2, TailIs DEF Chained

LEMMA AppendIs ==
  ASSUME NEW S, NEW q \in Seq(S), NEW x \in S
  PROVE  /\ Append(q, x) # <<>> /\ Len(Append(q, x)) = Len(q) + 1
         /\ Append(q, x)[Len(q) + 1] = x
         /\ \A i \in 1..Len(q) : Append(q, x)[i] = q[i]
         /\ Len(q) \in Nat /\ (q = <<>> <=> Len(q) = 0)
BY EmptySeq

LEMMA LastAfterAppend ==
  ASSUME NEW S, NEW s, NEW q \in Seq(S), NEW x \in S
  PROVE  LastOf(s, Append(q, x)) = x
BY AppendIs DEF LastOf

LEMMA ChainAppend ==
  ASSUME NEW S, NEW R, NEW s, NEW q \in Seq(S), NEW x \in S, Chained(R, s, q),
         <<LastOf(s, q), x>> \in R
  PROVE  Chained(R, s, Append(q, x))
<1>1. <<s, Append(q, x)[1]>> \in R
  BY AppendIs DEF Chained, LastOf
<1>2. ASSUME NEW i \in 1..Len(q)
      PROVE  <<Append(q, x)[i], Append(q, x)[i + 1]>> \in R
  <2>1. CASE i = Len(q)
    BY AppendIs, <2>1 DEF LastOf
  <2>2. CASE i \in 1..(Len(q) - 1)
    BY AppendIs, <2>2 DEF Chained
  <2> QED BY AppendIs, <2>1, <2>2
<1> QED BY <1>1, <1>2, AppendIs DEF Chained

-----------------------------------------------------------------------------
(* A node that is being deleted does not come back without a Nil between. *)

Leaving(s) == s # Nil /\ s.deleting

SomeNode == NodeState \cup {Nil}
NodeChange == {p \in SomeNode \X SomeNode : Leaving(p[1]) => ~Stays(p[2])}

NodeStory ==
  /\ "nodes" \in running => start \notin {"listNodes", "seedNodes", "showNode", "probeNodes"}
  /\ "nodes" \in listed => "nodes" \in watching /\ \A n \in Node : LastOf(nodeSeen[n], nodeQueue[n]) = apiNodes[n]
  /\ "nodes" \notin listed => \A n \in Node : nodeSeen[n] = Nil /\ nodeQueue[n] = <<>>
  /\ \A n \in Node : Chained(NodeChange, nodeSeen[n], nodeQueue[n])

LEMMA NodeStorySet ==
  ASSUME TypeInv, NodeStory, NEW n \in Node, NEW s \in NodeState \cup {Nil}, SetNode(n, s),
         Leaving(apiNodes[n]) => ~Stays(s), UNCHANGED <<start, running>>
  PROVE  NodeStory'
<1>1. /\ apiNodes \in [Node -> NodeState \cup {Nil}] /\ nodeSeen \in [Node -> NodeState \cup {Nil}]
      /\ nodeQueue \in [Node -> Seq(NodeState \cup {Nil})] /\ watching \subseteq listed
  BY DEF TypeInv, KubeTypeOK
<1>2. /\ apiNodes' = [apiNodes EXCEPT ![n] = s] /\ UNCHANGED <<nodeSeen, listed, watching>>
  BY DEF SetNode
<1>3. CASE "nodes" \notin listed
  <2>1. UNCHANGED nodeQueue
    BY <1>1, <1>3 DEF SetNode
  <2> QED BY <1>2, <1>3, <2>1 DEF NodeStory
<1>4. CASE "nodes" \in listed
  <2>1. nodeQueue' = [nodeQueue EXCEPT ![n] = Append(nodeQueue[n], s)]
    BY <1>4 DEF SetNode, NodeStory
  <2>2. <<LastOf(nodeSeen[n], nodeQueue[n]), s>> \in NodeChange
    BY <1>1, <1>4 DEF NodeStory, NodeChange, SomeNode
  <2>3. /\ Chained(NodeChange, nodeSeen[n], Append(nodeQueue[n], s))
        /\ LastOf(nodeSeen[n], Append(nodeQueue[n], s)) = s
    <3>1. nodeQueue[n] \in Seq(NodeState \cup {Nil}) /\ Chained(NodeChange, nodeSeen[n], nodeQueue[n])
      BY <1>1 DEF NodeStory
    <3> QED BY <2>2, <3>1, ChainAppend, LastAfterAppend
  <2>4. \A m \in Node :
          /\ LastOf(nodeSeen'[m], nodeQueue'[m]) = apiNodes'[m]
          /\ Chained(NodeChange, nodeSeen'[m], nodeQueue'[m])
    BY <1>1, <1>2, <1>4, <2>1, <2>3 DEF NodeStory
  <2> QED BY <1>2, <1>4, <2>4 DEF NodeStory
<1> QED BY <1>3, <1>4

LEMMA NodeStoryNext ==
  ASSUME MaxLosses = 0, OrderInv, NodeStory, Next
  PROVE  NodeStory'
<1>1. /\ apiNodes \in [Node -> NodeState \cup {Nil}] /\ nodeSeen \in [Node -> NodeState \cup {Nil}]
      /\ nodeQueue \in [Node -> Seq(NodeState \cup {Nil})] /\ watching \subseteq listed
      /\ losses = 0 /\ TypeInv
  BY DEF OrderInv, TypeInv, KubeTypeOK
<1>2. ASSUME UNCHANGED <<apiNodes, nodeFeed, start, running>>,
             "nodes" \in listed' <=> "nodes" \in listed, "nodes" \in watching' <=> "nodes" \in watching
      PROVE  NodeStory'
  BY <1>2 DEF NodeStory, nodeFeed
<1>3. CASE StartStep
  <2>1. UNCHANGED watchVars
    BY <1>3
       DEF StartStep, SeedNodesList, SeedPodsList, StartNodeWatch, StartPodWatch, StartWatch, SeedNode,
           ShowSeededNode, SeedNodesDone, SeedPod, SeedPodsDone
  <2> DEFINE Late == "nodes" \in running => start \notin {"listNodes", "seedNodes", "showNode", "probeNodes"}
  <2>2. ASSUME NEW answer \in Answers, SeedNodesList(answer) \/ SeedPodsList(answer)
        PROVE  Late'
    BY <2>2, AnswersAreThese DEF SeedNodesList, SeedPodsList, NodeStory
  <2>3. ASSUME NEW answer \in Answers, StartNodeWatch(answer) \/ StartPodWatch(answer)
        PROVE  Late'
    BY <2>3 DEF StartNodeWatch, StartPodWatch, StartWatch, NodeStory
  <2>4. ASSUME \/ \E n \in Node, i \in NodeInfo : SeedNode(n, i)
               \/ ShowSeededNode \/ SeedNodesDone
               \/ \E k \in Key, c \in Content, o \in PodObj : SeedPod(k, c, o)
               \/ SeedPodsDone
        PROVE  Late'
    BY <2>4 DEF SeedNode, ShowSeededNode, SeedNodesDone, SeedPod, SeedPodsDone, NodeStory
  <2>5. Late'
    BY <1>3, <2>2, <2>3, <2>4 DEF StartStep
  <2> QED BY <2>1, <2>5 DEF NodeStory, watchVars, apiVars, nodeFeed
<1>4. CASE NodeHandler
  <2>1. ASSUME NEW n \in Node, NodeEvent(n)
        PROVE  NodeStory'
    <3>1. /\ nodeQueue[n] \in Seq(NodeState \cup {Nil}) /\ nodeQueue[n] # <<>>
          /\ nodeSeen' = [nodeSeen EXCEPT ![n] = Head(nodeQueue[n])]
          /\ nodeQueue' = [nodeQueue EXCEPT ![n] = Tail(nodeQueue[n])]
          /\ UNCHANGED <<apiNodes, listed, watching, start, running>>
      BY <1>1, <2>1 DEF NodeEvent, DeliverNode, apiVars, startVars
    <3>2. /\ Chained(NodeChange, Head(nodeQueue[n]), Tail(nodeQueue[n]))
          /\ LastOf(Head(nodeQueue[n]), Tail(nodeQueue[n])) = LastOf(nodeSeen[n], nodeQueue[n])
      <4>1. nodeQueue[n] \in Seq(NodeState \cup {Nil}) /\ nodeQueue[n] # <<>>
        BY <3>1
      <4>2. Chained(NodeChange, nodeSeen[n], nodeQueue[n])
        BY DEF NodeStory
      <4> QED BY <4>1, <4>2, ChainTail, LastAfterTail
    <3>3. \A m \in Node :
            /\ LastOf(nodeSeen'[m], nodeQueue'[m]) = LastOf(nodeSeen[m], nodeQueue[m])
            /\ Chained(NodeChange, nodeSeen'[m], nodeQueue'[m])
      BY <1>1, <3>1, <3>2 DEF NodeStory
    <3>4. "nodes" \in listed
      BY <3>1 DEF NodeStory
    <3> QED BY <3>1, <3>3, <3>4 DEF NodeStory
  <2>2. CASE FindNodeToUpdate \/ UpdateNode \/ ShowNode
    BY <1>2, <2>2 DEF FindNodeToUpdate, UpdateNode, ShowNode, watchVars, apiVars, startVars
  <2> QED BY <1>4, <2>1, <2>2 DEF NodeHandler, NodeAdded, NodeLeaves, NodeUpdated
<1>5. CASE PodHandler
  BY <1>2, <1>5
     DEF PodHandler, PodAdded, EndedPodAdded, PodLeaves, PodUpdated, PodEvent, DeliverPod,
         UpdateUnknownPod, UpdateKnownPod, UpdatePod, watchVars, apiVars, startVars
<1>6. CASE \E t \in Thread : ClusterCall(t)
  BY <1>2, <1>6 DEF ClusterCall, watchVars, apiVars, startVars
<1>7. ASSUME NEW resource \in {"pods", "nodes"}, WatchBegins(resource)
      PROVE  NodeStory'
  <2>1. CASE resource = "pods"
    BY <1>2, <1>7, <2>1 DEF WatchBegins, List, ListPods, apiVars, startVars
  <2>2. CASE resource = "nodes"
    <3>1. /\ UNCHANGED <<apiNodes, nodeSeen, start, running>>
          /\ nodeQueue' = [n \in Node |-> Catchup(apiNodes[n], nodeSeen[n], nodeQueue[n])]
          /\ "nodes" \in listed' /\ "nodes" \in watching' /\ "nodes" \notin listed
      BY <1>7, <2>2 DEF WatchBegins, List, ListNodes, apiVars, startVars, NodeStory
    <3>2. ASSUME NEW n \in Node
          PROVE  /\ LastOf(nodeSeen[n], nodeQueue'[n]) = apiNodes[n]
                 /\ Chained(NodeChange, nodeSeen[n], nodeQueue'[n])
      <4>1. nodeSeen[n] = Nil /\ nodeQueue[n] = <<>> /\ Chained(NodeChange, nodeSeen[n], nodeQueue[n])
        BY <3>1 DEF NodeStory
      <4>2. CASE apiNodes[n] = Nil
        BY <3>1, <4>1, <4>2 DEF Catchup, LastOf
      <4>3. CASE apiNodes[n] # Nil
        <5>1. nodeQueue'[n] = Append(nodeQueue[n], apiNodes[n]) /\ apiNodes[n] \in NodeState \cup {Nil}
          BY <1>1, <3>1, <4>1, <4>3 DEF Catchup
        <5>2. <<LastOf(nodeSeen[n], nodeQueue[n]), apiNodes[n]>> \in NodeChange
          BY <4>1, <5>1 DEF LastOf, NodeChange, SomeNode, Leaving
        <5>3. nodeQueue[n] \in Seq(SomeNode) /\ apiNodes[n] \in SomeNode
          BY <1>1 DEF SomeNode
        <5>4. LastOf(nodeSeen[n], Append(nodeQueue[n], apiNodes[n])) = apiNodes[n]
          BY <5>3, LastAfterAppend
        <5>5. Chained(NodeChange, nodeSeen[n], Append(nodeQueue[n], apiNodes[n]))
          BY <4>1, <5>2, <5>3, ChainAppend
        <5> QED BY <5>1, <5>4, <5>5
      <4> QED BY <4>2, <4>3
    <3> QED BY <3>1, <3>2 DEF NodeStory
  <2> QED BY <2>1, <2>2
<1>8. CASE Environment
  <2>1. UNCHANGED <<start, running>>
    BY <1>8 DEF Environment, startVars
  <2>2. ASSUME NEW k \in Key,
               \/ \E r \in Request : CreatePod(k, r) \/ ResizePod(k, r)
               \/ \E n \in Node : SchedulePod(k, n)
               \/ EndPod(k) \/ RemovePod(k)
        PROVE  NodeStory'
    <3>1. UNCHANGED <<apiNodes, nodeFeed, listed, watching>>
      BY <2>2 DEF CreatePod, ResizePod, SchedulePod, EndPod, RemovePod, SetPod
    <3> QED BY <1>2, <2>1, <3>1
  <2>3. ASSUME NEW n \in Node, NEW i \in NodeInfo, JoinNode(n, i)
        PROVE  NodeStory'
    <3>1. [info |-> i, deleting |-> FALSE] \in NodeState
      BY DEF NodeState
    <3> QED BY <1>1, <2>1, <2>3, <3>1, NodeStorySet DEF JoinNode, Leaving
  <2>4. ASSUME NEW n \in Node, NEW i \in NodeInfo, ChangeNode(n, i)
        PROVE  NodeStory'
    <3>1. /\ [apiNodes[n] EXCEPT !.info = i] \in NodeState
          /\ [apiNodes[n] EXCEPT !.info = i].deleting = apiNodes[n].deleting
      BY <1>1, <2>4 DEF ChangeNode, NodeState
    <3> QED BY <1>1, <2>1, <2>4, <3>1, NodeStorySet DEF ChangeNode, Leaving, Stays
  <2>5. ASSUME NEW n \in Node, MarkNode(n)
        PROVE  NodeStory'
    <3>1. [apiNodes[n] EXCEPT !.deleting = TRUE] \in NodeState
      BY <1>1, <2>5 DEF MarkNode, Stays, NodeState
    <3> QED BY <1>1, <2>1, <2>5, <3>1, NodeStorySet DEF MarkNode, Leaving, Stays
  <2>6. ASSUME NEW n \in Node, RemoveNode(n)
        PROVE  NodeStory'
    BY <1>1, <2>1, <2>6, NodeStorySet DEF RemoveNode, Stays
  <2>7. ASSUME NEW resource \in {"pods", "nodes"}, LoseWatch(resource)
        PROVE  FALSE
    BY <1>1, <2>7 DEF LoseWatch
  <2> QED BY <1>8, <2>2, <2>3, <2>4, <2>5, <2>6, <2>7 DEF Environment, ApiChange
<1> QED BY <1>3, <1>4, <1>5, <1>6, <1>7, <1>8 DEF Next

-----------------------------------------------------------------------------
(* The handler knows the nodes that stay, and forgets those that leave.    *)

NodesFresh ==
  /\ \A n \in Node :
       Stays(nodeSeen[n]) /\ NodeHandled(n) => n \in registered /\ info[n] = nodeSeen[n].info
  /\ nodeCall.at = "idle" => nodeCall = NoNodeCall
  /\ nodeCall.at # "idle" => nodeCall.node \in Node /\ nodeSeen[nodeCall.node] # Nil
  /\ nodeCall.at = "find" => nodeCall.node \in registered
  /\ nodeCall.at = "update" => held[NodeWatch] = nodeCall.node
  /\ nodeCall.at = "show" =>
       nodeCall.node \in registered /\ info[nodeCall.node] = nodeSeen[nodeCall.node].info

LEMMA NodesFreshNext ==
  ASSUME OrderInv, NodeStory, NodesFresh, Next
  PROVE  NodesFresh'
<1>1. /\ nodeSeen \in [Node -> NodeState \cup {Nil}] /\ nodeQueue \in [Node -> Seq(NodeState \cup {Nil})]
      /\ registered \subseteq Node /\ info \in [Node -> NodeInfo \cup {Nil}] /\ held \in [Thread -> Node \cup {Nil}]
      /\ nodeCall \in [at : NodeSteps, node : Node \cup {Nil}] /\ call[NodeWatch] = Idle
      /\ NodeWatch \in Thread /\ Main \in Thread /\ PodWatch \in Thread
      /\ Main # NodeWatch /\ PodWatch # NodeWatch
  BY ThreadsAreThese
     DEF OrderInv, StartOrder, TypeInv, ClusterInv, ClusterTypeOK, KubeTypeOK, ControllerTypeOK
<1>2. ASSUME UNCHANGED <<nodeSeen, nodeCall, registered, info>>, held'[NodeWatch] = held[NodeWatch]
      PROVE  NodesFresh'
  BY <1>2 DEF NodesFresh, NodeHandled
<1>3. CASE StartStep
  <2>1. ASSUME NEW n \in Node, NEW i \in NodeInfo, SeedNode(n, i)
        PROVE  NodesFresh'
    <3>1. "nodes" \notin listed
      BY <2>1 DEF SeedNode, NodeStory, OrderInv, StartOrder
    <3>2. \A m \in Node : nodeSeen[m] = Nil
      BY <3>1 DEF NodeStory
    <3>3. UNCHANGED <<nodeSeen, nodeCall>>
      BY <2>1 DEF SeedNode, watchVars, nodeFeed
    <3>4. nodeCall = NoNodeCall
      BY <3>2 DEF NodesFresh
    <3> QED BY <3>2, <3>3, <3>4 DEF NodesFresh, NoNodeCall, Stays
  <2>2. CASE ~\E n \in Node, i \in NodeInfo : SeedNode(n, i)
    <3>1. /\ UNCHANGED <<nodeSeen, nodeCall, registered, info>>
          /\ held'[NodeWatch] = held[NodeWatch]
      BY <1>1, <1>3, <2>2
         DEF StartStep, SeedNodesList, SeedPodsList, StartNodeWatch, StartPodWatch, StartWatch,
             ShowSeededNode, Show, SeedNodesDone, SeedPod, SeedPodsDone, watchVars, nodeFeed, clusterVars,
             storeVars, nodeMapVars
    <3> QED BY <1>2, <3>1
  <2> QED BY <2>1, <2>2
<1>4. ASSUME NEW n \in Node, NodeEvent(n)
      PROVE  /\ nodeCall = NoNodeCall /\ nodeSeen' = [nodeSeen EXCEPT ![n] = Head(nodeQueue[n])]
             /\ <<nodeSeen[n], Head(nodeQueue[n])>> \in NodeChange
             /\ \A m \in Node : NodeHandled(m)
  <2>1. nodeCall = NoNodeCall
    BY <1>4 DEF NodeEvent, NodesFresh
  <2>2. nodeQueue[n] \in Seq(NodeState \cup {Nil}) /\ nodeQueue[n] # <<>>
    BY <1>1, <1>4 DEF NodeEvent, DeliverNode
  <2>3. <<nodeSeen[n], Head(nodeQueue[n])>> \in NodeChange
    BY <2>2, EmptySeq DEF NodeStory, Chained
  <2>4. \A m \in Node : NodeHandled(m)
    BY <2>1, NilIsNoName DEF NodeHandled, NoNodeCall
  <2> QED BY <1>4, <2>1, <2>3, <2>4 DEF NodeEvent, DeliverNode
<1>5. ASSUME NEW n \in Node, NodeAdded(n)
      PROVE  NodesFresh'
  <2>1. /\ NodeEvent(n) /\ Head(nodeQueue[n]) # Nil
        /\ registered' = registered \cup {n}
        /\ info' = [info EXCEPT ![n] = Head(nodeQueue[n]).info]
        /\ nodeCall' = [at |-> "show", node |-> n]
    BY <1>5 DEF NodeAdded, AddNode
  <2> PICK s : s = Head(nodeQueue[n])
    OBVIOUS
  <2>2. /\ s # Nil /\ nodeSeen' = [nodeSeen EXCEPT ![n] = s] /\ info' = [info EXCEPT ![n] = s.info]
        /\ registered' = registered \cup {n} /\ nodeCall' = [at |-> "show", node |-> n]
    BY <1>4, <2>1
  <2>3. \A m \in Node : Stays(nodeSeen[m]) => m \in registered /\ info[m] = nodeSeen[m].info
    BY <1>4, <2>1 DEF NodesFresh
  <2> QED BY <1>1, <2>2, <2>3 DEF NodesFresh, NodeHandled
<1>6. ASSUME NEW n \in Node, NodeLeaves(n)
      PROVE  NodesFresh'
  <2>1. /\ NodeEvent(n) /\ ~Stays(Head(nodeQueue[n])) /\ UNCHANGED nodeCall
        /\ registered' = registered \ {n} /\ info' = [info EXCEPT ![n] = Nil]
    BY <1>6 DEF NodeLeaves, DeleteNode
  <2>2. \A m \in Node : Stays(nodeSeen[m]) => m \in registered /\ info[m] = nodeSeen[m].info
    BY <1>4, <2>1 DEF NodesFresh
  <2>3. nodeCall' = NoNodeCall /\ ~Stays(nodeSeen'[n]) /\ \A m \in Node : m # n => nodeSeen'[m] = nodeSeen[m]
    BY <1>1, <1>4, <2>1
  <2> QED BY <1>1, <2>1, <2>2, <2>3 DEF NodesFresh, NoNodeCall
<1>7. ASSUME NEW n \in Node, NodeUpdated(n)
      PROVE  NodesFresh'
  <2>1. /\ NodeEvent(n) /\ nodeSeen[n] # Nil /\ Stays(Head(nodeQueue[n]))
        /\ nodeCall' = [at |-> "find", node |-> n] /\ UNCHANGED <<registered, info>>
    BY <1>7 DEF NodeUpdated, nodeMapVars
  <2>2. Stays(nodeSeen[n])
    BY <1>4, <2>1 DEF NodeChange, Leaving, Stays
  <2>3. n \in registered
    BY <1>4, <2>1, <2>2 DEF NodesFresh
  <2> QED BY <1>1, <1>4, <2>1, <2>3 DEF NodesFresh, NodeHandled, Stays
<1>8. CASE FindNodeToUpdate
  <2>1. nodeCall.at = "find" /\ nodeCall.node \in registered /\ nodeCall.node \in Node
    BY <1>8 DEF FindNodeToUpdate, NodesFresh
  <2>2. /\ held'[NodeWatch] = nodeCall.node /\ nodeCall' = [nodeCall EXCEPT !.at = "update"]
        /\ UNCHANGED <<nodeSeen, registered, info>>
    BY <1>1, <1>8, <2>1 DEF FindNodeToUpdate, FindNode, storeVars, watchVars, nodeFeed
  <2> QED BY <1>1, <2>1, <2>2 DEF NodesFresh, NodeHandled
<1>9. CASE UpdateNode
  <2>1. /\ nodeCall.at = "update" /\ held[NodeWatch] = nodeCall.node /\ nodeCall.node \in Node
        /\ nodeCall.node \in registered
    BY <1>1, <1>9, NilIsNoName
       DEF UpdateNode, NodesFresh, OrderInv, TypeInv, ClusterInv, References
  <2>2. /\ info' = [info EXCEPT ![nodeCall.node] = nodeSeen[nodeCall.node].info]
        /\ nodeCall' = [nodeCall EXCEPT !.at = "show"] /\ UNCHANGED <<nodeSeen, registered>>
    BY <1>9, <2>1 DEF UpdateNode, watchVars, nodeFeed
  <2> QED BY <1>1, <2>1, <2>2 DEF NodesFresh, NodeHandled
<1>10. CASE ShowNode
  <2>1. /\ nodeCall.at = "show" /\ nodeCall' = NoNodeCall /\ UNCHANGED <<nodeSeen, registered, info>>
    BY <1>10 DEF ShowNode, Show, watchVars, nodeFeed
  <2>2. \A n \in Node : Stays(nodeSeen[n]) => n \in registered /\ info[n] = nodeSeen[n].info
    BY <2>1 DEF NodesFresh, NodeHandled
  <2> QED BY <2>1, <2>2 DEF NodesFresh, NoNodeCall
<1>11. CASE NodeHandler
  BY <1>5, <1>6, <1>7, <1>8, <1>9, <1>10, <1>11 DEF NodeHandler
<1>12. CASE PodHandler
  <2>1. UNCHANGED <<nodeSeen, nodeCall, registered, info, held>>
    BY <1>12
       DEF PodHandler, PodAdded, EndedPodAdded, PodLeaves, PodUpdated, PodEvent, DeliverPod,
           UpdateUnknownPod, UpdateKnownPod, UpdatePod, watchVars, nodeFeed, storeVars, nodeMapVars
  <2> QED BY <1>2, <2>1
<1>13. ASSUME NEW t \in Thread, ClusterCall(t)
       PROVE  NodesFresh'
  <2>1. PodCall(t) /\ UNCHANGED <<nodeSeen, nodeCall>>
    BY <1>13 DEF ClusterCall, watchVars, nodeFeed
  <2>2. t # NodeWatch
    BY <1>1, <2>1, PodCallFrames DEF OrderInv, Idle
  <2>3. UNCHANGED <<registered, info>> /\ held'[NodeWatch] = held[NodeWatch]
    BY <1>1, <2>1, <2>2
       DEF PodCall, PutPod, FindNodeToBind, BindPod, GetPodToDelete, FindNodeToUnbind, FindNode,
           UnbindPod, DropPod, storeVars, nodeMapVars
  <2> QED BY <1>2, <2>1, <2>3
<1>14. CASE \E resource \in {"pods", "nodes"} : WatchBegins(resource)
  BY <1>2, <1>14
     DEF WatchBegins, List, ListPods, ListNodes, clusterVars, storeVars, nodeFeed
<1>15. CASE Environment
  <2>1. UNCHANGED <<nodeSeen, nodeCall, registered, info, held>>
    BY <1>15
       DEF Environment, ApiChange, CreatePod, ResizePod, SchedulePod, EndPod, RemovePod, SetPod,
           JoinNode, ChangeNode, MarkNode, RemoveNode, SetNode, LoseWatch, clusterVars, storeVars, nodeFeed
  <2> QED BY <1>2, <2>1
<1> QED BY <1>3, <1>11, <1>12, <1>13, <1>14, <1>15 DEF Next

-----------------------------------------------------------------------------

(* Every node that stays is registered with what the watch said last, if   *)
(* no watch is lost: an event that adds a node is never turned into an     *)
(* update of an unknown one, and seeding never overwrites what was         *)
(* delivered.                                                              *)
THEOREM NodesFollowWatch == MaxLosses = 0 /\ Spec => []NodesShowLastDelivered
<1> DEFINE Inv == OrderInv /\ NodeStory /\ NodesFresh
<1> SUFFICES ASSUME MaxLosses = 0 PROVE Spec => []NodesShowLastDelivered
  OBVIOUS
<1>1. Init => Inv
  <2>1. Init => NodeStory
    BY DEF Init, KubeInit, NodeStory, Chained
  <2>2. Init => NodesFresh
    BY DEF Init, KubeInit, NodesFresh, NoNodeCall, Stays
  <2> QED BY <2>1, <2>2, OrderInvInductive
<1>2. Inv /\ [Next]_vars => Inv'
  <2>1. CASE Inv /\ Next
    BY <2>1, OrderInvInductive, NodeStoryNext, NodesFreshNext
  <2>2. CASE Inv /\ UNCHANGED vars
    BY <2>2, OrderInvInductive
       DEF vars, clusterVars, storeVars, watchVars, apiVars, nodeFeed, startVars, NodeStory,
           NodesFresh, NodeHandled
  <2> QED BY <2>1, <2>2
<1>3. Inv => NodesShowLastDelivered
  BY DEF NodesFresh, NodesShowLastDelivered
<1> QED BY <1>1, <1>2, <1>3, PTL DEF Spec

-----------------------------------------------------------------------------
(***************************************************************************)
(* A theorem about pods that are gone: when no object changes between the  *)
(* list that seeds the store and the first list of the informers, none of  *)
(* them lingers in the store.                                              *)
(***************************************************************************)

(* What the pod watch will have said when its queue is empty. *)
LastSaid(k) == IF podQueue[k] = <<>> THEN podSeen[k] ELSE podQueue[k][Len(podQueue[k])]

UpToDate == "pods" \in watching => \A k \in Key : LastSaid(k) = apiPods[k]

(* Before the informer lists, what was seeded is what the API has. *)
SeedsLive ==
  "pods" \notin listed =>
    /\ \A k \in Key : pods[k] # Nil => IsLive(apiPods[k])
    /\ \A s \in seeds.pods : IsLive(apiPods[s[1]])
    /\ call[Main] # Idle => IsLive(apiPods[call[Main].key])

(* After that, a pod of the store was delivered, or is the next to be. *)
Announced(k) == podSeen[k] = Nil /\ podQueue[k] # <<>> /\ IsLive(Head(podQueue[k]))

Expected == "pods" \in listed =>
  \A k \in Key : pods[k] # Nil /\ Handled(k) => IsLive(podSeen[k]) \/ Announced(k)

-----------------------------------------------------------------------------

LEMMA ApiChangesOnePod ==
  ASSUME ApiChange
  PROVE  /\ UNCHANGED <<podSeen, listed, watching>>
         /\ \/ UNCHANGED <<apiPods, podQueue>>
            \/ \E k \in Key : \E s : SetPod(k, s)
BY DEF ApiChange, CreatePod, SchedulePod, ResizePod, EndPod, RemovePod, SetPod, JoinNode, ChangeNode,
       MarkNode, RemoveNode, SetNode, podFeed

LEMMA LastOfAppend ==
  ASSUME NEW S, NEW q \in Seq(S), NEW s \in S
  PROVE  Append(q, s) # <<>> /\ Append(q, s)[Len(Append(q, s))] = s
OBVIOUS

LEMMA LastOfTail ==
  ASSUME NEW S, NEW q \in Seq(S), q # <<>>
  PROVE  IF Tail(q) = <<>> THEN Head(q) = q[Len(q)] ELSE Tail(q)[Len(Tail(q))] = q[Len(q)]
<1>1. Len(q) \in Nat \ {0} /\ Head(q) = q[1]
  BY EmptySeq
<1>2. ASSUME NEW t \in Seq(S), Len(t) = Len(q) - 1, \A i \in 1..Len(t) : t[i] = q[i + 1]
      PROVE  IF t = <<>> THEN q[1] = q[Len(q)] ELSE t[Len(t)] = q[Len(q)]
  <2>1. t = <<>> => Len(t) = 0
    OBVIOUS
  <2>2. t # <<>> => Len(t) \in Nat \ {0}
    BY EmptySeq
  <2> QED BY <1>1, <1>2, <2>1, <2>2
<1>3. /\ Tail(q) \in Seq(S) /\ Len(Tail(q)) = Len(q) - 1
      /\ \A i \in 1..Len(Tail(q)) : Tail(q)[i] = q[i + 1]
  BY HeadTailProperties
<1>4. IF Tail(q) = <<>> THEN q[1] = q[Len(q)] ELSE Tail(q)[Len(Tail(q))] = q[Len(q)]
  BY <1>2, <1>3, Zenon
<1> QED BY <1>1, <1>4

LEMMA UpToDateNext ==
  ASSUME TypeInv, UpToDate, Next
  PROVE  UpToDate'
<1>1. /\ apiPods \in [Key -> PodState \cup {Nil}] /\ podSeen \in [Key -> PodState \cup {Nil}]
      /\ podQueue \in [Key -> Seq(PodState \cup {Nil})] /\ apiPods' \in [Key -> PodState \cup {Nil}]
  BY NextTypeInv DEF TypeInv, KubeTypeOK
<1>2. ASSUME UNCHANGED <<apiPods, podSeen, podQueue>>, "pods" \in watching' => "pods" \in watching
      PROVE  UpToDate'
  BY <1>2 DEF UpToDate, LastSaid
<1>3. ASSUME UNCHANGED watchVars
      PROVE  UpToDate'
  BY <1>2, <1>3 DEF watchVars, apiVars, podFeed
<1>4. ASSUME NEW k \in Key, DeliverPod(k)
      PROVE  UpToDate'
  <2> DEFINE q == podQueue[k]
  <2>1. /\ q \in Seq(PodState \cup {Nil}) /\ q # <<>>
        /\ podSeen' = [podSeen EXCEPT ![k] = Head(q)] /\ podQueue' = [podQueue EXCEPT ![k] = Tail(q)]
        /\ UNCHANGED <<apiPods, watching>>
    BY <1>1, <1>4 DEF DeliverPod, apiVars
  <2>2. IF Tail(q) = <<>> THEN Head(q) = q[Len(q)] ELSE Tail(q)[Len(Tail(q))] = q[Len(q)]
    BY <2>1, LastOfTail
  <2>3. LastSaid(k)' = LastSaid(k)
    BY <1>1, <2>1, <2>2 DEF LastSaid
  <2>4. \A j \in Key : j # k => LastSaid(j)' = LastSaid(j)
    BY <1>1, <2>1 DEF LastSaid
  <2> QED BY <2>1, <2>3, <2>4 DEF UpToDate
<1>5. ASSUME NEW k \in Key, NEW s, SetPod(k, s)
      PROVE  UpToDate'
  <2> SUFFICES ASSUME "pods" \in watching'
               PROVE  \A j \in Key : LastSaid(j)' = apiPods'[j]
    BY DEF UpToDate
  <2>1. /\ "pods" \in watching /\ UNCHANGED podSeen
        /\ apiPods' = [apiPods EXCEPT ![k] = s]
        /\ podQueue' = [podQueue EXCEPT ![k] = Append(podQueue[k], s)]
    BY <1>5 DEF SetPod
  <2>2. /\ Append(podQueue[k], s) # <<>>
        /\ Append(podQueue[k], s)[Len(Append(podQueue[k], s))] = s
    <3>1. s \in PodState \cup {Nil} /\ podQueue[k] \in Seq(PodState \cup {Nil})
      BY <1>1, <2>1
    <3> QED BY <3>1, LastOfAppend
  <2>3. LastSaid(k)' = apiPods'[k]
    BY <1>1, <2>1, <2>2 DEF LastSaid
  <2>4. \A j \in Key : j # k => LastSaid(j)' = apiPods'[j]
    BY <1>1, <2>1 DEF LastSaid, UpToDate
  <2> QED BY <2>3, <2>4
<1>6. CASE ListPods
  <2>1. ASSUME NEW k \in Key
        PROVE  LastSaid(k)' = apiPods'[k]
    <3> DEFINE q == podQueue[k]
    <3>1. /\ q \in Seq(PodState \cup {Nil}) /\ podQueue'[k] = Catchup(apiPods[k], podSeen[k], q)
          /\ UNCHANGED <<apiPods, podSeen>>
      BY <1>1, <1>6 DEF ListPods, apiVars
    <3>2. CASE podQueue'[k] = q /\ LastSaid(k) = Nil /\ apiPods[k] = Nil
      BY <3>1, <3>2 DEF LastSaid
    <3>3. CASE podQueue'[k] = Append(q, apiPods[k])
      <4>1. Append(q, apiPods[k]) # <<>> /\ Append(q, apiPods[k])[Len(Append(q, apiPods[k]))] = apiPods[k]
        BY <3>1
      <4> QED BY <3>1, <3>3, <4>1 DEF LastSaid
    <3> QED BY <3>1, <3>2, <3>3 DEF Catchup, LastSaid
  <2> QED BY <2>1 DEF UpToDate
<1>7. CASE StartStep
  BY <1>3, <1>7
     DEF StartStep, SeedNodesList, SeedPodsList, StartNodeWatch, StartPodWatch, StartWatch, SeedNode,
         ShowSeededNode, SeedNodesDone, SeedPod, SeedPodsDone
<1>8. CASE NodeHandler
  BY <1>2, <1>8
     DEF NodeHandler, NodeAdded, NodeLeaves, NodeUpdated, NodeEvent, DeliverNode, FindNodeToUpdate,
         UpdateNode, ShowNode, watchVars, apiVars, podFeed
<1>9. CASE PodHandler
  BY <1>3, <1>4, <1>9
     DEF PodHandler, PodAdded, EndedPodAdded, PodLeaves, PodUpdated, PodEvent, UpdateUnknownPod,
         UpdateKnownPod, UpdatePod
<1>10. CASE \E t \in Thread : ClusterCall(t)
  BY <1>3, <1>10 DEF ClusterCall
<1>11. CASE \E resource \in {"pods", "nodes"} : WatchBegins(resource)
  BY <1>2, <1>6, <1>11 DEF WatchBegins, List, ListNodes, apiVars, podFeed
<1>12. CASE Environment
  BY <1>2, <1>5, <1>12, ApiChangesOnePod DEF Environment, LoseWatch, apiVars, podFeed
<1> QED BY <1>7, <1>8, <1>9, <1>10, <1>11, <1>12 DEF Next

-----------------------------------------------------------------------------
(* Until the informer lists, nothing changes but by the seeding and by a    *)
(* node that takes its pods along.                                          *)

LEMMA EarlyNext ==
  ASSUME ~CanChangeEarly, Next, "pods" \notin listed'
  PROVE  "pods" \notin listed /\ UNCHANGED apiPods
<1>1. CASE StartStep
  BY <1>1
     DEF StartStep, SeedNodesList, SeedPodsList, StartNodeWatch, StartPodWatch, StartWatch, SeedNode,
         ShowSeededNode, SeedNodesDone, SeedPod, SeedPodsDone, watchVars, apiVars
<1>2. CASE NodeHandler
  BY <1>2
     DEF NodeHandler, NodeAdded, NodeLeaves, NodeUpdated, NodeEvent, DeliverNode, FindNodeToUpdate,
         UpdateNode, ShowNode, watchVars, apiVars
<1>3. CASE PodHandler
  BY <1>3
     DEF PodHandler, PodAdded, EndedPodAdded, PodLeaves, PodUpdated, PodEvent, DeliverPod,
         UpdateUnknownPod, UpdateKnownPod, UpdatePod, watchVars, apiVars
<1>4. CASE \E t \in Thread : ClusterCall(t)
  BY <1>4 DEF ClusterCall, watchVars, apiVars
<1>5. CASE \E resource \in {"pods", "nodes"} : WatchBegins(resource)
  BY <1>5 DEF WatchBegins, List, ListPods, ListNodes, apiVars
<1>6. CASE Environment
  BY <1>6, ApiChangesOnePod DEF Environment, LoseWatch, SetPod, Change, apiVars
<1> QED BY <1>1, <1>2, <1>3, <1>4, <1>5, <1>6 DEF Next

LEMMA SeedsLiveNext ==
  ASSUME ~CanChangeEarly, OrderInv, SeedsLive, Next
  PROVE  SeedsLive'
<1> SUFFICES ASSUME "pods" \notin listed'
             PROVE  SeedsLive'
  BY DEF SeedsLive
<1>1. /\ "pods" \notin listed /\ UNCHANGED apiPods
      /\ call[PodWatch] = Idle /\ call[NodeWatch] = Idle
  BY EarlyNext DEF OrderInv, StartOrder
<1>2. /\ \A k \in Key : pods[k] # Nil => IsLive(apiPods[k])
      /\ \A s \in seeds.pods : IsLive(apiPods[s[1]])
      /\ call[Main] # Idle => IsLive(apiPods[call[Main].key])
  BY <1>1 DEF SeedsLive
<1>3. /\ call \in [Thread -> Frame] /\ pods \in [Key -> PodObj \cup {Nil}]
      /\ seeds \in [nodes : SUBSET (Node \X NodeInfo), pods : SUBSET (Key \X Content)]
  BY DEF OrderInv, TypeInv, ClusterInv, ClusterTypeOK, ControllerTypeOK
<1>4. ASSUME UNCHANGED <<pods, call>>, seeds'.pods \subseteq seeds.pods
      PROVE  SeedsLive'
  BY <1>1, <1>2, <1>4 DEF SeedsLive
<1>5. CASE StartStep
  <2>1. ASSUME NEW answer \in Answers, SeedPodsList(answer)
        PROVE  SeedsLive'
    <3>1. \A s \in seeds'.pods : s \in seeds.pods \/ IsLive(apiPods[s[1]])
      <4>1. ASSUME NEW k \in Key, NEW s, IsLive(apiPods[k]), s = <<k, ContentOf(apiPods[k])>>
            PROVE  IsLive(apiPods[s[1]])
        BY <4>1
      <4>2. \A s \in seeds'.pods :
              \/ s \in seeds.pods
              \/ \E k \in Key : IsLive(apiPods[k]) /\ s = <<k, ContentOf(apiPods[k])>>
        BY <1>3, <2>1 DEF SeedPodsList
      <4> QED BY <4>1, <4>2
    <3>2. UNCHANGED <<pods, call>>
      BY <2>1 DEF SeedPodsList, clusterVars, storeVars
    <3> QED BY <1>1, <1>2, <3>1, <3>2 DEF SeedsLive
  <2>2. ASSUME NEW k \in Key, NEW c \in Content, NEW o \in PodObj, SeedPod(k, c, o)
        PROVE  SeedsLive'
    <3>1. /\ UNCHANGED pods /\ <<k, c>> \in seeds.pods /\ seeds'.pods \subseteq seeds.pods
          /\ call'[Main].key = k
      BY <1>3, <2>2, ThreadsDiffer DEF SeedPod, CallAddPod
    <3>2. IsLive(apiPods[k])
      BY <1>2, <3>1
    <3> QED BY <1>1, <1>2, <3>1, <3>2 DEF SeedsLive
  <2>3. ASSUME NEW n \in Node, NEW i \in NodeInfo, SeedNode(n, i)
        PROVE  SeedsLive'
    BY <1>3, <1>4, <2>3 DEF SeedNode
  <2>4. CASE \/ \E answer \in Answers :
                  SeedNodesList(answer) \/ StartNodeWatch(answer) \/ StartPodWatch(answer)
             \/ ShowSeededNode \/ SeedNodesDone \/ SeedPodsDone
    BY <1>3, <1>4, <2>4
       DEF SeedNodesList, StartNodeWatch, StartPodWatch, StartWatch, ShowSeededNode, SeedNodesDone,
           SeedPodsDone, clusterVars, storeVars
  <2> QED BY <1>5, <2>1, <2>2, <2>3, <2>4 DEF StartStep
<1>6. CASE NodeHandler
  <2>1. UNCHANGED <<call, seeds>> /\ \A k \in Key : pods'[k] \in {pods[k], Nil}
    <3>1. ASSUME NEW n \in Node, NodeLeaves(n)
          PROVE  UNCHANGED <<call, seeds>> /\ \A k \in Key : pods'[k] \in {pods[k], Nil}
      BY <3>1 DEF NodeLeaves, NodeEvent, DeleteNode, startVars
    <3>2. CASE ~\E n \in Node : NodeLeaves(n)
      BY <1>6, <3>2
         DEF NodeHandler, NodeAdded, NodeUpdated, NodeEvent, FindNodeToUpdate, FindNode, UpdateNode,
             ShowNode, storeVars, startVars
    <3> QED BY <3>1, <3>2
  <2> QED BY <1>1, <1>2, <2>1 DEF SeedsLive
<1>7. CASE PodHandler
  <2>1. ASSUME NEW k \in Key, PodEvent(k)
        PROVE  FALSE
    <3>1. podQueue[k] # <<>>
      BY <2>1 DEF PodEvent, DeliverPod
    <3> QED BY <1>1, <3>1 DEF OrderInv, StartOrder
  <2> QED BY <1>1, <1>7, <2>1
          DEF PodHandler, PodAdded, EndedPodAdded, PodLeaves, PodUpdated, UpdateUnknownPod,
              UpdateKnownPod, UpdatePod, At, Idle
<1>8. ASSUME NEW t \in Thread, ClusterCall(t)
      PROVE  SeedsLive'
  <2>1. PodCall(t) /\ UNCHANGED seeds
    BY <1>8 DEF ClusterCall, startVars
  <2>2. t = Main /\ call[Main] # Idle /\ call[Main].key \in Key
    BY <1>1, <2>1, PodCallFrames, ThreadsAreThese
       DEF OrderInv, Idle, TypeInv, ClusterInv, CallOK
  <2>3. call'[Main] # Idle => call'[Main].key = call[Main].key
    BY <2>1, <2>2, PodCallFrames DEF OrderInv
  <2>4. \A k \in Key : pods'[k] \in {pods[k], Nil} \/ k = call[Main].key
    BY <1>3, <2>1, <2>2
       DEF PodCall, PutPod, FindNodeToBind, BindPod, GetPodToDelete, FindNodeToUnbind, FindNode,
           UnbindPod, DropPod, storeVars
  <2> QED BY <1>1, <1>2, <2>1, <2>2, <2>3, <2>4 DEF SeedsLive
<1>9. CASE (\E resource \in {"pods", "nodes"} : WatchBegins(resource)) \/ Environment
  BY <1>4, <1>9 DEF WatchBegins, Environment, clusterVars, storeVars, startVars
<1> QED BY <1>5, <1>6, <1>7, <1>8, <1>9 DEF Next

-----------------------------------------------------------------------------
(* Then the pod handler alone puts pods in, and what it hears of a pod      *)
(* decides what becomes of it.                                              *)

LEMMA AnnouncedStays ==
  ASSUME TypeInv, NEW k \in Key, Announced(k), podSeen'[k] = podSeen[k],
         podQueue'[k] = podQueue[k] \/ \E s : podQueue'[k] = Append(podQueue[k], s)
  PROVE  Announced(k)'
<1>1. podQueue[k] \in Seq(PodState \cup {Nil}) /\ podQueue[k] # <<>>
  BY DEF TypeInv, KubeTypeOK, Announced
<1>2. podQueue'[k] # <<>> /\ Head(podQueue'[k]) = Head(podQueue[k])
  BY <1>1, HeadTailAppend
<1> QED BY <1>2 DEF Announced

LEMMA ExpectedNext ==
  ASSUME ~CanChangeEarly, OrderInv, SeedsLive, Expected, Next
  PROVE  Expected'
<1> SUFFICES ASSUME "pods" \in listed'
             PROVE  Expected'
  BY DEF Expected
<1> DEFINE w == call[PodWatch]
           Due(k) == IsLive(podSeen[k]) \/ Announced(k)
<1>1. /\ w \in Frame /\ (w.at = "idle" => w = Idle) /\ TypeInv /\ TypeInv'
      /\ pods \in [Key -> PodObj \cup {Nil}]
      /\ podQueue \in [Key -> Seq(PodState \cup {Nil})] /\ podSeen \in [Key -> PodState \cup {Nil}]
  BY NextTypeInv, ThreadsDiffer
     DEF OrderInv, TypeInv, ClusterInv, ClusterTypeOK, KubeTypeOK, StartOrder, At
<1>2. (* The pods in the store stay or leave it, and nothing is delivered. *)
      ASSUME "pods" \in listed, UNCHANGED podSeen, call'[PodWatch] = w,
             \A k \in Key : pods'[k] \in {pods[k], Nil},
             \A k \in Key : podQueue'[k] = podQueue[k] \/ \E s : podQueue'[k] = Append(podQueue[k], s)
      PROVE  Expected'
  <2>1. ASSUME NEW k \in Key, pods'[k] # Nil, Handled(k)'
        PROVE  Due(k)'
    <3>1. pods[k] # Nil /\ Handled(k)
      BY <1>2, <2>1 DEF Handled
    <3>2. IsLive(podSeen[k]) \/ Announced(k)
      BY <1>2, <3>1 DEF Expected
    <3> QED BY <1>1, <1>2, <3>2, AnnouncedStays
  <2> QED BY <2>1 DEF Expected
<1>3. ASSUME UNCHANGED <<podSeen, podQueue, call, listed>>, \A k \in Key : pods'[k] \in {pods[k], Nil}
      PROVE  Expected'
  BY <1>2, <1>3
<1>4. (* The handler hears of a pod, or is at work on it. *)
      ASSUME "pods" \in listed, NEW k \in Key, w = Idle \/ w.key = k,
             \A j \in Key : j # k => podSeen'[j] = podSeen[j] /\ podQueue'[j] = podQueue[j] /\ pods'[j] = pods[j],
             pods'[k] # Nil /\ Handled(k)' => Due(k)'
      PROVE  Expected'
  <2>1. ASSUME NEW j \in Key, j # k, pods'[j] # Nil, Handled(j)'
        PROVE  Due(j)'
    <3>1. pods[j] # Nil /\ Handled(j)
      BY <1>4, <2>1, NilIsNoName DEF Handled, Idle
    <3>2. IsLive(podSeen[j]) \/ Announced(j)
      BY <1>4, <3>1 DEF Expected
    <3> QED BY <1>4, <2>1, <3>2 DEF Announced
  <2> QED BY <1>4, <2>1 DEF Expected
<1>5. CASE StartStep
  <2>1. "pods" \in listed /\ UNCHANGED <<podSeen, podQueue>>
    BY <1>5
       DEF StartStep, SeedNodesList, SeedPodsList, StartNodeWatch, StartPodWatch, StartWatch, SeedNode,
           ShowSeededNode, SeedNodesDone, SeedPod, SeedPodsDone, watchVars, podFeed
  <2>2. start = "done"
    BY <2>1 DEF OrderInv, StartOrder
  <2> QED BY <1>5, <2>2
          DEF StartStep, SeedNodesList, SeedPodsList, StartNodeWatch, StartPodWatch, StartWatch, SeedNode,
              ShowSeededNode, SeedNodesDone, SeedPod, SeedPodsDone
<1>6. CASE NodeHandler
  <2>1. UNCHANGED <<call, podSeen, podQueue, listed>> /\ \A k \in Key : pods'[k] \in {pods[k], Nil}
    <3>1. ASSUME NEW n \in Node, NodeLeaves(n)
          PROVE  UNCHANGED <<call, podSeen, podQueue, listed>> /\ \A k \in Key : pods'[k] \in {pods[k], Nil}
      BY <3>1 DEF NodeLeaves, NodeEvent, DeliverNode, DeleteNode, podFeed
    <3>2. CASE ~\E n \in Node : NodeLeaves(n)
      BY <1>6, <3>2
         DEF NodeHandler, NodeAdded, NodeUpdated, NodeEvent, DeliverNode, FindNodeToUpdate, FindNode,
             UpdateNode, ShowNode, storeVars, watchVars, podFeed
    <3> QED BY <3>1, <3>2
  <2> QED BY <1>3, <2>1
<1>7. CASE PodHandler
  <2>1. ASSUME NEW k \in Key, PodEvent(k)
        PROVE  /\ "pods" \in listed /\ w = Idle /\ UNCHANGED pods
               /\ \A j \in Key : j # k => podSeen'[j] = podSeen[j] /\ podQueue'[j] = podQueue[j]
    BY <1>1, <2>1 DEF PodEvent, DeliverPod, At
  <2>2. ASSUME NEW k \in Key, PodEvent(k), call'[PodWatch].key = k
        PROVE  Expected'
    BY <1>4, <2>1, <2>2 DEF Handled
  <2>3. ASSUME NEW k \in Key, EndedPodAdded(k)
        PROVE  Expected'
    <3>1. PodEvent(k) /\ podSeen[k] = Nil /\ ~IsLive(Head(podQueue[k]))
      BY <2>3 DEF EndedPodAdded
    <3>2. Handled(k) /\ ~IsLive(podSeen[k]) /\ ~Announced(k)
      BY <2>1, <3>1, NilIsNoName DEF Handled, Idle, IsLive, Announced
    <3>3. pods'[k] = Nil
      BY <2>1, <3>1, <3>2 DEF Expected
    <3> QED BY <1>4, <2>1, <3>1, <3>3
  <2>4. ASSUME NEW k \in Key, (\E o \in PodObj : PodAdded(k, o)) \/ PodLeaves(k) \/ PodUpdated(k)
        PROVE  Expected'
    <3>1. PodEvent(k) /\ call'[PodWatch].key = k
      BY <1>1, <2>4, ThreadsDiffer
         DEF PodAdded, PodLeaves, PodUpdated, CallAddPod, CallDeletePod, TypeInv, ClusterInv, ClusterTypeOK
    <3> QED BY <2>2, <3>1
  <2>5. CASE (\E o \in PodObj : UpdateUnknownPod(o)) \/ UpdateKnownPod \/ UpdatePod
    <3>1. /\ call'[PodWatch].key = w.key /\ w.at # "idle"
          /\ UNCHANGED <<podSeen, podQueue, pods, listed>>
      BY <1>1, <2>5, ThreadsDiffer
         DEF UpdateUnknownPod, UpdateKnownPod, UpdatePod, CallAddPod, Goto, At, TypeInv,
             ClusterInv, ClusterTypeOK, Frame, storeVars, watchVars, podFeed
    <3>2. \A k \in Key : Handled(k)' = Handled(k)
      BY <3>1 DEF Handled
    <3> QED BY <3>1, <3>2 DEF Expected, Announced
  <2> QED BY <1>7, <2>3, <2>4, <2>5 DEF PodHandler
<1>8. ASSUME NEW t \in Thread, ClusterCall(t)
      PROVE  Expected'
  <2>1. PodCall(t) /\ UNCHANGED <<podSeen, podQueue, listed>>
    BY <1>8 DEF ClusterCall, watchVars, podFeed
  <2>2. t = PodWatch /\ w.at # "idle" /\ w.key \in Key
    <3>1. t # Main /\ t # NodeWatch /\ call[t].at # "idle"
      BY <1>1, <2>1, PodCallFrames DEF OrderInv, StartOrder, Idle
    <3> QED BY <1>1, <3>1, ThreadsAreThese DEF TypeInv, ClusterInv, CallOK
  <2> PICK k \in Key : k = w.key
    BY <2>2
  <2>3. \A j \in Key : j # k => pods'[j] = pods[j]
    BY <1>1, <2>1, <2>2
       DEF PodCall, PutPod, FindNodeToBind, BindPod, GetPodToDelete, FindNodeToUnbind, FindNode,
           UnbindPod, DropPod, storeVars
  <2>4. CASE w.at \in Updating
    <3>1. IsLive(podSeen'[k])
      BY <1>1, <2>1, <2>4 DEF TypeInv, HandlersOK
    <3> QED BY <1>4, <2>1, <2>3, <3>1
  <2>5. CASE GetPodToDelete(PodWatch) \/ FindNodeToUnbind(PodWatch) \/ UnbindPod(PodWatch)
    <3>1. call'[PodWatch].at \in {"findToUnbind", "unbind", "drop"}
      <4>1. CASE GetPodToDelete(PodWatch)
        BY <1>1, <4>1, ThreadsDiffer
           DEF GetPodToDelete, Goto, TypeInv, ClusterInv, ClusterTypeOK, Frame
      <4>2. CASE FindNodeToUnbind(PodWatch) \/ UnbindPod(PodWatch)
        BY <1>1, <4>2, GotoFrames, ThreadsDiffer
           DEF FindNodeToUnbind, FindNode, UnbindPod, TypeInv, ClusterInv, ClusterTypeOK, Steps
      <4> QED BY <2>5, <4>1, <4>2
    <3>2. call'[PodWatch].key = k
      BY <1>1, <2>1, <2>2, <3>1, PodCallFrames DEF Idle
    <3> QED BY <1>4, <2>1, <2>3, <3>2 DEF Handled
  <2>6. CASE DropPod(PodWatch)
    <3>1. pods'[k] = Nil
      BY <1>1, <2>6 DEF DropPod
    <3> QED BY <1>4, <2>1, <2>3, <3>1
  <2> QED BY <2>1, <2>2, <2>4, <2>5, <2>6
          DEF PodCall, PutPod, FindNodeToBind, BindPod, At, Updating
<1>9. ASSUME NEW resource \in {"pods", "nodes"}, WatchBegins(resource)
      PROVE  Expected'
  <2>1. UNCHANGED <<pods, call, podSeen>>
    BY <1>9 DEF WatchBegins, List, ListPods, ListNodes, clusterVars, storeVars, podFeed
  <2>2. CASE "pods" \in listed
    <3>1. \A k \in Key : podQueue'[k] = podQueue[k] \/ \E s : podQueue'[k] = Append(podQueue[k], s)
      BY <1>9 DEF WatchBegins, List, ListPods, ListNodes, Catchup, podFeed
    <3> QED BY <1>2, <2>1, <2>2, <3>1
  <2>3. CASE "pods" \notin listed
    <3>1. ListPods
      BY <1>9, <2>3 DEF WatchBegins, List
    <3>2. ASSUME NEW k \in Key, pods'[k] # Nil
          PROVE  Announced(k)'
      <4>1. IsLive(apiPods[k]) /\ podSeen[k] = Nil /\ podQueue[k] = <<>>
        BY <2>1, <2>3, <3>2 DEF SeedsLive, OrderInv, StartOrder
      <4>2. podQueue'[k] = Append(podQueue[k], apiPods[k]) /\ UNCHANGED apiPods
        BY <3>1, <4>1 DEF ListPods, Catchup, IsLive, apiVars
      <4>3. podQueue'[k] # <<>> /\ Head(podQueue'[k]) = apiPods[k]
        BY <1>1, <4>1, <4>2, HeadTailAppend
      <4> QED BY <2>1, <4>1, <4>3 DEF Announced
    <3> QED BY <3>2 DEF Expected
  <2> QED BY <2>2, <2>3
<1>10. CASE Environment
  <2>1. UNCHANGED <<pods, call, podSeen, listed>>
    BY <1>10, ApiChangesOnePod DEF Environment, LoseWatch, clusterVars, storeVars, podFeed
  <2>2. \A k \in Key : podQueue'[k] = podQueue[k] \/ \E s : podQueue'[k] = Append(podQueue[k], s)
    <3>1. ASSUME NEW j \in Key, NEW r, SetPod(j, r), NEW k \in Key
          PROVE  podQueue'[k] = podQueue[k] \/ \E s : podQueue'[k] = Append(podQueue[k], s)
      BY <1>1, <3>1 DEF SetPod
    <3> QED BY <1>10, <3>1, ApiChangesOnePod DEF Environment, LoseWatch, podFeed
  <2> QED BY <1>2, <2>1, <2>2
<1> QED BY <1>5, <1>6, <1>7, <1>8, <1>9, <1>10 DEF Next

-----------------------------------------------------------------------------

(* No deleted or terminal pod stays in the list once the watch has told     *)
(* all there is, if no object changes between the seeding and the lists of  *)
(* the informers: those changes are the only way to a phantom, whatever     *)
(* watches are lost later and whichever nodes come and go.                  *)
THEOREM NoPodLingers == ~CanChangeEarly /\ Spec => []NoPhantomPods
<1> DEFINE Inv == OrderInv /\ UpToDate /\ SeedsLive /\ Expected
<1> SUFFICES ASSUME ~CanChangeEarly PROVE Spec => []NoPhantomPods
  OBVIOUS
<1>1. Init => Inv
  <2>1. Init => UpToDate /\ SeedsLive /\ Expected
    BY ThreadsDiffer
       DEF Init, ClusterInit, KubeInit, NoSeeds, Idle, UpToDate, SeedsLive, Expected
  <2> QED BY <2>1, OrderInvInductive
<1>2. Inv /\ [Next]_vars => Inv'
  <2>1. CASE Inv /\ Next
    BY <2>1, OrderInvInductive, UpToDateNext, SeedsLiveNext, ExpectedNext DEF OrderInv
  <2>2. CASE Inv /\ UNCHANGED vars
    BY <2>2, OrderInvInductive
       DEF vars, clusterVars, storeVars, watchVars, apiVars, podFeed, startVars, UpToDate, LastSaid,
           SeedsLive, Expected, Announced, Handled
  <2> QED BY <2>1, <2>2
<1>3. Inv => NoPhantomPods
  <2> SUFFICES ASSUME Inv, NEW k \in Key, "pods" \in watching, podQueue[k] = <<>>, Handled(k), pods[k] # Nil
               PROVE  IsLive(apiPods[k])
    BY DEF NoPhantomPods
  <2>1. "pods" \in listed
    BY DEF OrderInv, TypeInv, KubeTypeOK
  <2>2. IsLive(podSeen[k])
    BY <2>1 DEF Expected, Announced
  <2> QED BY <2>2 DEF UpToDate, LastSaid
<1> QED BY <1>1, <1>2, <1>3, PTL DEF Spec

=============================================================================
