------------------------- MODULE PodsControllerProofs -------------------------
(***************************************************************************)
(* Theorems about PodsController, for any nodes, pods, bounds and answers: *)
(* types, what the store shows of a pod, and the refinement of PodTable.   *)
(***************************************************************************)
EXTENDS PodsController, TLAPS

-----------------------------------------------------------------------------
(* Types of the API and of the informers *)

LEMMA SetPodType ==
  ASSUME KubeTypeOK, NEW k \in Key, NEW s \in PodState \cup {Nil}, SetPod(k, s)
  PROVE  KubeTypeOK'
<1>1. apiPods' \in [Key -> PodState \cup {Nil}]
  BY DEF KubeTypeOK, SetPod
<1>2. podQueue' \in [Key -> Seq(PodState \cup {Nil})]
  <2>1. Append(podQueue[k], s) \in Seq(PodState \cup {Nil})
    BY DEF KubeTypeOK
  <2> QED BY <2>1 DEF KubeTypeOK, SetPod
<1>3. changes' \in 0..MaxChanges
  BY BoundsAreNat DEF KubeTypeOK, SetPod, Change
<1> QED BY <1>1, <1>2, <1>3 DEF KubeTypeOK, SetPod, nodeFeed

LEMMA SetNodeType ==
  ASSUME KubeTypeOK, NEW n \in Node, NEW s \in NodeState \cup {Nil}, SetNode(n, s),
         gone' \subseteq Node
  PROVE  KubeTypeOK'
<1>1. apiNodes' \in [Node -> NodeState \cup {Nil}]
  BY DEF KubeTypeOK, SetNode
<1>2. nodeQueue' \in [Node -> Seq(NodeState \cup {Nil})]
  <2>1. Append(nodeQueue[n], s) \in Seq(NodeState \cup {Nil})
    BY DEF KubeTypeOK
  <2> QED BY <2>1 DEF KubeTypeOK, SetNode
<1>3. changes' \in 0..MaxChanges
  BY BoundsAreNat DEF KubeTypeOK, SetNode, Change
<1> QED BY <1>1, <1>2, <1>3 DEF KubeTypeOK, SetNode, podFeed

LEMMA ApiChangeType ==
  ASSUME KubeTypeOK, ApiChange
  PROVE  KubeTypeOK'
<1>1. ASSUME NEW k \in Key, NEW r \in Request, CreatePod(k, r)
      PROVE  KubeTypeOK'
  <2>1. [node |-> Nil, req |-> r, ended |-> FALSE] \in PodState
    BY DEF PodState
  <2> QED BY <1>1, <2>1, SetPodType DEF CreatePod
<1>2. ASSUME NEW k \in Key, NEW r \in Request, ResizePod(k, r)
      PROVE  KubeTypeOK'
  <2>1. [apiPods[k] EXCEPT !.req = r] \in PodState
    BY <1>2 DEF ResizePod, IsLive, KubeTypeOK, PodState
  <2> QED BY <1>2, <2>1, SetPodType DEF ResizePod
<1>3. ASSUME NEW k \in Key, NEW n \in Node, SchedulePod(k, n)
      PROVE  KubeTypeOK'
  <2>1. apiPods[k] \in PodState
    BY <1>3 DEF SchedulePod, IsLive, KubeTypeOK
  <2>2. [apiPods[k] EXCEPT !.node = n] \in PodState
    BY <2>1 DEF PodState
  <2> QED BY <1>3, <2>2, SetPodType DEF SchedulePod
<1>4. ASSUME NEW k \in Key, EndPod(k)
      PROVE  KubeTypeOK'
  <2>1. [apiPods[k] EXCEPT !.ended = TRUE] \in PodState
    BY <1>4 DEF EndPod, IsLive, KubeTypeOK, PodState
  <2> QED BY <1>4, <2>1, SetPodType DEF EndPod
<1>5. ASSUME NEW k \in Key, RemovePod(k)
      PROVE  KubeTypeOK'
  BY <1>5, SetPodType DEF RemovePod
<1>6. ASSUME NEW n \in Node, NEW i \in NodeInfo, JoinNode(n, i)
      PROVE  KubeTypeOK'
  <2>1. [info |-> i, deleting |-> FALSE] \in NodeState
    BY DEF NodeState
  <2>2. gone' \subseteq Node
    BY <1>6 DEF JoinNode, KubeTypeOK
  <2> QED BY <1>6, <2>1, <2>2, SetNodeType DEF JoinNode
<1>7. ASSUME NEW n \in Node, NEW i \in NodeInfo, ChangeNode(n, i)
      PROVE  KubeTypeOK'
  <2>1. [apiNodes[n] EXCEPT !.info = i] \in NodeState
    BY <1>7 DEF ChangeNode, KubeTypeOK, NodeState
  <2>2. gone' \subseteq Node
    BY <1>7 DEF ChangeNode, KubeTypeOK
  <2> QED BY <1>7, <2>1, <2>2, SetNodeType DEF ChangeNode
<1>8. ASSUME NEW n \in Node, MarkNode(n)
      PROVE  KubeTypeOK'
  <2>1. [apiNodes[n] EXCEPT !.deleting = TRUE] \in NodeState
    BY <1>8 DEF MarkNode, Stays, KubeTypeOK, NodeState
  <2>2. gone' \subseteq Node
    BY <1>8 DEF MarkNode, KubeTypeOK
  <2> QED BY <1>8, <2>1, <2>2, SetNodeType DEF MarkNode
<1>9. ASSUME NEW n \in Node, RemoveNode(n)
      PROVE  KubeTypeOK'
  <2>1. gone' \subseteq Node
    BY <1>9 DEF RemoveNode, KubeTypeOK
  <2> QED BY <1>9, <2>1, SetNodeType DEF RemoveNode
<1> QED BY <1>1, <1>2, <1>3, <1>4, <1>5, <1>6, <1>7, <1>8, <1>9 DEF ApiChange

LEMMA CatchupIsSeq ==
  ASSUME NEW S, NEW now \in S, NEW seen, NEW q \in Seq(S)
  PROVE  Catchup(now, seen, q) \in Seq(S)
<1>1. Append(q, now) \in Seq(S)
  OBVIOUS
<1> QED BY <1>1 DEF Catchup

LEMMA ListType ==
  ASSUME KubeTypeOK, ListPods \/ ListNodes, listed' \subseteq {"pods", "nodes"},
         watching' \subseteq listed', UNCHANGED losses
  PROVE  KubeTypeOK'
<1>1. \A k \in Key : Catchup(apiPods[k], podSeen[k], podQueue[k]) \in Seq(PodState \cup {Nil})
  BY CatchupIsSeq DEF KubeTypeOK
<1>2. \A n \in Node : Catchup(apiNodes[n], nodeSeen[n], nodeQueue[n]) \in Seq(NodeState \cup {Nil})
  BY CatchupIsSeq DEF KubeTypeOK
<1>3. CASE ListPods
  BY <1>1, <1>3 DEF KubeTypeOK, ListPods, apiVars, nodeFeed
<1>4. CASE ListNodes
  BY <1>2, <1>4 DEF KubeTypeOK, ListNodes, apiVars, podFeed
<1> QED BY <1>3, <1>4

LEMMA DeliverPodType ==
  ASSUME KubeTypeOK, NEW k \in Key, DeliverPod(k)
  PROVE  KubeTypeOK' /\ Head(podQueue[k]) \in PodState \cup {Nil}
<1>1. podQueue[k] \in Seq(PodState \cup {Nil}) /\ podQueue[k] # <<>>
  BY DEF KubeTypeOK, DeliverPod
<1>2. Head(podQueue[k]) \in PodState \cup {Nil} /\ Tail(podQueue[k]) \in Seq(PodState \cup {Nil})
  BY <1>1
<1> QED BY <1>2 DEF KubeTypeOK, DeliverPod, apiVars, nodeFeed

LEMMA DeliverNodeType ==
  ASSUME KubeTypeOK, NEW n \in Node, DeliverNode(n)
  PROVE  KubeTypeOK' /\ Head(nodeQueue[n]) \in NodeState \cup {Nil}
<1>1. nodeQueue[n] \in Seq(NodeState \cup {Nil}) /\ nodeQueue[n] # <<>>
  BY DEF KubeTypeOK, DeliverNode
<1>2. Head(nodeQueue[n]) \in NodeState \cup {Nil} /\ Tail(nodeQueue[n]) \in Seq(NodeState \cup {Nil})
  BY <1>1
<1> QED BY <1>2 DEF KubeTypeOK, DeliverNode, apiVars, podFeed

LEMMA WatchUnchanged ==
  ASSUME KubeTypeOK, UNCHANGED watchVars
  PROVE  KubeTypeOK'
BY DEF KubeTypeOK, watchVars, apiVars, podFeed, nodeFeed

-----------------------------------------------------------------------------
(* What the steps of a call rely on: a pointer that is kept or passed on   *)
(* is the address of an object that has been filled in, or names a         *)
(* registered node.                                                        *)

WithObject == {"update", "put", "findToBind", "bind", "findToUnbind", "unbind"}

References ==
  /\ \A k \in Key : pods[k] # Nil => heap[k][pods[k]] # Nil
  /\ \A n \in Node, k \in Key : bound[n][k] # Nil => heap[k][bound[n][k]] # Nil
  /\ \A t \in Thread : held[t] # Nil => held[t] \in registered

CallOK(t) ==
  /\ call[t].at # "idle" => call[t].key \in Key
  /\ call[t].at \in WithObject =>
       call[t].obj # Nil /\ heap[call[t].key][call[t].obj] # Nil

ClusterInv == ClusterTypeOK /\ References /\ \A t \in Thread : CallOK(t)

(* What moving on in a call, or returning from it, does to the frames. *)
LEMMA GotoFrames ==
  ASSUME call \in [Thread -> Frame], NEW t \in Thread, NEW step \in Steps, Goto(t, step)
  PROVE  /\ call' \in [Thread -> Frame]
         /\ \A u \in Thread : u # t => call'[u] = call[u]
         /\ call'[t].at = step /\ call'[t].key = call[t].key /\ call'[t].obj = call[t].obj
<1>1. call[t] \in Frame
  OBVIOUS
<1>2. [call[t] EXCEPT !.at = step] \in Frame
  BY <1>1 DEF Frame
<1>3. call' = [call EXCEPT ![t] = [call[t] EXCEPT !.at = step]]
  BY DEF Goto
<1> QED BY <1>1, <1>2, <1>3 DEF Frame

LEMMA ReturnFrames ==
  ASSUME call \in [Thread -> Frame], NEW t \in Thread, Return(t)
  PROVE  /\ call' \in [Thread -> Frame]
         /\ \A u \in Thread : u # t => call'[u] = call[u]
         /\ call'[t] = Idle
<1>1. Idle \in Frame
  BY DEF Idle, Frame, Steps
<1> QED BY <1>1 DEF Return

(* Setting one entry of one node's map. *)
LEMMA EntrySet ==
  ASSUME NEW S, NEW f \in [Node -> [Key -> S]], NEW n \in Node, NEW k \in Key, NEW v \in S
  PROVE  /\ [f EXCEPT ![n][k] = v] \in [Node -> [Key -> S]]
         /\ \A m \in Node, j \in Key :
              [f EXCEPT ![n][k] = v][m][j] = IF m = n /\ j = k THEN v ELSE f[m][j]
OBVIOUS

LEMMA PutPodInv ==
  ASSUME ClusterInv, NEW t \in Thread, PutPod(t)
  PROVE  ClusterInv'
<1> USE DEF ClusterInv
<1> DEFINE k == call[t].key
           o == call[t].obj
<1>1. k \in Key /\ o \in PodObj /\ heap[k][o] # Nil
  BY DEF PutPod, At, CallOK, WithObject, ClusterTypeOK, Frame
<1>2. /\ call' \in [Thread -> Frame]
      /\ \A u \in Thread : u # t => call'[u] = call[u]
      /\ \/ call'[t] = Idle
         \/ call'[t].at = "findToBind" /\ call'[t].key = k /\ call'[t].obj = o
  BY GotoFrames, ReturnFrames DEF PutPod, ClusterTypeOK, Steps
<1>3. ClusterTypeOK'
  BY <1>1, <1>2 DEF PutPod, ClusterTypeOK, nodeMapVars, bindingVars
<1>4. References'
  BY <1>1 DEF PutPod, References, ClusterTypeOK, nodeMapVars, bindingVars
<1>5. \A u \in Thread : CallOK(u)'
  BY <1>1, <1>2, NilIsNoAddress DEF PutPod, CallOK, WithObject, Idle
<1> QED BY <1>3, <1>4, <1>5

LEMMA FindNodeToBindInv ==
  ASSUME ClusterInv, NEW t \in Thread, FindNodeToBind(t)
  PROVE  ClusterInv'
<1> USE DEF ClusterInv
<1>1. /\ call' \in [Thread -> Frame]
      /\ \A u \in Thread : u # t => call'[u] = call[u]
      /\ \/ call'[t] = Idle
         \/ call'[t].at = "bind" /\ call'[t].key = call[t].key /\ call'[t].obj = call[t].obj
  BY GotoFrames, ReturnFrames DEF FindNodeToBind, FindNode, ClusterTypeOK, Steps
<1>2. held' \in [Thread -> Node \cup {Nil}]
  BY DEF FindNodeToBind, FindNode, ClusterTypeOK
<1>3. ClusterTypeOK'
  BY <1>1, <1>2 DEF FindNodeToBind, FindNode, ClusterTypeOK, storeVars
<1>4. References'
  BY DEF FindNodeToBind, FindNode, References, storeVars
<1>5. \A u \in Thread : CallOK(u)'
  BY <1>1 DEF FindNodeToBind, FindNode, At, CallOK, WithObject, Idle, storeVars
<1> QED BY <1>3, <1>4, <1>5

LEMMA BindPodInv ==
  ASSUME ClusterInv, NEW t \in Thread, BindPod(t)
  PROVE  ClusterInv'
<1> USE DEF ClusterInv
<1> DEFINE n == held[t]
           k == call[t].key
           o == call[t].obj
<1>1. /\ k \in Key /\ o \in PodObj /\ n \in Node \cup {Nil}
      /\ heap[k][o] \in Content
  BY DEF BindPod, At, CallOK, WithObject, ClusterTypeOK, Frame
<1>2. heap[k][o].req \in Int
  BY <1>1, RequestIsInt DEF Content
<1>3. /\ call' \in [Thread -> Frame]
      /\ \A u \in Thread : u # t => call'[u] = call[u]
      /\ call'[t] = Idle
  BY ReturnFrames DEF BindPod, ClusterTypeOK
<1>4. /\ bound' \in [Node -> [Key -> PodObj \cup {Nil}]]
      /\ used' \in [Node -> [Key -> Int]]
      /\ \A m \in Node, j \in Key :
           bound'[m][j] = IF n # Nil /\ m = n /\ j = k THEN o ELSE bound[m][j]
  <2>1. CASE n = Nil
    BY <2>1 DEF BindPod, ClusterTypeOK, bindingVars
  <2>2. CASE n # Nil
    <3> DEFINE sum == IF bound[n][k] = Nil THEN used[n][k] + heap[k][o].req ELSE used[n][k]
    <3>1. bound' = [bound EXCEPT ![n][k] = o] /\ used' = [used EXCEPT ![n][k] = sum]
      BY <2>2 DEF BindPod
    <3>2. n \in Node /\ sum \in Int /\ o \in PodObj \cup {Nil}
      BY <1>1, <1>2, <2>2 DEF ClusterTypeOK
    <3> HIDE DEF sum, n, k, o
    <3> QED BY <1>1, <2>2, <3>1, <3>2, EntrySet DEF ClusterTypeOK
  <2> QED BY <2>1, <2>2
<1>5. ClusterTypeOK'
  BY <1>3, <1>4 DEF BindPod, ClusterTypeOK, nodeMapVars
<1>6. References'
  <2>1. \A m \in Node, j \in Key : bound'[m][j] # Nil => heap'[j][bound'[m][j]] # Nil
    BY <1>1, <1>4, NilIsNoObject DEF BindPod, References
  <2>2. \A u \in Thread : held'[u] # Nil => held'[u] \in registered'
    BY DEF BindPod, References, ClusterTypeOK, nodeMapVars
  <2> QED BY <2>1, <2>2 DEF BindPod, References
<1>7. \A u \in Thread : CallOK(u)'
  BY <1>3 DEF BindPod, CallOK, WithObject, Idle
<1> QED BY <1>5, <1>6, <1>7

LEMMA GetPodToDeleteInv ==
  ASSUME ClusterInv, NEW t \in Thread, GetPodToDelete(t)
  PROVE  ClusterInv'
<1> USE DEF ClusterInv
<1>1. call[t].key \in Key
  BY DEF GetPodToDelete, At, CallOK
<1>2. call' \in [Thread -> Frame] /\ \A u \in Thread : CallOK(u)'
  <2>1. CASE Goto(t, "drop")
    BY <1>1, <2>1, GotoFrames
       DEF GetPodToDelete, CallOK, WithObject, ClusterTypeOK, Steps, storeVars
  <2>2. CASE ~Goto(t, "drop")
    <3>1. /\ pods[call[t].key] \in PodObj
          /\ call' = [call EXCEPT ![t] = [call[t] EXCEPT !.at = "findToUnbind",
                                                       !.obj = pods[call[t].key]]]
      BY <1>1, <2>2 DEF GetPodToDelete, ClusterTypeOK
    <3>2. heap[call[t].key][pods[call[t].key]] # Nil
      BY <1>1, <3>1, NilIsNoAddress DEF References
    <3>3. [call[t] EXCEPT !.at = "findToUnbind", !.obj = pods[call[t].key]] \in Frame
      BY <3>1 DEF ClusterTypeOK, Frame, Steps
    <3> QED
      BY <1>1, <3>1, <3>2, <3>3, NilIsNoAddress
         DEF GetPodToDelete, CallOK, WithObject, ClusterTypeOK, Frame, storeVars
  <2> QED BY <2>1, <2>2
<1>3. ClusterTypeOK'
  BY <1>2 DEF GetPodToDelete, ClusterTypeOK, storeVars
<1>4. References'
  BY DEF GetPodToDelete, References, storeVars
<1> QED BY <1>2, <1>3, <1>4

LEMMA FindNodeToUnbindInv ==
  ASSUME ClusterInv, NEW t \in Thread, FindNodeToUnbind(t)
  PROVE  ClusterInv'
<1> USE DEF ClusterInv
<1>1. /\ call' \in [Thread -> Frame]
      /\ \A u \in Thread : u # t => call'[u] = call[u]
      /\ call'[t].at \in {"unbind", "drop"}
      /\ call'[t].key = call[t].key /\ call'[t].obj = call[t].obj
  BY GotoFrames DEF FindNodeToUnbind, FindNode, ClusterTypeOK, Steps
<1>2. held' \in [Thread -> Node \cup {Nil}]
  BY DEF FindNodeToUnbind, FindNode, ClusterTypeOK
<1>3. ClusterTypeOK'
  BY <1>1, <1>2 DEF FindNodeToUnbind, FindNode, ClusterTypeOK, storeVars
<1>4. References'
  BY DEF FindNodeToUnbind, FindNode, References, storeVars
<1>5. \A u \in Thread : CallOK(u)'
  BY <1>1 DEF FindNodeToUnbind, FindNode, At, CallOK, WithObject, storeVars
<1> QED BY <1>3, <1>4, <1>5

LEMMA UnbindPodInv ==
  ASSUME ClusterInv, NEW t \in Thread, UnbindPod(t)
  PROVE  ClusterInv'
<1> USE DEF ClusterInv
<1> DEFINE n == held[t]
           k == call[t].key
<1>1. k \in Key /\ n \in Node \cup {Nil}
  BY DEF UnbindPod, At, CallOK, ClusterTypeOK
<1>2. ASSUME n # Nil, bound[n][k] # Nil
      PROVE  heap[k][bound[n][k]].req \in Int
  <2>1. heap[k][bound[n][k]] \in Content
    BY <1>1, <1>2 DEF References, ClusterTypeOK
  <2> QED BY <2>1, RequestIsInt DEF Content
<1>3. /\ call' \in [Thread -> Frame]
      /\ \A u \in Thread : u # t => call'[u] = call[u]
      /\ call'[t].at = "drop" /\ call'[t].key = k
  BY GotoFrames DEF UnbindPod, ClusterTypeOK, Steps
<1>4. /\ bound' \in [Node -> [Key -> PodObj \cup {Nil}]]
      /\ used' \in [Node -> [Key -> Int]]
      /\ \A m \in Node, j \in Key :
           bound'[m][j] = IF n # Nil /\ m = n /\ j = k THEN Nil ELSE bound[m][j]
  <2>1. CASE n = Nil
    BY <2>1 DEF UnbindPod, ClusterTypeOK, bindingVars
  <2>2. CASE n # Nil /\ bound[n][k] = Nil
    BY <2>2 DEF UnbindPod, ClusterTypeOK, bindingVars
  <2>3. CASE n # Nil /\ bound[n][k] # Nil
    <3> DEFINE rest == used[n][k] - heap[k][bound[n][k]].req
    <3>1. bound' = [bound EXCEPT ![n][k] = Nil] /\ used' = [used EXCEPT ![n][k] = rest]
      BY <2>3 DEF UnbindPod
    <3>2. n \in Node /\ rest \in Int /\ Nil \in PodObj \cup {Nil}
      BY <1>1, <1>2, <2>3 DEF ClusterTypeOK
    <3> HIDE DEF rest, n, k
    <3> QED BY <1>1, <2>3, <3>1, <3>2, EntrySet DEF ClusterTypeOK
  <2> QED BY <2>1, <2>2, <2>3
<1>5. ClusterTypeOK'
  BY <1>3, <1>4 DEF UnbindPod, ClusterTypeOK, nodeMapVars
<1>6. References'
  BY <1>1, <1>4 DEF UnbindPod, References, ClusterTypeOK, nodeMapVars
<1>7. \A u \in Thread : CallOK(u)'
  BY <1>1, <1>3 DEF UnbindPod, CallOK, WithObject
<1> QED BY <1>5, <1>6, <1>7

LEMMA DropPodInv ==
  ASSUME ClusterInv, NEW t \in Thread, DropPod(t)
  PROVE  ClusterInv'
<1> USE DEF ClusterInv
<1>1. call[t].key \in Key
  BY DEF DropPod, At, CallOK
<1>2. /\ call' \in [Thread -> Frame]
      /\ \A u \in Thread : u # t => call'[u] = call[u]
      /\ call'[t] = Idle
  BY ReturnFrames DEF DropPod, ClusterTypeOK
<1>3. ClusterTypeOK'
  BY <1>1, <1>2 DEF DropPod, ClusterTypeOK, nodeMapVars, bindingVars
<1>4. References'
  BY <1>1 DEF DropPod, References, ClusterTypeOK, bindingVars, nodeMapVars
<1>5. \A u \in Thread : CallOK(u)'
  BY <1>2 DEF DropPod, CallOK, WithObject, Idle
<1> QED BY <1>3, <1>4, <1>5

LEMMA PodCallInv ==
  ASSUME ClusterInv, NEW t \in Thread, PodCall(t)
  PROVE  ClusterInv'
BY PutPodInv, FindNodeToBindInv, BindPodInv, GetPodToDeleteInv, FindNodeToUnbindInv,
   UnbindPodInv, DropPodInv DEF PodCall

LEMMA ClusterUnchanged ==
  ASSUME ClusterInv, UNCHANGED clusterVars
  PROVE  ClusterInv'
BY DEF ClusterInv, ClusterTypeOK, References, CallOK, clusterVars, storeVars

-----------------------------------------------------------------------------
(* The steps of the controller on the cluster *)

LEMMA FrameInv ==
  ASSUME ClusterInv, NEW t \in Thread, NEW k \in Key, NEW step \in {"get", "lookup"},
         call' = [call EXCEPT ![t] = [at |-> step, key |-> k, obj |-> Nil]],
         UNCHANGED <<storeVars, held>>
  PROVE  ClusterInv'
<1>1. [at |-> step, key |-> k, obj |-> Nil] \in Frame
  BY DEF Frame, Steps
<1>2. ClusterTypeOK'
  BY <1>1 DEF ClusterInv, ClusterTypeOK, storeVars
<1>3. References'
  BY DEF ClusterInv, References, storeVars
<1>4. \A u \in Thread : CallOK(u)'
  BY DEF ClusterInv, ClusterTypeOK, CallOK, WithObject, storeVars
<1> QED BY <1>2, <1>3, <1>4 DEF ClusterInv

(* Filling in one object leaves every other as it was. *)
LEMMA HeapSet ==
  ASSUME ClusterTypeOK, NEW k \in Key, NEW o \in PodObj, NEW c \in Content,
         heap' = [heap EXCEPT ![k][o] = c]
  PROVE  /\ heap' \in [Key -> [PodObj -> Content \cup {Nil}]]
         /\ \A j \in Key, x \in PodObj :
              heap'[j][x] = IF j = k /\ x = o THEN c ELSE heap[j][x]
BY DEF ClusterTypeOK

LEMMA NewPodInv ==
  ASSUME ClusterInv, NEW t \in Thread, NEW k \in Key, NEW o \in PodObj, NEW p,
         ContentOf(p) \in Content, NewPod(k, o, p), CallAddPod(t, k, o),
         UNCHANGED <<nodeDataAvailable, nodeMapVars, bindingVars, pods, held>>
  PROVE  ClusterInv'
<1> USE DEF ClusterInv
<1>1. [at |-> "put", key |-> k, obj |-> o] \in Frame
  BY DEF Frame, Steps
<1>2. /\ call' \in [Thread -> Frame]
      /\ \A u \in Thread : u # t => call'[u] = call[u]
      /\ call'[t].at = "put" /\ call'[t].key = k /\ call'[t].obj = o
  BY <1>1 DEF CallAddPod, ClusterTypeOK
<1>3. /\ heap' \in [Key -> [PodObj -> Content \cup {Nil}]]
      /\ \A j \in Key, x \in PodObj : heap[j][x] # Nil \/ (j = k /\ x = o) => heap'[j][x] # Nil
  BY HeapSet, NilIsNoObject DEF NewPod
<1>4. ClusterTypeOK'
  BY <1>2, <1>3 DEF ClusterTypeOK, nodeMapVars, bindingVars
<1>5. References'
  BY <1>3 DEF References, ClusterTypeOK, bindingVars, nodeMapVars
<1>6. \A u \in Thread : CallOK(u)'
  BY <1>2, <1>3, NilIsNoAddress DEF CallOK, WithObject, ClusterTypeOK, Frame
<1> QED BY <1>4, <1>5, <1>6

LEMMA AddNodeInv ==
  ASSUME ClusterInv, NEW t \in Thread, NEW n \in Node, NEW i \in NodeInfo, AddNode(t, n, i),
         UNCHANGED <<nodeDataAvailable, heap, call, bindingVars, pods>>
  PROVE  ClusterInv'
<1>1. ClusterTypeOK'
  BY DEF ClusterInv, AddNode, ClusterTypeOK, bindingVars
<1>2. References' /\ \A u \in Thread : CallOK(u)'
  BY DEF ClusterInv, ClusterTypeOK, AddNode, References, CallOK, bindingVars
<1> QED BY <1>1, <1>2 DEF ClusterInv

LEMMA DeleteNodeInv ==
  ASSUME ClusterInv, NEW n \in Node, DeleteNode(n), UNCHANGED <<nodeDataAvailable, heap, call>>
  PROVE  ClusterInv'
<1> USE DEF ClusterInv
<1>1. /\ bound' \in [Node -> [Key -> PodObj \cup {Nil}]]
      /\ \A m \in Node, k \in Key : bound'[m][k] \in {bound[m][k], Nil}
  BY DEF DeleteNode, NoBindings, ClusterTypeOK
<1>2. used' \in [Node -> [Key -> Int]]
  BY DEF DeleteNode, NothingUsed, ClusterTypeOK
<1>3. /\ pods' \in [Key -> PodObj \cup {Nil}]
      /\ \A k \in Key : pods'[k] \in {pods[k], Nil}
  BY DEF DeleteNode, ClusterTypeOK
<1>4. ClusterTypeOK'
  BY <1>1, <1>2, <1>3 DEF DeleteNode, ClusterTypeOK
<1>5. References'
  BY <1>1, <1>3 DEF References, DeleteNode, ClusterTypeOK
<1>6. \A u \in Thread : CallOK(u)'
  BY DEF CallOK
<1> QED BY <1>4, <1>5, <1>6

LEMMA ShowInv ==
  ASSUME ClusterInv, NEW t \in Thread, Show(t),
         held' = [held EXCEPT ![t] = Nil],
         UNCHANGED <<nodeDataAvailable, bindingVars, pods, heap, call>>
  PROVE  ClusterInv'
<1>1. ClusterTypeOK'
  BY DEF ClusterInv, Show, ClusterTypeOK, References, bindingVars
<1>2. References' /\ \A u \in Thread : CallOK(u)'
  BY DEF ClusterInv, ClusterTypeOK, Show, References, CallOK, bindingVars
<1> QED BY <1>1, <1>2 DEF ClusterInv

-----------------------------------------------------------------------------
(* Type correctness of the controller.  Beside the types: an update handler *)
(* is at work on a live pod, a node handler on a node that is there.        *)

ControllerTypeOK ==
  /\ start \in StartSteps
  /\ seeds \in [nodes : SUBSET (Node \X NodeInfo), pods : SUBSET (Key \X Content)]
  /\ running \subseteq {"pods", "nodes"}
  /\ nodeCall \in [at : NodeSteps, node : Node \cup {Nil}]

Updating == {"lookup", "update", "put", "findToBind", "bind"}

HandlersOK ==
  /\ \A t \in Thread : call[t].at \in {"lookup", "update"} => t = PodWatch
  /\ call[PodWatch].at \in Updating => IsLive(podSeen[call[PodWatch].key])
  /\ nodeCall.at # "idle" => nodeCall.node \in Node /\ nodeSeen[nodeCall.node] # Nil

TypeInv == ClusterInv /\ KubeTypeOK /\ ControllerTypeOK /\ HandlersOK

LEMMA ThreadsDiffer ==
  Main \in Thread /\ NodeWatch \in Thread /\ PodWatch \in Thread /\ PodWatch # Main
BY ThreadsAreThese

LEMMA InitTypeInv == Init => TypeInv
<1> SUFFICES ASSUME Init PROVE TypeInv
  OBVIOUS
<1> USE DEF Init
<1>1. ClusterInv
  BY DEF ClusterInit, ClusterInv, ClusterTypeOK, References, CallOK, WithObject, NoBindings,
         NothingUsed, Idle, Frame, Steps
<1>2. KubeTypeOK
  BY BoundsAreNat DEF KubeInit, KubeTypeOK
<1>3. ControllerTypeOK
  BY DEF ControllerTypeOK, StartSteps, NodeSteps, NoSeeds, NoNodeCall
<1>4. HandlersOK
  BY ThreadsDiffer DEF ClusterInit, HandlersOK, Idle, Updating, NoNodeCall
<1> QED BY <1>1, <1>2, <1>3, <1>4 DEF TypeInv

(* Start *)
LEMMA StartStepTypeInv ==
  ASSUME TypeInv, StartStep
  PROVE  TypeInv'
<1> USE DEF TypeInv
<1>1. ASSUME NEW answer \in Answers, SeedNodesList(answer)
      PROVE  TypeInv'
  <2>1. ClusterInv'
    BY <1>1, AnswersAreThese
       DEF SeedNodesList, ClusterInv, ClusterTypeOK, References, CallOK, nodeMapVars, bindingVars
  <2>2. KubeTypeOK'
    BY <1>1, WatchUnchanged DEF SeedNodesList
  <2>3. {<<n, apiNodes[n].info>> : n \in {m \in Node : apiNodes[m] # Nil}} \subseteq Node \X NodeInfo
    BY DEF KubeTypeOK, NodeState
  <2>4. ControllerTypeOK'
    BY <1>1, <2>3, AnswersAreThese DEF SeedNodesList, ControllerTypeOK, StartSteps
  <2>5. HandlersOK'
    BY <1>1 DEF SeedNodesList, HandlersOK, watchVars, podFeed, nodeFeed
  <2> QED BY <2>1, <2>2, <2>4, <2>5
<1>2. ASSUME NEW answer \in Answers, SeedPodsList(answer)
      PROVE  TypeInv'
  <2>1. ClusterInv' /\ KubeTypeOK'
    BY <1>2, WatchUnchanged, ClusterUnchanged DEF SeedPodsList
  <2>2. {<<k, ContentOf(apiPods[k])>> : k \in {j \in Key : IsLive(apiPods[j])}} \subseteq Key \X Content
    BY DEF KubeTypeOK, PodState, Content, ContentOf, IsLive
  <2>3. ControllerTypeOK'
    BY <1>2, <2>2, AnswersAreThese DEF SeedPodsList, ControllerTypeOK, StartSteps
  <2>4. HandlersOK'
    BY <1>2 DEF SeedPodsList, HandlersOK, watchVars, podFeed, nodeFeed, clusterVars
  <2> QED BY <2>1, <2>3, <2>4
<1>3. ASSUME NEW answer \in Answers, StartNodeWatch(answer) \/ StartPodWatch(answer)
      PROVE  TypeInv'
  <2>1. ClusterInv' /\ KubeTypeOK'
    BY <1>3, WatchUnchanged, ClusterUnchanged DEF StartNodeWatch, StartPodWatch, StartWatch
  <2>2. ControllerTypeOK'
    BY <1>3 DEF StartNodeWatch, StartPodWatch, StartWatch, ControllerTypeOK, StartSteps
  <2>3. HandlersOK'
    BY <1>3 DEF StartNodeWatch, StartPodWatch, StartWatch, HandlersOK, watchVars, podFeed,
                nodeFeed, clusterVars
  <2> QED BY <2>1, <2>2, <2>3
<1>4. ASSUME NEW n \in Node, NEW i \in NodeInfo, SeedNode(n, i)
      PROVE  TypeInv'
  <2>1. ClusterInv'
    BY <1>4, AddNodeInv, ThreadsDiffer DEF SeedNode
  <2>2. KubeTypeOK'
    BY <1>4, WatchUnchanged DEF SeedNode
  <2>3. ControllerTypeOK'
    BY <1>4 DEF SeedNode, ControllerTypeOK, StartSteps
  <2>4. HandlersOK'
    BY <1>4 DEF SeedNode, HandlersOK, watchVars, podFeed, nodeFeed
  <2> QED BY <2>1, <2>2, <2>3, <2>4
<1>5. ASSUME ShowSeededNode
      PROVE  TypeInv'
  <2>1. ClusterInv'
    BY <1>5, ShowInv, ThreadsDiffer DEF ShowSeededNode
  <2>2. KubeTypeOK'
    BY <1>5, WatchUnchanged DEF ShowSeededNode
  <2>3. ControllerTypeOK'
    BY <1>5 DEF ShowSeededNode, ControllerTypeOK, StartSteps
  <2>4. HandlersOK'
    BY <1>5 DEF ShowSeededNode, HandlersOK, watchVars, podFeed, nodeFeed
  <2> QED BY <2>1, <2>2, <2>3, <2>4
<1>6. ASSUME SeedNodesDone \/ SeedPodsDone
      PROVE  TypeInv'
  <2>1. ClusterInv' /\ KubeTypeOK'
    BY <1>6, WatchUnchanged, ClusterUnchanged DEF SeedNodesDone, SeedPodsDone
  <2>2. ControllerTypeOK'
    BY <1>6 DEF SeedNodesDone, SeedPodsDone, ControllerTypeOK, StartSteps
  <2>3. HandlersOK'
    BY <1>6 DEF SeedNodesDone, SeedPodsDone, HandlersOK, watchVars, podFeed, nodeFeed, clusterVars
  <2> QED BY <2>1, <2>2, <2>3
<1>7. ASSUME NEW k \in Key, NEW c \in Content, NEW o \in PodObj, SeedPod(k, c, o)
      PROVE  TypeInv'
  <2>1. ClusterInv'
    <3>1. ContentOf(c) \in Content
      BY DEF Content, ContentOf
    <3> QED BY <1>7, <3>1, NewPodInv, ThreadsDiffer DEF SeedPod
  <2>2. KubeTypeOK'
    BY <1>7, WatchUnchanged DEF SeedPod
  <2>3. ControllerTypeOK'
    BY <1>7 DEF SeedPod, ControllerTypeOK, StartSteps
  <2>4. HandlersOK'
    BY <1>7, ThreadsDiffer
       DEF SeedPod, CallAddPod, HandlersOK, ClusterInv, ClusterTypeOK, watchVars, podFeed, nodeFeed
  <2> QED BY <2>1, <2>2, <2>3, <2>4
<1> QED BY <1>1, <1>2, <1>3, <1>4, <1>5, <1>6, <1>7 DEF StartStep

(* The node watch *)
LEMMA NodeHandlerTypeInv ==
  ASSUME TypeInv, NodeHandler
  PROVE  TypeInv'
<1> USE DEF TypeInv
<1>1. ASSUME NEW n \in Node, NodeEvent(n)
      PROVE  /\ KubeTypeOK' /\ Head(nodeQueue[n]) \in NodeState \cup {Nil}
             /\ nodeSeen' = [nodeSeen EXCEPT ![n] = Head(nodeQueue[n])]
             /\ UNCHANGED <<podSeen, call>>
  BY <1>1, DeliverNodeType DEF NodeEvent, DeliverNode, podFeed
<1>2. ASSUME NEW n \in Node, NodeAdded(n)
      PROVE  TypeInv'
  <2>1. NodeEvent(n) /\ Head(nodeQueue[n]) \in NodeState \cup {Nil}
    BY <1>1, <1>2 DEF NodeAdded
  <2>2. Head(nodeQueue[n]) \in NodeState
    BY <1>2, <2>1 DEF NodeAdded
  <2>3. ClusterInv'
    BY <1>2, <2>1, <2>2, AddNodeInv, ThreadsDiffer DEF NodeAdded, NodeEvent, NodeState
  <2>4. ControllerTypeOK'
    BY <1>2, <2>1 DEF NodeAdded, NodeEvent, startVars, ControllerTypeOK, NodeSteps
  <2>5. HandlersOK'
    BY <1>1, <1>2, <2>1, <2>2, NilIsNoObject DEF NodeAdded, HandlersOK, KubeTypeOK
  <2> QED BY <1>1, <2>1, <2>3, <2>4, <2>5
<1>3. ASSUME NEW n \in Node, NodeLeaves(n)
      PROVE  TypeInv'
  <2>1. NodeEvent(n)
    BY <1>3 DEF NodeLeaves
  <2>2. ClusterInv'
    BY <1>3, <2>1, DeleteNodeInv DEF NodeLeaves, NodeEvent
  <2>3. ControllerTypeOK'
    BY <1>3, <2>1 DEF NodeLeaves, NodeEvent, startVars, ControllerTypeOK
  <2>4. HandlersOK'
    BY <1>1, <1>3, <2>1 DEF NodeLeaves, NodeEvent, HandlersOK
  <2> QED BY <1>1, <2>1, <2>2, <2>3, <2>4
<1>4. ASSUME NEW n \in Node, NodeUpdated(n)
      PROVE  TypeInv'
  <2>1. NodeEvent(n)
    BY <1>4 DEF NodeUpdated
  <2>2. ClusterInv'
    BY <1>4, <2>1, ClusterUnchanged
       DEF NodeUpdated, NodeEvent, clusterVars, storeVars, nodeMapVars, bindingVars
  <2>3. ControllerTypeOK'
    BY <1>4, <2>1 DEF NodeUpdated, NodeEvent, startVars, ControllerTypeOK, NodeSteps
  <2>4. HandlersOK'
    BY <1>1, <1>4, <2>1 DEF NodeUpdated, HandlersOK, KubeTypeOK, Stays
  <2> QED BY <1>1, <2>1, <2>2, <2>3, <2>4
<1>5. ASSUME FindNodeToUpdate
      PROVE  TypeInv'
  <2>1. held' \in [Thread -> Node \cup {Nil}] /\ \A t \in Thread : held'[t] # Nil => held'[t] \in registered
    BY <1>5, ThreadsDiffer DEF FindNodeToUpdate, FindNode, ClusterInv, ClusterTypeOK, References
  <2>2. ClusterInv'
    BY <1>5, <2>1
       DEF FindNodeToUpdate, FindNode, ClusterInv, ClusterTypeOK, References, CallOK, storeVars
  <2>3. KubeTypeOK'
    BY <1>5, WatchUnchanged DEF FindNodeToUpdate
  <2>4. ControllerTypeOK'
    BY <1>5 DEF FindNodeToUpdate, FindNode, startVars, ControllerTypeOK, NodeSteps, NoNodeCall
  <2>5. HandlersOK'
    BY <1>5 DEF FindNodeToUpdate, FindNode, ControllerTypeOK, HandlersOK, NoNodeCall, watchVars,
                podFeed, nodeFeed
  <2> QED BY <2>2, <2>3, <2>4, <2>5
<1>6. ASSUME UpdateNode
      PROVE  TypeInv'
  <2>1. nodeSeen[nodeCall.node].info \in NodeInfo
    BY <1>6 DEF UpdateNode, HandlersOK, KubeTypeOK, NodeState
  <2>2. ClusterInv'
    BY <1>6, <2>1
       DEF UpdateNode, ClusterInv, ClusterTypeOK, References, CallOK, nodeMapVars, bindingVars
  <2>3. KubeTypeOK'
    BY <1>6, WatchUnchanged DEF UpdateNode
  <2>4. ControllerTypeOK'
    BY <1>6 DEF UpdateNode, startVars, ControllerTypeOK, NodeSteps
  <2>5. HandlersOK'
    BY <1>6 DEF UpdateNode, ControllerTypeOK, HandlersOK, watchVars, podFeed, nodeFeed
  <2> QED BY <2>2, <2>3, <2>4, <2>5
<1>7. ASSUME ShowNode
      PROVE  TypeInv'
  <2>1. ClusterInv'
    BY <1>7, ShowInv, ThreadsDiffer DEF ShowNode
  <2>2. KubeTypeOK'
    BY <1>7, WatchUnchanged DEF ShowNode
  <2>3. ControllerTypeOK' /\ HandlersOK'
    BY <1>7 DEF ShowNode, startVars, ControllerTypeOK, HandlersOK, NodeSteps, NoNodeCall, watchVars,
                podFeed, nodeFeed
  <2> QED BY <2>1, <2>2, <2>3
<1> QED BY <1>2, <1>3, <1>4, <1>5, <1>6, <1>7 DEF NodeHandler

(* The pod watch *)
LEMMA PodHandlerTypeInv ==
  ASSUME TypeInv, PodHandler
  PROVE  TypeInv'
<1> USE DEF TypeInv
<1>1. ASSUME NEW k \in Key, PodEvent(k)
      PROVE  /\ KubeTypeOK' /\ Head(podQueue[k]) \in PodState \cup {Nil}
             /\ podSeen' = [podSeen EXCEPT ![k] = Head(podQueue[k])]
             /\ ControllerTypeOK'
             /\ UNCHANGED <<nodeSeen, nodeCall>>
  BY <1>1, DeliverPodType DEF PodEvent, DeliverPod, nodeFeed, ControllerTypeOK, startVars
<1>2. ASSUME NEW k \in Key, NEW o \in PodObj, PodAdded(k, o)
      PROVE  TypeInv'
  <2>1. PodEvent(k) /\ IsLive(Head(podQueue[k]))
    BY <1>2 DEF PodAdded
  <2>2. ContentOf(Head(podQueue[k])) \in Content
    BY <1>1, <2>1 DEF IsLive, PodState, Content, ContentOf
  <2>3. ClusterInv'
    BY <1>2, <2>1, <2>2, NewPodInv, ThreadsDiffer DEF PodAdded, PodEvent
  <2>4. /\ \A t \in Thread : t # PodWatch => call'[t] = call[t]
        /\ call'[PodWatch].at = "put" /\ call'[PodWatch].key = k
    BY <1>2, ThreadsDiffer DEF PodAdded, CallAddPod, ClusterInv, ClusterTypeOK
  <2>5. HandlersOK'
    BY <1>1, <2>1, <2>4 DEF HandlersOK, KubeTypeOK
  <2> QED BY <1>1, <2>1, <2>3, <2>5
<1>3. ASSUME NEW k \in Key, EndedPodAdded(k)
      PROVE  TypeInv'
  <2>1. PodEvent(k)
    BY <1>3 DEF EndedPodAdded
  <2>2. ClusterInv'
    BY <1>3, <2>1, ClusterUnchanged
       DEF EndedPodAdded, PodEvent, clusterVars, storeVars, nodeMapVars, bindingVars
  <2>3. HandlersOK'
    BY <1>1, <1>3, <2>1 DEF EndedPodAdded, PodEvent, At, HandlersOK, Updating
  <2> QED BY <1>1, <2>1, <2>2, <2>3
<1>4. ASSUME NEW k \in Key, NEW step \in {"get", "lookup"}, PodEvent(k), UNCHANGED heap,
             call' = [call EXCEPT ![PodWatch] = [at |-> step, key |-> k, obj |-> Nil]],
             step = "lookup" => IsLive(Head(podQueue[k]))
      PROVE  TypeInv'
  <2>1. ClusterInv'
    BY <1>4, FrameInv, ThreadsDiffer DEF PodEvent, storeVars, nodeMapVars, bindingVars
  <2>2. HandlersOK'
    BY <1>1, <1>4, ThreadsDiffer DEF HandlersOK, Updating, KubeTypeOK, ClusterInv, ClusterTypeOK
  <2> QED BY <1>1, <1>4, <2>1, <2>2
<1>5. ASSUME NEW k \in Key, PodLeaves(k) \/ PodUpdated(k)
      PROVE  TypeInv'
  BY <1>4, <1>5 DEF PodLeaves, PodUpdated, CallDeletePod
<1>6. ASSUME NEW o \in PodObj, UpdateUnknownPod(o)
      PROVE  TypeInv'
  <2> DEFINE k == call[PodWatch].key
  <2>1. k \in Key /\ IsLive(podSeen[k])
    BY <1>6, ThreadsDiffer DEF UpdateUnknownPod, At, ClusterInv, CallOK, HandlersOK, Updating
  <2>2. ContentOf(podSeen[k]) \in Content
    BY <2>1 DEF IsLive, KubeTypeOK, PodState, Content, ContentOf
  <2>3. ClusterInv'
    BY <1>6, <2>1, <2>2, NewPodInv, ThreadsDiffer DEF UpdateUnknownPod
  <2>4. KubeTypeOK' /\ ControllerTypeOK'
    BY <1>6, WatchUnchanged DEF UpdateUnknownPod, ControllerTypeOK, startVars
  <2>5. HandlersOK'
    BY <1>6, <2>1, ThreadsDiffer
       DEF UpdateUnknownPod, CallAddPod, HandlersOK, Updating, ClusterInv, ClusterTypeOK, watchVars,
           podFeed, nodeFeed
  <2> QED BY <2>3, <2>4, <2>5
<1>7. ASSUME UpdateKnownPod
      PROVE  TypeInv'
  <2> DEFINE k == call[PodWatch].key
  <2>1. /\ k \in Key /\ pods[k] \in PodObj /\ heap[k][pods[k]] # Nil /\ IsLive(podSeen[k])
        /\ call' = [call EXCEPT ![PodWatch] = [call[PodWatch] EXCEPT !.at = "update", !.obj = pods[k]]]
    BY <1>7, ThreadsDiffer
       DEF UpdateKnownPod, At, ClusterInv, ClusterTypeOK, CallOK, References, HandlersOK, Updating
  <2>2. [call[PodWatch] EXCEPT !.at = "update", !.obj = pods[k]] \in Frame
    <3>1. call[PodWatch] \in Frame
      BY ThreadsDiffer DEF ClusterInv, ClusterTypeOK
    <3>2. \A f \in Frame, o \in PodObj : [f EXCEPT !.at = "update", !.obj = o] \in Frame
      BY DEF Frame, Steps
    <3> QED BY <2>1, <3>1, <3>2
  <2>3. ClusterTypeOK' /\ References'
    BY <1>7, <2>1, <2>2
       DEF UpdateKnownPod, ClusterInv, ClusterTypeOK, References, storeVars
  <2>4. \A t \in Thread : CallOK(t)'
    BY <1>7, <2>1, <2>2, NilIsNoAddress
       DEF UpdateKnownPod, ClusterInv, ClusterTypeOK, Frame, CallOK, WithObject, storeVars
  <2>5. KubeTypeOK' /\ ControllerTypeOK'
    BY <1>7, WatchUnchanged DEF UpdateKnownPod, ControllerTypeOK, startVars
  <2>6. HandlersOK'
    BY <1>7, <2>1, <2>2, ThreadsDiffer
       DEF UpdateKnownPod, HandlersOK, Updating, ClusterInv, ClusterTypeOK, Frame, watchVars,
           podFeed, nodeFeed
  <2> QED BY <2>3, <2>4, <2>5, <2>6 DEF ClusterInv
<1>8. ASSUME UpdatePod
      PROVE  TypeInv'
  <2> DEFINE k == call[PodWatch].key
             o == call[PodWatch].obj
  <2>1. k \in Key /\ o \in PodObj /\ IsLive(podSeen[k])
    BY <1>8, ThreadsDiffer
       DEF UpdatePod, At, ClusterInv, ClusterTypeOK, Frame, CallOK, WithObject, HandlersOK, Updating
  <2>2. ContentOf(podSeen[k]) \in Content
    BY <2>1 DEF IsLive, KubeTypeOK, PodState, Content, ContentOf
  <2>3. /\ heap' \in [Key -> [PodObj -> Content \cup {Nil}]]
        /\ \A j \in Key, x \in PodObj : heap[j][x] # Nil \/ (j = k /\ x = o) => heap'[j][x] # Nil
    BY <1>8, <2>1, <2>2, HeapSet, NilIsNoObject DEF UpdatePod, ClusterInv
  <2>4. /\ call' \in [Thread -> Frame]
        /\ \A t \in Thread : t # PodWatch => call'[t] = call[t]
        /\ call'[PodWatch].at = "put" /\ call'[PodWatch].key = k /\ call'[PodWatch].obj = o
    BY <1>8, GotoFrames, ThreadsDiffer DEF UpdatePod, ClusterInv, ClusterTypeOK, Steps
  <2>5. ClusterTypeOK'
    BY <1>8, <2>3, <2>4 DEF UpdatePod, ClusterInv, ClusterTypeOK, nodeMapVars, bindingVars
  <2>6. References'
    BY <1>8, <2>3 DEF UpdatePod, ClusterInv, ClusterTypeOK, References, nodeMapVars, bindingVars
  <2>7. ASSUME NEW t \in Thread
        PROVE  CallOK(t)'
    <3>1. CASE t = PodWatch
      BY <2>1, <2>3, <2>4, <3>1, NilIsNoAddress DEF CallOK
    <3>2. CASE t # PodWatch
      <4>1. CallOK(t) /\ call'[t] = call[t] /\ call[t] \in Frame
        BY <2>4, <3>2 DEF ClusterInv, ClusterTypeOK
      <4> QED BY <2>3, <4>1 DEF CallOK, WithObject, Frame
    <3> QED BY <3>1, <3>2
  <2>8. KubeTypeOK' /\ ControllerTypeOK'
    BY <1>8, WatchUnchanged DEF UpdatePod, ControllerTypeOK, startVars
  <2>9. HandlersOK'
    BY <1>8, <2>1, <2>4 DEF UpdatePod, HandlersOK, Updating, watchVars, podFeed, nodeFeed
  <2> QED BY <2>5, <2>6, <2>7, <2>8, <2>9 DEF ClusterInv
<1> QED BY <1>2, <1>3, <1>5, <1>6, <1>7, <1>8 DEF PodHandler

LEMMA NextTypeInv == TypeInv /\ [Next]_vars => TypeInv'
<1> SUFFICES ASSUME TypeInv, [Next]_vars PROVE TypeInv'
  OBVIOUS
<1>1. ASSUME UNCHANGED <<startVars, nodeCall>>, UNCHANGED <<podSeen, nodeSeen, call>>
      PROVE  ControllerTypeOK' /\ HandlersOK'
  BY <1>1 DEF TypeInv, ControllerTypeOK, HandlersOK, startVars
<1>2. ASSUME NEW t \in Thread, ClusterCall(t)
      PROVE  TypeInv'
  <2>1. ClusterInv' /\ KubeTypeOK'
    BY <1>2, PodCallInv, WatchUnchanged DEF ClusterCall, TypeInv
  <2>2. ControllerTypeOK'
    BY <1>2 DEF ClusterCall, TypeInv, ControllerTypeOK, startVars
  <2>3. /\ \A u \in Thread : u # t => call'[u] = call[u]
        /\ call'[t].at \notin {"lookup", "update"}
        /\ call'[t].at \in Updating => call[t].at \in Updating /\ call'[t].key = call[t].key
    <3>1. CASE PutPod(t) \/ FindNodeToBind(t)
      BY <3>1, GotoFrames, ReturnFrames
         DEF PutPod, FindNodeToBind, FindNode, At, TypeInv, ClusterInv, ClusterTypeOK, Steps, Idle,
             Updating
    <3>2. CASE BindPod(t) \/ DropPod(t)
      BY <3>2, ReturnFrames
         DEF BindPod, DropPod, TypeInv, ClusterInv, ClusterTypeOK, Idle, Updating
    <3>3. CASE GetPodToDelete(t)
      BY <3>3 DEF GetPodToDelete, Goto, TypeInv, ClusterInv, ClusterTypeOK, Frame, Updating
    <3>4. CASE FindNodeToUnbind(t) \/ UnbindPod(t)
      BY <3>4, GotoFrames
         DEF FindNodeToUnbind, UnbindPod, FindNode, TypeInv, ClusterInv, ClusterTypeOK, Steps,
             Updating
    <3> QED BY <1>2, <3>1, <3>2, <3>3, <3>4 DEF ClusterCall, PodCall
  <2>4. UNCHANGED <<podSeen, nodeSeen, nodeCall>>
    BY <1>2 DEF ClusterCall, watchVars, podFeed, nodeFeed
  <2>5. HandlersOK'
    BY <2>3, <2>4, ThreadsDiffer DEF TypeInv, HandlersOK
  <2> QED BY <2>1, <2>2, <2>5 DEF TypeInv
<1>3. ASSUME NEW resource \in {"pods", "nodes"}, WatchBegins(resource)
      PROVE  TypeInv'
  <2>1. KubeTypeOK'
    BY <1>3, ListType DEF WatchBegins, List, TypeInv, KubeTypeOK
  <2>2. UNCHANGED <<podSeen, nodeSeen, call>>
    BY <1>3 DEF WatchBegins, List, ListPods, ListNodes, nodeFeed, podFeed, clusterVars
  <2> QED BY <1>1, <1>3, <2>1, <2>2, ClusterUnchanged DEF WatchBegins, TypeInv
<1>4. ASSUME Environment
      PROVE  TypeInv'
  <2>1. CASE ApiChange
    <3>1. UNCHANGED <<podSeen, nodeSeen>>
      BY <2>1 DEF ApiChange, CreatePod, ResizePod, SchedulePod, EndPod, RemovePod, SetPod, JoinNode,
                  ChangeNode, MarkNode, RemoveNode, SetNode, podFeed, nodeFeed
    <3> QED BY <1>1, <1>4, <2>1, <3>1, ApiChangeType, ClusterUnchanged
            DEF Environment, TypeInv, clusterVars
  <2>2. ASSUME NEW resource \in {"pods", "nodes"}, LoseWatch(resource)
        PROVE  TypeInv'
    <3>1. losses' \in 0..MaxLosses
      BY <2>2, BoundsAreNat DEF LoseWatch, TypeInv, KubeTypeOK
    <3>2. KubeTypeOK'
      BY <2>2, <3>1 DEF LoseWatch, TypeInv, KubeTypeOK, apiVars, podFeed, nodeFeed
    <3>3. UNCHANGED <<podSeen, nodeSeen>>
      BY <2>2 DEF LoseWatch, nodeFeed, podFeed
    <3> QED BY <1>1, <1>4, <3>2, <3>3, ClusterUnchanged DEF Environment, TypeInv, clusterVars
  <2> QED BY <1>4, <2>1, <2>2 DEF Environment
<1>5. CASE UNCHANGED vars
  BY <1>1, <1>5, ClusterUnchanged, WatchUnchanged
     DEF vars, TypeInv, clusterVars, watchVars, podFeed, nodeFeed
<1> QED
  BY <1>2, <1>3, <1>4, <1>5, StartStepTypeInv, NodeHandlerTypeInv, PodHandlerTypeInv DEF Next

(* Every variable of the controller keeps its type, whatever the nodes,    *)
(* the pods, the answers of the API and the order of the goroutines.       *)
THEOREM TypeCorrect == Spec => []TypeOK
<1>1. TypeInv => TypeOK
  BY DEF TypeInv, ClusterInv, ControllerTypeOK, TypeOK
<1> QED BY <1>1, InitTypeInv, NextTypeInv, PTL DEF Spec

-----------------------------------------------------------------------------
(* The store shows what was delivered last.                                *)
(*                                                                         *)
(* The pod handler is the only writer of the pods it has delivered: Start  *)
(* is done with its own AddPod calls before the pod watch runs, and the    *)
(* node watch only takes pods away.  While the handler is at work on a pod *)
(* the store may lag; what it is about to put does not.                    *)

StartOrder ==
  /\ \A t \in Thread : At(t, "idle") => call[t] = Idle
  /\ call[Main] # Idle => start = "seedPods"
  /\ call[NodeWatch] = Idle
  /\ call[PodWatch] # Idle => "pods" \in listed
  /\ "pods" \in running => start = "done"
  /\ listed \subseteq running
  /\ \A k \in Key : podQueue[k] # <<>> \/ podSeen[k] # Nil => "pods" \in listed

Deleting == {"get", "findToUnbind", "unbind", "drop"}
IsFreshInStore(k) == pods[k] # Nil => heap[k][pods[k]] = ContentOf(podSeen[k])

FreshInv ==
  /\ \A k \in Key : IsLive(podSeen[k]) /\ Handled(k) => IsFreshInStore(k)
  /\ At(PodWatch, "put") =>
       heap[call[PodWatch].key][call[PodWatch].obj] = ContentOf(podSeen[call[PodWatch].key])
  /\ call[PodWatch].at \in {"findToBind", "bind"} => IsFreshInStore(call[PodWatch].key)
  /\ call[PodWatch].at \in Deleting => ~IsLive(podSeen[call[PodWatch].key])

LEMMA InitFresh == Init => StartOrder /\ FreshInv
<1> SUFFICES ASSUME Init PROVE StartOrder /\ FreshInv
  OBVIOUS
<1>1. StartOrder
  BY ThreadsDiffer DEF Init, ClusterInit, KubeInit, StartOrder
<1>2. FreshInv
  BY ThreadsDiffer
     DEF Init, ClusterInit, KubeInit, FreshInv, Idle, At, Deleting, IsFreshInStore
<1> QED BY <1>1, <1>2

(* What a section of a call does to the frames and to the pod map. *)
LEMMA PodCallFrames ==
  ASSUME TypeInv, NEW t \in Thread, PodCall(t)
  PROVE  /\ \A u \in Thread : u # t => call'[u] = call[u]
         /\ call[t].at # "idle"
         /\ \/ call'[t] = Idle
            \/ call'[t].at # "idle" /\ call'[t].key = call[t].key
         /\ call'[t].at \in {"findToBind", "bind"} => call[t].at \in {"put", "findToBind"}
         /\ call'[t].at \in Deleting => call[t].at \in Deleting
         /\ call'[t].at \notin {"put", "lookup", "update"}
         /\ heap' = heap
<1> USE DEF TypeInv, ClusterInv, ClusterTypeOK
<1>1. CASE PutPod(t)
  BY <1>1, GotoFrames, ReturnFrames DEF PutPod, At, Steps, Idle, Deleting
<1>2. CASE FindNodeToBind(t)
  BY <1>2, GotoFrames, ReturnFrames
     DEF FindNodeToBind, FindNode, At, Steps, Idle, Deleting, storeVars
<1>3. CASE BindPod(t) \/ DropPod(t)
  BY <1>3, ReturnFrames DEF BindPod, DropPod, At, Idle, Deleting
<1>4. CASE GetPodToDelete(t)
  BY <1>4 DEF GetPodToDelete, At, Goto, Frame, Deleting, storeVars
<1>5. CASE FindNodeToUnbind(t) \/ UnbindPod(t)
  BY <1>5, GotoFrames
     DEF FindNodeToUnbind, UnbindPod, FindNode, At, Steps, Deleting, storeVars
<1> QED BY <1>1, <1>2, <1>3, <1>4, <1>5 DEF PodCall

LEMMA StartOrderNext ==
  ASSUME TypeInv, StartOrder, Next
  PROVE  StartOrder'
<1> DEFINE FramesOK == /\ \A t \in Thread : At(t, "idle") => call[t] = Idle
                       /\ call[Main] # Idle => start = "seedPods"
                       /\ call[NodeWatch] = Idle
                       /\ call[PodWatch] # Idle => "pods" \in listed
           FeedOK == /\ "pods" \in running => start = "done"
                     /\ listed \subseteq running
                     /\ \A k \in Key : podQueue[k] # <<>> \/ podSeen[k] # Nil => "pods" \in listed
<1>1. FramesOK /\ FeedOK
  BY DEF StartOrder
<1>2. ASSUME NEW t \in Thread, t # NodeWatch, NEW step \in Steps, NEW k, NEW o, step # "idle",
             call' = [call EXCEPT ![t] = [at |-> step, key |-> k, obj |-> o]],
             t = Main => start' = "seedPods", t = PodWatch => "pods" \in listed',
             start' = start, listed' = listed
      PROVE  FramesOK'
  BY <1>1, <1>2, ThreadsAreThese DEF At, TypeInv, ClusterInv, ClusterTypeOK
<1>3. CASE StartStep
  <2>1. ASSUME NEW answer \in Answers,
               SeedNodesList(answer) \/ SeedPodsList(answer)
                 \/ StartNodeWatch(answer) \/ StartPodWatch(answer)
        PROVE  StartOrder'
    BY <1>1, <2>1
       DEF SeedNodesList, SeedPodsList, StartNodeWatch, StartPodWatch, StartWatch, StartOrder, At,
           clusterVars, watchVars, podFeed
  <2>2. CASE (\E n \in Node, i \in NodeInfo : SeedNode(n, i)) \/ ShowSeededNode \/ SeedNodesDone
    BY <1>1, <2>2
       DEF SeedNode, ShowSeededNode, SeedNodesDone, StartOrder, At, clusterVars, watchVars, podFeed
  <2>3. ASSUME NEW k \in Key, NEW c \in Content, NEW o \in PodObj, SeedPod(k, c, o)
        PROVE  StartOrder'
    <3>1. UNCHANGED <<start, running, listed, podQueue, podSeen>> /\ start = "seedPods"
      BY <2>3 DEF SeedPod, watchVars, podFeed
    <3>2. FramesOK'
      BY <1>2, <2>3, <3>1, ThreadsAreThese DEF SeedPod, CallAddPod, Steps
    <3> QED BY <1>1, <3>1, <3>2 DEF StartOrder
  <2>4. CASE SeedPodsDone
    BY <1>1, <2>4, ThreadsDiffer
       DEF SeedPodsDone, StartOrder, At, clusterVars, watchVars, podFeed
  <2> QED BY <1>3, <2>1, <2>2, <2>3, <2>4 DEF StartStep
<1>4. CASE NodeHandler
  <2>1. UNCHANGED <<call, start, running, listed, podQueue, podSeen>>
    BY <1>4 DEF NodeHandler, NodeAdded, NodeLeaves, NodeUpdated, NodeEvent, DeliverNode,
                FindNodeToUpdate, UpdateNode, ShowNode, startVars, watchVars, podFeed
  <2> QED BY <1>1, <2>1 DEF StartOrder, At
<1>5. ASSUME NEW k \in Key, PodEvent(k)
      PROVE  FeedOK' /\ UNCHANGED <<start, listed>> /\ "pods" \in listed
  BY <1>1, <1>5 DEF PodEvent, DeliverPod, startVars, TypeInv, KubeTypeOK
<1>6. CASE PodHandler
  <2>1. ASSUME NEW k \in Key, NEW o \in PodObj, PodAdded(k, o)
        PROVE  StartOrder'
    BY <1>2, <1>5, <2>1, ThreadsAreThese DEF PodAdded, CallAddPod, Steps, StartOrder
  <2>2. ASSUME NEW k \in Key, EndedPodAdded(k)
        PROVE  StartOrder'
    BY <1>1, <1>5, <2>2 DEF EndedPodAdded, StartOrder, At
  <2>3. ASSUME NEW k \in Key, PodLeaves(k) \/ PodUpdated(k)
        PROVE  StartOrder'
    BY <1>2, <1>5, <2>3, ThreadsAreThese
       DEF PodLeaves, PodUpdated, CallDeletePod, Steps, StartOrder
  <2>4. ASSUME NEW o \in PodObj, UpdateUnknownPod(o)
        PROVE  StartOrder'
    <3>1. UNCHANGED <<start, running, listed, podQueue, podSeen>> /\ "pods" \in listed
      BY <1>1, <2>4 DEF UpdateUnknownPod, At, Idle, startVars, watchVars, podFeed
    <3>2. FramesOK'
      BY <1>2, <2>4, <3>1, ThreadsAreThese DEF UpdateUnknownPod, CallAddPod, Steps
    <3> QED BY <1>1, <3>1, <3>2 DEF StartOrder
  <2>5. CASE UpdateKnownPod \/ UpdatePod
    <3>1. UNCHANGED <<start, running, listed, podQueue, podSeen>> /\ "pods" \in listed
      BY <1>1, <2>5 DEF UpdateKnownPod, UpdatePod, At, Idle, startVars, watchVars, podFeed
    <3>2. /\ \A t \in Thread : t # PodWatch => call'[t] = call[t]
          /\ call'[PodWatch].at # "idle"
      BY <2>5, ThreadsDiffer
         DEF UpdateKnownPod, UpdatePod, Goto, TypeInv, ClusterInv, ClusterTypeOK, Frame
    <3> QED BY <1>1, <3>1, <3>2, ThreadsAreThese DEF StartOrder, At
  <2> QED BY <1>6, <2>1, <2>2, <2>3, <2>4, <2>5 DEF PodHandler
<1>7. ASSUME NEW t \in Thread, ClusterCall(t)
      PROVE  StartOrder'
  <2>1. UNCHANGED <<start, running, listed, podQueue, podSeen>>
    BY <1>7 DEF ClusterCall, startVars, watchVars, podFeed
  <2>2. FramesOK'
    BY <1>1, <1>7, <2>1, PodCallFrames, ThreadsAreThese DEF ClusterCall, At, Idle
  <2> QED BY <1>1, <2>1, <2>2 DEF StartOrder
<1>8. ASSUME NEW resource \in {"pods", "nodes"}, WatchBegins(resource)
      PROVE  StartOrder'
  BY <1>1, <1>8
     DEF WatchBegins, List, ListPods, ListNodes, StartOrder, At, clusterVars, startVars,
         podFeed
<1>9. CASE Environment
  <2>1. UNCHANGED <<call, start, running, listed, podSeen>>
    BY <1>9 DEF Environment, ApiChange, CreatePod, ResizePod, SchedulePod, EndPod, RemovePod, SetPod,
                JoinNode, ChangeNode, MarkNode, RemoveNode, SetNode, LoseWatch, nodeFeed,
                clusterVars, startVars, podFeed
  <2>2. watching \subseteq listed
    BY DEF TypeInv, KubeTypeOK
  <2>3. podQueue' = podQueue \/ "pods" \in listed
    BY <1>9, <2>2 DEF Environment, ApiChange, CreatePod, ResizePod, SchedulePod, EndPod, RemovePod,
                      SetPod, JoinNode, ChangeNode, MarkNode, RemoveNode, SetNode, LoseWatch, podFeed
  <2> QED BY <1>1, <2>1, <2>3 DEF StartOrder, At
<1> QED BY <1>3, <1>4, <1>6, <1>7, <1>8, <1>9 DEF Next

(* Steps that leave the handler and the contents alone may only take pods   *)
(* away.                                                                    *)
LEMMA FreshUntouched ==
  ASSUME FreshInv, UNCHANGED <<podSeen, heap>>, call'[PodWatch] = call[PodWatch],
         \A k \in Key : pods'[k] \in {pods[k], Nil},
         At(PodWatch, "idle") => call[PodWatch] = Idle,
         ~At(PodWatch, "idle") => call[PodWatch].key \in Key
  PROVE  FreshInv'
<1>1. \A k \in Key : IsFreshInStore(k) => IsFreshInStore(k)'
  BY DEF IsFreshInStore
<1>2. \A k \in Key : IsLive(podSeen[k]) /\ Handled(k) => IsFreshInStore(k)'
  BY <1>1 DEF FreshInv
<1>3. ASSUME call[PodWatch].at \in {"findToBind", "bind"}
      PROVE  \E k \in Key : k = call[PodWatch].key /\ IsFreshInStore(k)'
  BY <1>1, <1>3 DEF FreshInv, At
<1> QED BY <1>2, <1>3 DEF FreshInv, Handled, At, IsFreshInStore

LEMMA FreshNext ==
  ASSUME TypeInv, StartOrder, FreshInv, Next
  PROVE  FreshInv'
<1> DEFINE w == call[PodWatch]
<1>1. /\ w \in Frame /\ (w.at = "idle" => w = Idle)
      /\ w.at # "idle" => w.key \in Key
      /\ \A k \in Key : pods[k] \in PodObj \cup {Nil}
  BY ThreadsDiffer DEF TypeInv, ClusterInv, ClusterTypeOK, StartOrder, At, CallOK
<1>2. ASSUME UNCHANGED <<podSeen, heap>>, call'[PodWatch] = w,
             \A k \in Key : pods'[k] \in {pods[k], Nil}
      PROVE  FreshInv'
  BY <1>1, <1>2, FreshUntouched DEF Frame, At
<1>3. (* Before the pod watch runs nothing is delivered. *)
      ASSUME "pods" \notin listed, UNCHANGED podSeen, call'[PodWatch] = w
      PROVE  FreshInv'
  <2>1. w = Idle /\ \A k \in Key : podSeen[k] = Nil
    BY <1>3 DEF StartOrder
  <2> QED BY <1>3, <2>1 DEF FreshInv, At, Idle, IsLive, Deleting
<1>4. ASSUME UNCHANGED <<podSeen, heap, call, pods>>
      PROVE  FreshInv'
  BY <1>1, <1>2, <1>4
<1>5. CASE StartStep
  <2>1. ASSUME NEW k \in Key, NEW c \in Content, NEW o \in PodObj, SeedPod(k, c, o)
        PROVE  FreshInv'
    <3>1. "pods" \notin listed
      BY <2>1 DEF SeedPod, StartOrder
    <3>2. call'[PodWatch] = w /\ UNCHANGED podSeen
      BY <2>1, ThreadsDiffer
         DEF SeedPod, CallAddPod, TypeInv, ClusterInv, ClusterTypeOK, watchVars, podFeed
    <3> QED BY <1>3, <3>1, <3>2
  <2>2. CASE ~\E k \in Key, c \in Content, o \in PodObj : SeedPod(k, c, o)
    BY <1>4, <1>5, <2>2
       DEF StartStep, SeedNodesList, SeedPodsList, StartNodeWatch, StartPodWatch, StartWatch,
           SeedNode, ShowSeededNode, SeedNodesDone, SeedPodsDone, clusterVars, storeVars, watchVars,
           podFeed
  <2> QED BY <2>1, <2>2
<1>6. CASE NodeHandler
  <2>1. UNCHANGED <<podSeen, heap, call>> /\ \A k \in Key : pods'[k] \in {pods[k], Nil}
    <3>1. ASSUME NEW n \in Node, NodeLeaves(n)
          PROVE  UNCHANGED <<podSeen, heap, call>> /\ \A k \in Key : pods'[k] \in {pods[k], Nil}
      BY <3>1 DEF NodeLeaves, NodeEvent, DeliverNode, DeleteNode, podFeed
    <3>2. CASE ~\E n \in Node : NodeLeaves(n)
      BY <1>6, <3>2
         DEF NodeHandler, NodeAdded, NodeUpdated, NodeEvent, DeliverNode, FindNodeToUpdate, FindNode,
             UpdateNode, ShowNode, storeVars, watchVars, podFeed
    <3> QED BY <3>1, <3>2
  <2> QED BY <1>2, <2>1
<1>7. ASSUME NEW k \in Key, PodEvent(k)
      PROVE  /\ w = Idle /\ UNCHANGED pods
             /\ \A j \in Key : j # k => podSeen'[j] = podSeen[j]
             /\ podSeen'[k] = Head(podQueue[k])
  BY <1>1, <1>7 DEF PodEvent, DeliverPod, At, TypeInv, KubeTypeOK
<1>8. ASSUME NEW k \in Key, NEW o \in PodObj, NEW p, NewPod(k, o, p)
      PROVE  /\ \A j \in Key : pods[j] # Nil => heap'[j][pods[j]] = heap[j][pods[j]]
             /\ heap'[k][o] = ContentOf(p)
  <2>1. o # pods[k]
    BY <1>8 DEF NewPod, IsFresh, InUse
  <2> QED BY <1>1, <1>8, <2>1 DEF NewPod, TypeInv, ClusterInv, ClusterTypeOK
<1>9. CASE PodHandler
  <2>1. ASSUME NEW k \in Key, NEW o \in PodObj, PodAdded(k, o)
        PROVE  FreshInv'
    <3>1. PodEvent(k) /\ NewPod(k, o, Head(podQueue[k]))
      BY <2>1 DEF PodAdded
    <3>2. call'[PodWatch] = [at |-> "put", key |-> k, obj |-> o]
      BY <2>1, ThreadsDiffer DEF PodAdded, CallAddPod, TypeInv, ClusterInv, ClusterTypeOK
    <3>3. \A j \in Key : IsLive(podSeen'[j]) /\ j # k => IsFreshInStore(j)'
      BY <1>7, <1>8, <3>1, NilIsNoName DEF FreshInv, Handled, IsFreshInStore, Idle
    <3> QED BY <1>7, <1>8, <3>1, <3>2, <3>3 DEF FreshInv, Handled, At, Deleting
  <2>2. ASSUME NEW k \in Key, EndedPodAdded(k)
        PROVE  FreshInv'
    <3>1. PodEvent(k) /\ ~IsLive(Head(podQueue[k])) /\ UNCHANGED <<heap, call>>
      BY <2>2 DEF EndedPodAdded
    <3> QED BY <1>7, <3>1, NilIsNoName
            DEF FreshInv, Handled, IsFreshInStore, Idle, At, Deleting
  <2>3. ASSUME NEW k \in Key, PodLeaves(k) \/ PodUpdated(k)
        PROVE  FreshInv'
    <3>1. PodEvent(k) /\ UNCHANGED heap
      BY <2>3 DEF PodLeaves, PodUpdated
    <3>2. /\ call'[PodWatch].key = k
          /\ \/ call'[PodWatch].at = "get" /\ ~IsLive(Head(podQueue[k]))
             \/ call'[PodWatch].at = "lookup"
      BY <2>3, ThreadsDiffer
         DEF PodLeaves, PodUpdated, CallDeletePod, TypeInv, ClusterInv, ClusterTypeOK
    <3>3. \A j \in Key : IsLive(podSeen'[j]) /\ j # k => IsFreshInStore(j)'
      BY <1>7, <3>1, NilIsNoName DEF FreshInv, Handled, IsFreshInStore, Idle
    <3> QED BY <1>7, <3>1, <3>2, <3>3 DEF FreshInv, Handled, At, Deleting
  <2>4. ASSUME NEW o \in PodObj, UpdateUnknownPod(o)
        PROVE  FreshInv'
    <3>1. w.key \in Key /\ NewPod(w.key, o, podSeen[w.key]) /\ UNCHANGED <<podSeen, pods>>
      BY <1>1, <2>4 DEF UpdateUnknownPod, At, watchVars, podFeed
    <3>2. call'[PodWatch] = [at |-> "put", key |-> w.key, obj |-> o]
      BY <2>4, ThreadsDiffer DEF UpdateUnknownPod, CallAddPod, TypeInv, ClusterInv, ClusterTypeOK
    <3>3. \A j \in Key : IsLive(podSeen[j]) /\ j # w.key => IsFreshInStore(j)'
      BY <1>8, <3>1 DEF FreshInv, Handled, IsFreshInStore
    <3> QED BY <1>8, <3>1, <3>2, <3>3 DEF FreshInv, Handled, At, Deleting
  <2>5. CASE UpdateKnownPod
    <3>1. UNCHANGED <<podSeen, heap, pods>>
      BY <2>5 DEF UpdateKnownPod, storeVars, watchVars, podFeed
    <3>2. call'[PodWatch].at = "update" /\ call'[PodWatch].key = w.key
      BY <2>5, ThreadsDiffer DEF UpdateKnownPod, TypeInv, ClusterInv, ClusterTypeOK, Frame
    <3> QED BY <3>1, <3>2 DEF FreshInv, Handled, IsFreshInStore, At, Deleting
  <2>6. CASE UpdatePod
    <3>1. w.key \in Key /\ w.obj \in PodObj
      BY <1>1, <2>6, ThreadsDiffer DEF UpdatePod, At, TypeInv, ClusterInv, CallOK, WithObject, Frame
    <3>2. /\ heap' = [heap EXCEPT ![w.key][w.obj] = ContentOf(podSeen[w.key])]
          /\ UNCHANGED <<podSeen, pods>>
      BY <2>6 DEF UpdatePod, watchVars, podFeed
    <3>3. call'[PodWatch].at = "put" /\ call'[PodWatch].key = w.key /\ call'[PodWatch].obj = w.obj
      BY <2>6, GotoFrames, ThreadsDiffer DEF UpdatePod, TypeInv, ClusterInv, ClusterTypeOK, Steps
    <3>4. /\ heap'[w.key][w.obj] = ContentOf(podSeen[w.key])
          /\ \A j \in Key : j # w.key => heap'[j] = heap[j]
      BY <3>1, <3>2 DEF TypeInv, ClusterInv, ClusterTypeOK
    <3>5. \A j \in Key : IsLive(podSeen[j]) /\ j # w.key => IsFreshInStore(j)'
      BY <3>2, <3>4 DEF FreshInv, Handled, IsFreshInStore
    <3> QED BY <3>2, <3>3, <3>4, <3>5 DEF FreshInv, Handled, At, Deleting
  <2> QED BY <1>9, <2>1, <2>2, <2>3, <2>4, <2>5, <2>6 DEF PodHandler
<1>10. ASSUME NEW t \in Thread, ClusterCall(t)
       PROVE  FreshInv'
  <2>1. PodCall(t) /\ UNCHANGED podSeen
    BY <1>10 DEF ClusterCall, watchVars, podFeed
  <2>2. CASE t # PodWatch
    <3>1. t = Main /\ call[Main] # Idle
      BY <2>1, <2>2, PodCallFrames, ThreadsAreThese DEF StartOrder, Idle
    <3>2. "pods" \notin listed
      BY <3>1 DEF StartOrder
    <3> QED BY <1>3, <2>1, <2>2, <3>2, PodCallFrames, ThreadsDiffer
  <2>3. CASE t = PodWatch
    <3>1. /\ w.at # "idle" /\ w.key \in Key /\ heap' = heap
          /\ \/ call'[PodWatch] = Idle
             \/ call'[PodWatch].at # "idle" /\ call'[PodWatch].key = w.key
      BY <1>1, <2>1, <2>3, PodCallFrames
    <3>2. \A j \in Key : j # w.key => pods'[j] = pods[j]
      BY <2>1, <2>3
         DEF PodCall, PutPod, FindNodeToBind, BindPod, GetPodToDelete, FindNodeToUnbind, FindNode,
             UnbindPod, DropPod, storeVars, TypeInv, ClusterInv, ClusterTypeOK
    <3>3. \A j \in Key : IsLive(podSeen[j]) /\ j # w.key => IsFreshInStore(j)'
      BY <2>1, <3>1, <3>2 DEF FreshInv, Handled, IsFreshInStore
    <3>4. ASSUME w.at \in {"put", "findToBind", "bind"}, NEW j \in Key, j = w.key
          PROVE  IsFreshInStore(j)'
      <4>1. CASE w.at = "put"
        <5>1. PutPod(PodWatch)
          BY <2>1, <2>3, <4>1
             DEF PodCall, FindNodeToBind, BindPod, GetPodToDelete, FindNodeToUnbind, UnbindPod,
                 DropPod, At
        <5>2. pods'[j] = w.obj
          BY <3>4, <5>1 DEF PutPod, TypeInv, ClusterInv, ClusterTypeOK
        <5>3. heap[j][w.obj] = ContentOf(podSeen[j])
          BY <3>4, <4>1 DEF FreshInv, At
        <5> QED BY <2>1, <3>1, <5>2, <5>3 DEF IsFreshInStore
      <4>2. CASE w.at \in {"findToBind", "bind"}
        <5>1. UNCHANGED pods
          BY <2>1, <2>3, <4>2
             DEF PodCall, PutPod, FindNodeToBind, FindNode, BindPod, GetPodToDelete,
                 FindNodeToUnbind, UnbindPod, DropPod, At, storeVars
        <5>2. IsFreshInStore(j)
          BY <3>4, <4>2 DEF FreshInv
        <5> QED BY <2>1, <3>1, <5>1, <5>2 DEF IsFreshInStore
      <4> QED BY <3>4, <4>1, <4>2
    <3>5. w.at \in Deleting => ~IsLive(podSeen[w.key])
      BY DEF FreshInv
    <3>6. w.at \in {"put", "findToBind", "bind"} \cup Deleting
      BY <2>1, <2>3
         DEF PodCall, PutPod, FindNodeToBind, BindPod, GetPodToDelete, FindNodeToUnbind, UnbindPod,
             DropPod, At, Deleting
    <3>7. /\ call'[PodWatch].at \in {"findToBind", "bind"} => w.at \in {"put", "findToBind"}
          /\ call'[PodWatch].at \in Deleting => w.at \in Deleting
          /\ call'[PodWatch].at # "put"
      BY <2>1, <2>3, PodCallFrames
    <3>8. ASSUME NEW j \in Key, IsLive(podSeen[j])
          PROVE  IsFreshInStore(j)'
      BY <3>3, <3>4, <3>5, <3>6, <3>8
    <3>9. call'[PodWatch].at \in {"findToBind", "bind"} => IsFreshInStore(call[PodWatch].key)'
      <4> SUFFICES ASSUME call'[PodWatch].at \in {"findToBind", "bind"}
                   PROVE  IsFreshInStore(call[PodWatch].key)'
        OBVIOUS
      <4>1. call'[PodWatch].key = w.key
        BY <3>1 DEF Idle
      <4>2. \A j \in Key : j = w.key => IsFreshInStore(j)'
        BY <3>4, <3>7
      <4> QED BY <3>1, <4>1, <4>2 DEF IsFreshInStore
    <3>10. call'[PodWatch].at \in Deleting => ~IsLive(podSeen'[call'[PodWatch].key])
      BY <2>1, <3>1, <3>5, <3>7 DEF Idle, Deleting
    <3> QED BY <2>1, <3>7, <3>8, <3>9, <3>10 DEF FreshInv, At, Deleting
  <2> QED BY <2>2, <2>3
<1>11. ASSUME NEW resource \in {"pods", "nodes"}, WatchBegins(resource)
       PROVE  FreshInv'
  BY <1>4, <1>11
     DEF WatchBegins, List, ListPods, ListNodes, clusterVars, storeVars, podFeed
<1>12. CASE Environment
  BY <1>4, <1>12
     DEF Environment, ApiChange, CreatePod, ResizePod, SchedulePod, EndPod, RemovePod, SetPod,
         JoinNode, ChangeNode, MarkNode, RemoveNode, SetNode, LoseWatch, nodeFeed,
         clusterVars, storeVars, podFeed
<1> QED BY <1>5, <1>6, <1>9, <1>10, <1>11, <1>12 DEF Next

(* While a pod lives the store never shows an older state of it than the   *)
(* pod watch delivered last, in every environment: with lost watches,      *)
(* objects that change during the seeding, and nodes that come and go.     *)
THEOREM StoreFollowsWatch == Spec => []StoreShowsLastDelivered
<1> DEFINE Inv == TypeInv /\ StartOrder /\ FreshInv
<1>1. Init => Inv
  BY InitTypeInv, InitFresh
<1>2. Inv /\ [Next]_vars => Inv'
  <2>1. CASE Next
    BY <2>1, NextTypeInv, StartOrderNext, FreshNext
  <2>2. CASE UNCHANGED vars
    BY <2>2, NextTypeInv
       DEF vars, clusterVars, storeVars, watchVars, podFeed, startVars, StartOrder, FreshInv,
           IsFreshInStore, Handled, At
  <2> QED BY <2>1, <2>2
<1>3. Inv => StoreShowsLastDelivered
  BY DEF FreshInv, IsFreshInStore, StoreShowsLastDelivered
<1> QED BY <1>1, <1>2, <1>3, PTL DEF Spec

-----------------------------------------------------------------------------
(***************************************************************************)
(* PodsController implements PodTable: its initial state is one of the     *)
(* table's, and each of its steps is a step of the table or changes        *)
(* nothing that the list can see.                                          *)
(***************************************************************************)

(* Only the pod handler deletes pods. *)
MainAdds == call[Main].at \notin Deleting

TableInv == TypeInv /\ StartOrder /\ FreshInv /\ MainAdds

ShownSame == \A k \in Key : Shown(k)' = Shown(k)
ToldSame == \A k \in Key : Told(k)' = Told(k)
FollowingSame == ("pods" \in running') = ("pods" \in running)

TableStep == Table!TableNext \/ UNCHANGED Table!tableVars

LEMMA MainAddsNext ==
  ASSUME TableInv, Next
  PROVE  MainAdds'
<1>1. call \in [Thread -> Frame] /\ Main \in Thread /\ PodWatch # Main
  BY ThreadsDiffer DEF TableInv, TypeInv, ClusterInv, ClusterTypeOK
<1>2. CASE StartStep
  <2>1. ASSUME NEW k \in Key, NEW c \in Content, NEW o \in PodObj, SeedPod(k, c, o)
        PROVE  MainAdds'
    BY <1>1, <2>1 DEF SeedPod, CallAddPod, MainAdds, Deleting
  <2>2. CASE ~\E k \in Key, c \in Content, o \in PodObj : SeedPod(k, c, o)
    <3>1. UNCHANGED call
      BY <1>2, <2>2
         DEF StartStep, SeedNodesList, SeedPodsList, StartNodeWatch, StartPodWatch, StartWatch,
             SeedNode, ShowSeededNode, SeedNodesDone, SeedPodsDone, clusterVars
    <3> QED BY <3>1 DEF TableInv, MainAdds
  <2> QED BY <2>1, <2>2
<1>3. CASE NodeHandler
  BY <1>3
     DEF NodeHandler, NodeAdded, NodeLeaves, NodeUpdated, NodeEvent, FindNodeToUpdate, UpdateNode,
         ShowNode, TableInv, MainAdds
<1>4. CASE PodHandler
  <2>1. call'[Main] = call[Main]
    BY <1>1, <1>4
       DEF PodHandler, PodAdded, EndedPodAdded, PodLeaves, PodUpdated, UpdateUnknownPod,
           UpdateKnownPod, UpdatePod, CallAddPod, CallDeletePod, Goto
  <2> QED BY <2>1 DEF TableInv, MainAdds
<1>5. ASSUME NEW t \in Thread, ClusterCall(t)
      PROVE  MainAdds'
  BY <1>1, <1>5, PodCallFrames DEF ClusterCall, TableInv, MainAdds
<1>6. CASE (\E resource \in {"pods", "nodes"} : WatchBegins(resource)) \/ Environment
  BY <1>6 DEF WatchBegins, Environment, clusterVars, TableInv, MainAdds
<1> QED BY <1>2, <1>3, <1>4, <1>5, <1>6 DEF Next

LEMMA TableInvInductive ==
  /\ Init => TableInv
  /\ TableInv /\ [Next]_vars => TableInv'
<1>1. Init => TableInv
  BY InitTypeInv, InitFresh, ThreadsDiffer
     DEF Init, ClusterInit, TableInv, MainAdds, Idle, Deleting
<1>2. ASSUME TableInv, Next
      PROVE  TableInv'
  BY <1>2, NextTypeInv, StartOrderNext, FreshNext, MainAddsNext DEF TableInv
<1>3. ASSUME TableInv, UNCHANGED vars
      PROVE  TableInv'
  BY <1>3, NextTypeInv
     DEF vars, clusterVars, storeVars, watchVars, podFeed, startVars, StartOrder, FreshInv,
         IsFreshInStore, Handled, At, TableInv, MainAdds
<1> QED BY <1>1, <1>2, <1>3

-----------------------------------------------------------------------------
(* What is told and shown, and when they stay as they are *)

LEMMA Contents ==
  ASSUME TypeInv, NEW k \in Key
  PROVE  /\ Shown(k) \in Content \cup {Nil}
         /\ Shown(k) = Nil <=> pods[k] = Nil
         /\ IsLive(podSeen[k]) => Told(k) \in Content /\ Told(k) # Nil
<1>1. pods[k] # Nil => heap[k][pods[k]] \in Content
  BY DEF TypeInv, ClusterInv, ClusterTypeOK, References
<1>2. IsLive(podSeen[k]) => ContentOf(podSeen[k]) \in Content
  BY DEF TypeInv, KubeTypeOK, IsLive, PodState, ContentOf, Content
<1> QED BY <1>1, <1>2, NilIsNoObject DEF Shown, Told

LEMMA Stutter ==
  ASSUME ShownSame, ToldSame, FollowingSame
  PROVE  TableStep
BY DEF ShownSame, ToldSame, FollowingSame, TableStep, Table!tableVars

LEMMA ShownUntouched ==
  ASSUME UNCHANGED <<pods, heap>>
  PROVE  ShownSame
BY DEF ShownSame, Shown

LEMMA ToldUntouched ==
  ASSUME UNCHANGED podSeen
  PROVE  ToldSame
BY DEF ToldSame, Told

(* A new object is at an address that the pod map does not hold. *)
LEMMA NewPodUnseen ==
  ASSUME TypeInv, NEW k \in Key, NEW o \in PodObj, NEW p, NewPod(k, o, p), UNCHANGED pods
  PROVE  ShownSame
<1>1. o # pods[k]
  BY DEF NewPod, IsFresh, InUse
<1> QED BY <1>1 DEF NewPod, ShownSame, Shown, TypeInv, ClusterInv, ClusterTypeOK

-----------------------------------------------------------------------------
(* One lemma for each kind of step: Start, the node watch, the pod watch,  *)
(* and the sections of AddPod and DeletePod.                               *)

LEMMA StartTableStep ==
  ASSUME TableInv, StartStep
  PROVE  TableStep
<1>1. UNCHANGED <<pods, podSeen>>
  BY DEF StartStep, SeedNodesList, SeedPodsList, StartNodeWatch, StartPodWatch, StartWatch, SeedNode,
         ShowSeededNode, SeedNodesDone, SeedPod, SeedPodsDone, clusterVars, storeVars, watchVars, podFeed
<1>2. ToldSame
  BY <1>1, ToldUntouched
<1>3. ASSUME NEW answer \in Answers, StartPodWatch(answer)
      PROVE  TableStep
  <2>1. ShownSame
    BY <1>3, ShownUntouched DEF StartPodWatch, StartWatch, clusterVars, storeVars
  <2>2. CASE "pods" \in running'
    <3>1. Table!Follow
      BY <1>2, <2>1, <2>2 DEF Table!Follow, ShownSame, ToldSame
    <3> QED BY <3>1 DEF TableStep, Table!TableNext
  <2>3. CASE "pods" \notin running'
    BY <1>2, <1>3, <2>1, <2>3, Stutter DEF StartPodWatch, StartWatch, FollowingSame
  <2> QED BY <2>2, <2>3
<1>4. ASSUME NEW k \in Key, NEW c \in Content, NEW o \in PodObj, SeedPod(k, c, o)
      PROVE  TableStep
  <2>1. ShownSame
    BY <1>1, <1>4, NewPodUnseen DEF SeedPod, TableInv
  <2> QED BY <1>2, <1>4, <2>1, Stutter DEF SeedPod, FollowingSame
<1>5. CASE ~\E answer \in Answers : StartPodWatch(answer)
  <2>1. CASE ~\E k \in Key, c \in Content, o \in PodObj : SeedPod(k, c, o)
    <3>1. UNCHANGED heap
      BY <1>5, <2>1
         DEF StartStep, SeedNodesList, SeedPodsList, StartNodeWatch, StartWatch, SeedNode,
             ShowSeededNode, SeedNodesDone, SeedPodsDone, clusterVars, storeVars
    <3>2. running' \in {running, running \cup {"nodes"}}
      BY <1>5, <2>1
         DEF StartStep, SeedNodesList, SeedPodsList, StartNodeWatch, StartWatch, SeedNode,
             ShowSeededNode, SeedNodesDone, SeedPodsDone
    <3>3. FollowingSame
      BY <3>2 DEF FollowingSame
    <3> QED BY <1>1, <1>2, <3>1, <3>3, ShownUntouched, Stutter
  <2> QED BY <1>4, <2>1
<1> QED BY <1>3, <1>5

LEMMA NodeTableStep ==
  ASSUME TableInv, NodeHandler
  PROVE  TableStep
<1>1. UNCHANGED <<heap, podSeen, running>>
  BY DEF NodeHandler, NodeAdded, NodeLeaves, NodeUpdated, NodeEvent, DeliverNode, FindNodeToUpdate,
         FindNode, UpdateNode, ShowNode, storeVars, startVars, watchVars, podFeed
<1>2. ToldSame /\ FollowingSame
  BY <1>1, ToldUntouched DEF FollowingSame
<1>3. ASSUME NEW n \in Node, NodeLeaves(n)
      PROVE  TableStep
  <2>1. DeleteNode(n)
    BY <1>3 DEF NodeLeaves
  <2>2. CASE n \notin registered
    BY <1>1, <1>2, <2>1, <2>2, ShownUntouched, Stutter DEF DeleteNode
  <2>3. CASE n \in registered
    <3>1. \A k \in Key : Shown(k)' = IF Shown(k) # Nil /\ Shown(k).node = n THEN Nil ELSE Shown(k)
      BY <1>1, <2>1, <2>3, Contents DEF DeleteNode, NodeName, Shown, TableInv
    <3>2. Table!DropNode(n)
      BY <1>2, <3>1 DEF Table!DropNode, ToldSame, FollowingSame
    <3> QED BY <3>2 DEF TableStep, Table!TableNext
  <2> QED BY <2>2, <2>3
<1>4. CASE ~\E n \in Node : NodeLeaves(n)
  <2>1. UNCHANGED pods
    BY <1>4 DEF NodeHandler, NodeAdded, NodeUpdated, NodeEvent, FindNodeToUpdate, FindNode, UpdateNode,
                ShowNode, storeVars
  <2> QED BY <1>1, <1>2, <2>1, ShownUntouched, Stutter
<1> QED BY <1>3, <1>4

(* When the handler hears an event it is done with the ones before. *)
LEMMA EventHeard ==
  ASSUME TableInv, NEW k \in Key, PodEvent(k), ShownSame
  PROVE  TableStep
<1>1. "pods" \in running
  BY DEF PodEvent, DeliverPod, TableInv, StartOrder
<1>2. FollowingSame
  BY DEF PodEvent, startVars, FollowingSame
<1>3. Told(k)' \in Content \cup {Nil}
  <2>1. podSeen'[k] \in PodState \cup {Nil}
    BY DeliverPodType DEF PodEvent, DeliverPod, TableInv, TypeInv, KubeTypeOK
  <2> QED BY <2>1 DEF Told, IsLive, PodState, ContentOf, Content
<1>4. \A j \in Key : j # k => Told(j)' = Told(j)
  BY DEF PodEvent, DeliverPod, Told, TableInv, TypeInv, KubeTypeOK
<1>5. Table!Settled
  <2>1. \A j \in Key : Handled(j)
    BY ThreadsDiffer, NilIsNoName DEF PodEvent, At, Idle, Handled, TableInv, StartOrder
  <2>2. \A j \in Key : Told(j) # Nil => Shown(j) \in {Told(j), Nil}
    BY <2>1 DEF Told, Shown, TableInv, FreshInv, IsFreshInStore
  <2> QED BY <2>2 DEF Table!Settled
<1>6. Table!Hear(k, Told(k)')
  BY <1>1, <1>2, <1>4, <1>5 DEF Table!Hear, ShownSame, FollowingSame
<1> QED BY <1>3, <1>6 DEF TableStep, Table!TableNext

LEMMA Applied ==
  ASSUME NEW k \in Key, "pods" \in running, FollowingSame, ToldSame, Shown(k)' = Told(k),
         \A j \in Key : j # k => Shown(j)' = Shown(j)
  PROVE  TableStep
<1>1. Table!Apply(k)
  BY DEF Table!Apply, FollowingSame, ToldSame
<1> QED BY <1>1 DEF TableStep, Table!TableNext

LEMMA TableSeeds ==
  ASSUME NEW k \in Key, "pods" \notin running, FollowingSame, ToldSame, Shown(k)' \in Content,
         \A j \in Key : j # k => Shown(j)' = Shown(j)
  PROVE  TableStep
<1>1. Table!Seed(k, Shown(k)')
  BY DEF Table!Seed, FollowingSame, ToldSame
<1> QED BY <1>1 DEF TableStep, Table!TableNext

LEMMA MapSet ==
  ASSUME TypeInv, NEW k \in Key, NEW o, pods' = [pods EXCEPT ![k] = o], UNCHANGED heap
  PROVE  /\ Shown(k)' = IF o = Nil THEN Nil ELSE heap[k][o]
         /\ \A j \in Key : j # k => Shown(j)' = Shown(j)
BY DEF Shown, TypeInv, ClusterInv, ClusterTypeOK

LEMMA PodTableStep ==
  ASSUME TableInv, PodHandler
  PROVE  TableStep
<1> DEFINE w == call[PodWatch]
<1>1. ASSUME w # Idle
      PROVE  w.key \in Key /\ "pods" \in running
  BY <1>1, ThreadsDiffer DEF TableInv, StartOrder, At, TypeInv, ClusterInv, CallOK
<1>2. ASSUME NEW k \in Key, NEW o \in PodObj, PodAdded(k, o)
      PROVE  TableStep
  <2>1. ShownSame
    BY <1>2, NewPodUnseen DEF PodAdded, PodEvent, TableInv
  <2> QED BY <1>2, <2>1, EventHeard DEF PodAdded
<1>3. ASSUME NEW k \in Key, EndedPodAdded(k) \/ PodLeaves(k) \/ PodUpdated(k)
      PROVE  TableStep
  <2>1. PodEvent(k) /\ UNCHANGED <<pods, heap>>
    BY <1>3 DEF EndedPodAdded, PodLeaves, PodUpdated, PodEvent
  <2> QED BY <2>1, ShownUntouched, EventHeard
<1>4. ASSUME NEW o \in PodObj, UpdateUnknownPod(o)
      PROVE  TableStep
  <2>1. /\ w # Idle
        /\ NewPod(w.key, o, podSeen[w.key]) /\ UNCHANGED <<pods, podSeen, running>>
    BY <1>4 DEF UpdateUnknownPod, At, Idle, watchVars, podFeed, startVars
  <2>2. ShownSame
    BY <1>1, <2>1, NewPodUnseen DEF TableInv
  <2> QED BY <2>1, <2>2, ToldUntouched, Stutter DEF FollowingSame
<1>5. CASE UpdateKnownPod
  BY <1>5, ShownUntouched, ToldUntouched, Stutter
     DEF UpdateKnownPod, storeVars, watchVars, podFeed, startVars, FollowingSame
<1>6. CASE UpdatePod
  <2>1. /\ w # Idle /\ w.obj \in PodObj
        /\ heap' = [heap EXCEPT ![w.key][w.obj] = ContentOf(podSeen[w.key])]
        /\ UNCHANGED <<pods, podSeen, running>>
    BY <1>6, ThreadsDiffer
       DEF UpdatePod, At, Idle, watchVars, podFeed, startVars, TableInv, TypeInv, ClusterInv, CallOK,
           WithObject, ClusterTypeOK, Frame
  <2>2. w.key \in Key /\ "pods" \in running
    BY <1>1, <2>1
  <2>3. Told(w.key) = ContentOf(podSeen[w.key])
    BY <1>6, ThreadsDiffer DEF UpdatePod, At, TableInv, TypeInv, HandlersOK, Updating, Told
  <2>4. ToldSame /\ FollowingSame
    BY <2>1, ToldUntouched DEF FollowingSame
  <2>5. \A j \in Key : Shown(j)' =
          IF j = w.key /\ pods[j] = w.obj THEN ContentOf(podSeen[j]) ELSE Shown(j)
    BY <2>1, <2>2, NilIsNoAddress DEF Shown, TableInv, TypeInv, ClusterInv, ClusterTypeOK
  <2>6. CASE pods[w.key] = w.obj
    BY <2>2, <2>3, <2>4, <2>5, <2>6, Applied
  <2>7. CASE pods[w.key] # w.obj
    BY <2>4, <2>5, <2>7, Stutter DEF ShownSame
  <2> QED BY <2>6, <2>7
<1> QED BY <1>2, <1>3, <1>4, <1>5, <1>6 DEF PodHandler

(* AddPod takes effect when it puts the pod in the map, DeletePod when it  *)
(* drops it: the other sections change bindings only.                      *)
LEMMA CallTableStep ==
  ASSUME TableInv, NEW t \in Thread, ClusterCall(t)
  PROVE  TableStep
<1>1. PodCall(t) /\ UNCHANGED <<heap, podSeen, running>>
  BY PodCallFrames DEF ClusterCall, watchVars, podFeed, startVars, TableInv
<1>2. ToldSame /\ FollowingSame
  BY <1>1, ToldUntouched DEF FollowingSame
<1>3. /\ call[t] # Idle /\ call[t].key \in Key /\ t # NodeWatch
      /\ t = PodWatch => "pods" \in running
      /\ t = Main => "pods" \notin running
  BY <1>1, PodCallFrames, ThreadsDiffer
     DEF Idle, TableInv, StartOrder, TypeInv, ClusterInv, CallOK
<1> PICK k \in Key : k = call[t].key
  BY <1>3
<1>4. CASE PutPod(t)
  <2>1. /\ call[t].at = "put" /\ heap[k][call[t].obj] \in Content
        /\ pods' = [pods EXCEPT ![k] = call[t].obj] /\ call[t].obj # Nil
    BY <1>3, <1>4
       DEF PutPod, At, TableInv, TypeInv, ClusterInv, CallOK, WithObject, ClusterTypeOK, Frame
  <2>2. /\ Shown(k)' = heap[k][call[t].obj]
        /\ \A j \in Key : j # k => Shown(j)' = Shown(j)
    BY <1>1, <1>3, <2>1, MapSet DEF TableInv
  <2>3. CASE t = Main
    BY <1>2, <1>3, <2>1, <2>2, <2>3, TableSeeds
  <2>4. CASE t = PodWatch
    <3>1. heap[k][call[t].obj] = Told(k)
      BY <2>1, <2>4 DEF TableInv, FreshInv, TypeInv, HandlersOK, Updating, At, Told
    <3> QED BY <1>2, <1>3, <2>2, <2>4, <3>1, Applied
  <2> QED BY <1>3, <2>3, <2>4, ThreadsAreThese
<1>5. CASE DropPod(t)
  <2>1. call[t].at \in Deleting /\ pods' = [pods EXCEPT ![k] = Nil]
    BY <1>5 DEF DropPod, At, Deleting
  <2>2. t = PodWatch
    BY <1>3, <2>1, ThreadsAreThese DEF TableInv, MainAdds
  <2>3. Told(k) = Nil
    BY <2>1, <2>2 DEF TableInv, FreshInv, Told
  <2>4. Shown(k)' = Nil /\ \A j \in Key : j # k => Shown(j)' = Shown(j)
    BY <1>1, <1>3, <2>1, MapSet DEF TableInv
  <2> QED BY <1>2, <1>3, <2>2, <2>3, <2>4, Applied
<1>6. CASE ~PutPod(t) /\ ~DropPod(t)
  <2>1. UNCHANGED pods
    BY <1>1, <1>6 DEF PodCall, FindNodeToBind, BindPod, GetPodToDelete, FindNodeToUnbind, FindNode,
                      UnbindPod, storeVars
  <2> QED BY <1>1, <1>2, <2>1, ShownUntouched, Stutter
<1> QED BY <1>4, <1>5, <1>6

LEMMA FeedTableStep ==
  ASSUME (\E resource \in {"pods", "nodes"} : WatchBegins(resource)) \/ Environment
  PROVE  TableStep
<1>1. UNCHANGED <<pods, heap, running>>
  BY DEF WatchBegins, Environment, clusterVars, storeVars, startVars
<1>2. UNCHANGED podSeen
  BY DEF WatchBegins, List, ListPods, ListNodes, Environment, ApiChange, CreatePod, ResizePod,
         SchedulePod, EndPod, RemovePod, SetPod, JoinNode, ChangeNode, MarkNode, RemoveNode, SetNode,
         LoseWatch, podFeed
<1> QED BY <1>1, <1>2, ShownUntouched, ToldUntouched, Stutter DEF FollowingSame

LEMMA NextTableStep == TableInv /\ [Next]_vars => TableStep
<1>1. CASE UNCHANGED vars
  BY <1>1, ShownUntouched, ToldUntouched, Stutter
     DEF vars, clusterVars, storeVars, watchVars, podFeed, startVars, FollowingSame
<1>2. CASE TableInv /\ Next
  BY <1>2, StartTableStep, NodeTableStep, PodTableStep, CallTableStep, FeedTableStep DEF Next
<1> QED BY <1>1, <1>2

(* The store looks to the list like a table whose rows change in single    *)
(* steps, each event before the next one: for any nodes, pods, answers and *)
(* lost watches, and any order of the goroutines.                          *)
THEOREM StoreIsPodTable == Spec => ImplementsPodTable
<1>1. Init => Table!TableInit
  BY DEF Init, ClusterInit, KubeInit, Table!TableInit, Told, Shown, IsLive
<1>2. TableInv /\ [Next]_vars => [Table!TableNext]_(Table!tableVars)
  BY NextTableStep DEF TableStep
<1> QED BY <1>1, <1>2, TableInvInductive, PTL DEF Spec, ImplementsPodTable, Table!TableSpec

=============================================================================
