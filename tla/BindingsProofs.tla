---------------------------- MODULE BindingsProofs ----------------------------
(***************************************************************************)
(* Theorems about what the nodes count: as long as no watch is lost, no    *)
(* node name returns and nothing changes between the seeding and the lists *)
(* of the informers, a node binds exactly the objects the store has, and   *)
(* without resizes its usage is the sum of what they request.              *)
(***************************************************************************)
EXTENDS NodesProofs

Steady == ~CanChangeEarly /\ ~CanRejoin /\ MaxLosses = 0

-----------------------------------------------------------------------------
(* What one pod may turn into, and what the informer says of it in turn:   *)
(* a pod that was scheduled stays on its node until it is gone.            *)

Fits(c, d) == (c.node # Nil => d.node = c.node) /\ (CanResize \/ d.req = c.req)

SomePod == PodState \cup {Nil}
PodChange == {p \in SomePod \X SomePod : p[1] # Nil /\ p[2] # Nil => IsLive(p[1]) /\ Fits(p[1], p[2])}

PodStory ==
  /\ "pods" \in listed =>
       "pods" \in watching /\ \A k \in Key : LastOf(podSeen[k], podQueue[k]) = apiPods[k]
  /\ \A k \in Key : Chained(PodChange, podSeen[k], podQueue[k])

(* What is seeded is what the informer then lists. *)
SeedsExact ==
  "pods" \notin listed =>
    /\ \A k \in Key : pods[k] # Nil => heap[k][pods[k]] = ContentOf(apiPods[k])
    /\ \A s \in seeds.pods : s[2] = ContentOf(apiPods[s[1]])
    /\ call[Main] # Idle =>
         /\ call[Main].at \in {"put", "findToBind", "bind"}
         /\ heap[call[Main].key][call[Main].obj] = ContentOf(apiPods[call[Main].key])

HeadExact ==
  "pods" \in listed => \A k \in Key :
    pods[k] # Nil /\ podSeen[k] = Nil /\ Handled(k) =>
      podQueue[k] # <<>> /\ heap[k][pods[k]] = ContentOf(Head(podQueue[k]))

-----------------------------------------------------------------------------
(* A node that was unregistered is never registered again. *)

NodesOnce ==
  \A n \in Node :
    /\ n \in gone => apiNodes[n] = Nil
    /\ \A i \in 1..Len(nodeQueue[n]) : nodeQueue[n][i] = Nil => n \in gone /\ i = Len(nodeQueue[n])

NeverBack(n) == "nodes" \in listed /\ (nodeSeen[n] # Nil \/ (n \in gone /\ nodeQueue[n] = <<>>))

-----------------------------------------------------------------------------
(* The bindings of a pod k. *)

BoundOK(k) ==
  \A n \in Node : bound[n][k] # Nil =>
    /\ n \in registered /\ pods[k] # Nil /\ NodeName(k) = n
    /\ heap[k][bound[n][k]].node = n
    /\ CanResize \/ heap[k][bound[n][k]].req = heap[k][pods[k]].req

UsedOK(k) ==
  CanResize \/ \A n \in Node : used[n][k] = IF bound[n][k] = Nil THEN 0 ELSE heap[k][bound[n][k]].req

(* Between PutPod and BindPod a node may still bind the object before. *)
Rebinding(t, k) == call[t].key = k /\ call[t].at \in {"findToBind", "bind"}

SameObject(k) ==
  \A n \in Node : bound[n][k] \in {Nil, pods[k]} \/ \E t \in Thread : Rebinding(t, k)

AddOK(t, k, o) ==
  /\ At(t, "put") /\ pods[k] # Nil => Fits(heap[k][pods[k]], heap[k][o])
  /\ call[t].at \in {"findToBind", "bind"} =>
       /\ pods[k] \in {o, Nil} /\ heap[k][o].node \in Node
       /\ pods[k] = Nil => heap[k][o].node \notin registered /\ NeverBack(heap[k][o].node)
  /\ At(t, "bind") =>
       /\ held[t] \in {heap[k][o].node, Nil}
       /\ \A n \in Node : bound[n][k] # Nil => held[t] = n

DeleteOK(t, k, o) ==
  /\ At(t, "findToUnbind") => \A n \in Node : bound[n][k] # Nil => heap[k][o].node = n
  /\ At(t, "unbind") => \A n \in Node : bound[n][k] # Nil => held[t] = n
  /\ At(t, "drop") => \A n \in Node : bound[n][k] = Nil

UpdateOK(t, k, o) ==
  /\ call[t].at \in {"lookup", "update"} /\ pods[k] # Nil => Fits(heap[k][pods[k]], ContentOf(podSeen[k]))
  /\ At(t, "update") => pods[k] \in {o, Nil}

CallBinds(t) ==
  /\ AddOK(t, call[t].key, call[t].obj)
  /\ DeleteOK(t, call[t].key, call[t].obj)
  /\ UpdateOK(t, call[t].key, call[t].obj)

KeyOK(k) == BoundOK(k) /\ UsedOK(k) /\ SameObject(k)

BindInv ==
  /\ \A k \in Key : KeyOK(k)
  /\ \A t \in Thread : ~At(t, "idle") => CallBinds(t)

-----------------------------------------------------------------------------
(* The feeds *)

LEMMA PodStorySet ==
  ASSUME TypeInv, PodStory, NEW k \in Key, NEW s \in SomePod, SetPod(k, s),
         <<apiPods[k], s>> \in PodChange
  PROVE  PodStory'
<1>1. /\ apiPods \in [Key -> SomePod] /\ podSeen \in [Key -> SomePod]
      /\ podQueue \in [Key -> Seq(SomePod)] /\ watching \subseteq listed
  BY DEF TypeInv, KubeTypeOK, SomePod
<1>2. /\ apiPods' = [apiPods EXCEPT ![k] = s] /\ UNCHANGED <<podSeen, listed, watching>>
  BY DEF SetPod
<1>3. CASE "pods" \notin listed
  <2>1. UNCHANGED podQueue
    BY <1>1, <1>3 DEF SetPod
  <2> QED BY <1>2, <1>3, <2>1 DEF PodStory
<1>4. CASE "pods" \in listed
  <2>1. podQueue' = [podQueue EXCEPT ![k] = Append(podQueue[k], s)]
    BY <1>4 DEF SetPod, PodStory
  <2>2. /\ <<LastOf(podSeen[k], podQueue[k]), s>> \in PodChange
        /\ podQueue[k] \in Seq(SomePod) /\ Chained(PodChange, podSeen[k], podQueue[k])
    BY <1>1, <1>4 DEF PodStory
  <2>3. /\ Chained(PodChange, podSeen[k], Append(podQueue[k], s))
        /\ LastOf(podSeen[k], Append(podQueue[k], s)) = s
    BY <2>2, ChainAppend, LastAfterAppend
  <2>4. \A j \in Key :
          /\ LastOf(podSeen'[j], podQueue'[j]) = apiPods'[j]
          /\ Chained(PodChange, podSeen'[j], podQueue'[j])
    BY <1>1, <1>2, <1>4, <2>1, <2>3 DEF PodStory
  <2> QED BY <1>2, <1>4, <2>4 DEF PodStory
<1> QED BY <1>3, <1>4

LEMMA ApiPodStory ==
  ASSUME TypeInv, PodStory, ApiChange
  PROVE  PodStory'
<1>1. apiPods \in [Key -> PodState \cup {Nil}]
  BY DEF TypeInv, KubeTypeOK
<1>2. ASSUME NEW k \in Key, NEW p \in PodState, NEW q \in PodState, p = apiPods[k],
             ~p.ended, Fits(p, q), SetPod(k, q)
      PROVE  PodStory'
  <2>1. q \in SomePod /\ <<apiPods[k], q>> \in PodChange
    BY <1>2, NilIsNoObject DEF PodChange, SomePod, IsLive
  <2> QED BY <1>2, <2>1, PodStorySet
<1>3. ASSUME NEW k \in Key, NEW r \in Request, CreatePod(k, r)
      PROVE  PodStory'
  <2>1. [node |-> Nil, req |-> r, ended |-> FALSE] \in SomePod
    BY DEF PodState, SomePod
  <2>2. <<apiPods[k], [node |-> Nil, req |-> r, ended |-> FALSE]>> \in PodChange
    BY <1>3, <2>1 DEF PodChange, CreatePod, SomePod
  <2> QED BY <1>3, <2>1, <2>2, PodStorySet DEF CreatePod
<1>4. ASSUME NEW k \in Key, IsLive(apiPods[k])
      PROVE  /\ apiPods[k] \in PodState /\ ~apiPods[k].ended
             /\ \A r \in Request : [apiPods[k] EXCEPT !.req = r] \in PodState
             /\ \A n \in Node : [apiPods[k] EXCEPT !.node = n] \in PodState
             /\ [apiPods[k] EXCEPT !.ended = TRUE] \in PodState
  BY <1>1, <1>4 DEF IsLive, PodState
<1>5. ASSUME NEW k \in Key, NEW r \in Request, ResizePod(k, r)
      PROVE  PodStory'
  <2>1. CanResize /\ IsLive(apiPods[k]) /\ SetPod(k, [apiPods[k] EXCEPT !.req = r])
    BY <1>5 DEF ResizePod
  <2>2. Fits(apiPods[k], [apiPods[k] EXCEPT !.req = r])
    BY <1>4, <2>1 DEF Fits, PodState
  <2> QED BY <1>2, <1>4, <2>1, <2>2
<1>6. ASSUME NEW k \in Key, NEW n \in Node, SchedulePod(k, n)
      PROVE  PodStory'
  <2>1. /\ IsLive(apiPods[k]) /\ apiPods[k].node = Nil
        /\ SetPod(k, [apiPods[k] EXCEPT !.node = n])
    BY <1>6 DEF SchedulePod
  <2>2. Fits(apiPods[k], [apiPods[k] EXCEPT !.node = n])
    BY <1>4, <2>1 DEF Fits, PodState
  <2> QED BY <1>2, <1>4, <2>1, <2>2
<1>7. ASSUME NEW k \in Key, EndPod(k)
      PROVE  PodStory'
  <2>1. IsLive(apiPods[k]) /\ SetPod(k, [apiPods[k] EXCEPT !.ended = TRUE])
    BY <1>7 DEF EndPod
  <2>2. Fits(apiPods[k], [apiPods[k] EXCEPT !.ended = TRUE])
    BY <1>4, <2>1 DEF Fits, PodState
  <2> QED BY <1>2, <1>4, <2>1, <2>2
<1>8. ASSUME NEW k \in Key, RemovePod(k)
      PROVE  PodStory'
  <2>1. Nil \in SomePod /\ <<apiPods[k], Nil>> \in PodChange
    BY <1>1 DEF SomePod, PodChange
  <2> QED BY <1>8, <2>1, PodStorySet DEF RemovePod
<1>9. ASSUME NEW n \in Node,
             \/ \E i \in NodeInfo : JoinNode(n, i) \/ ChangeNode(n, i)
             \/ MarkNode(n) \/ RemoveNode(n)
      PROVE  PodStory'
  <2>1. UNCHANGED <<apiPods, podSeen, podQueue, listed, watching>>
    BY <1>9 DEF JoinNode, ChangeNode, MarkNode, RemoveNode, SetNode, podFeed
  <2> QED BY <2>1 DEF PodStory
<1> QED BY <1>3, <1>5, <1>6, <1>7, <1>8, <1>9 DEF ApiChange

LEMMA PodStoryNext ==
  ASSUME MaxLosses = 0, OrderInv, PodStory, Next
  PROVE  PodStory'
<1>1. /\ apiPods \in [Key -> SomePod] /\ podSeen \in [Key -> SomePod]
      /\ podQueue \in [Key -> Seq(SomePod)] /\ watching \subseteq listed /\ losses = 0 /\ TypeInv
  BY DEF OrderInv, TypeInv, KubeTypeOK, SomePod
<1>2. ASSUME UNCHANGED <<apiPods, podFeed>>,
             "pods" \in listed' <=> "pods" \in listed, "pods" \in watching' <=> "pods" \in watching
      PROVE  PodStory'
  BY <1>2 DEF PodStory, podFeed
<1>3. CASE StartStep
  BY <1>2, <1>3
     DEF StartStep, SeedNodesList, SeedPodsList, StartNodeWatch, StartPodWatch, StartWatch, SeedNode,
         ShowSeededNode, SeedNodesDone, SeedPod, SeedPodsDone, watchVars, apiVars
<1>4. CASE NodeHandler
  BY <1>2, <1>4
     DEF NodeHandler, NodeAdded, NodeLeaves, NodeUpdated, NodeEvent, DeliverNode, FindNodeToUpdate,
         UpdateNode, ShowNode, watchVars, apiVars
<1>5. CASE PodHandler
  <2>1. ASSUME NEW k \in Key, PodEvent(k)
        PROVE  PodStory'
    <3>1. /\ podQueue[k] \in Seq(SomePod) /\ podQueue[k] # <<>>
          /\ podSeen' = [podSeen EXCEPT ![k] = Head(podQueue[k])]
          /\ podQueue' = [podQueue EXCEPT ![k] = Tail(podQueue[k])]
          /\ UNCHANGED <<apiPods, listed, watching>>
      BY <1>1, <2>1 DEF PodEvent, DeliverPod, apiVars
    <3>2. /\ Chained(PodChange, Head(podQueue[k]), Tail(podQueue[k]))
          /\ LastOf(Head(podQueue[k]), Tail(podQueue[k])) = LastOf(podSeen[k], podQueue[k])
      <4>1. podQueue[k] \in Seq(SomePod) /\ podQueue[k] # <<>>
        BY <3>1
      <4>2. Chained(PodChange, podSeen[k], podQueue[k])
        BY DEF PodStory
      <4> QED BY <4>1, <4>2, ChainTail, LastAfterTail
    <3>3. \A j \in Key :
            /\ LastOf(podSeen'[j], podQueue'[j]) = LastOf(podSeen[j], podQueue[j])
            /\ Chained(PodChange, podSeen'[j], podQueue'[j])
      BY <1>1, <3>1, <3>2 DEF PodStory
    <3> QED BY <3>1, <3>3 DEF PodStory
  <2>2. CASE (\E o \in PodObj : UpdateUnknownPod(o)) \/ UpdateKnownPod \/ UpdatePod
    BY <1>2, <2>2 DEF UpdateUnknownPod, UpdateKnownPod, UpdatePod, watchVars, apiVars
  <2> QED BY <1>5, <2>1, <2>2 DEF PodHandler, PodAdded, EndedPodAdded, PodLeaves, PodUpdated
<1>6. CASE \E t \in Thread : ClusterCall(t)
  BY <1>2, <1>6 DEF ClusterCall, watchVars, apiVars
<1>7. ASSUME NEW resource \in {"pods", "nodes"}, WatchBegins(resource)
      PROVE  PodStory'
  <2>1. CASE resource = "nodes"
    BY <1>2, <1>7, <2>1 DEF WatchBegins, List, ListNodes, apiVars
  <2>2. CASE resource = "pods"
    <3>1. /\ UNCHANGED <<apiPods, podSeen>>
          /\ podQueue' = [k \in Key |-> Catchup(apiPods[k], podSeen[k], podQueue[k])]
          /\ "pods" \in listed' /\ "pods" \in watching' /\ "pods" \notin listed
      BY <1>7, <2>2 DEF WatchBegins, List, ListPods, apiVars, PodStory
    <3>2. ASSUME NEW k \in Key
          PROVE  /\ LastOf(podSeen[k], podQueue'[k]) = apiPods[k]
                 /\ Chained(PodChange, podSeen[k], podQueue'[k])
      <4>1. podSeen[k] = Nil /\ podQueue[k] = <<>> /\ Chained(PodChange, podSeen[k], podQueue[k])
        BY <3>1 DEF PodStory, OrderInv, StartOrder
      <4>2. CASE apiPods[k] = Nil
        BY <3>1, <4>1, <4>2 DEF Catchup, LastOf
      <4>3. CASE apiPods[k] # Nil
        <5>1. podQueue'[k] = Append(podQueue[k], apiPods[k])
          BY <1>1, <3>1, <4>1, <4>3 DEF Catchup
        <5>2. podQueue[k] \in Seq(SomePod) /\ apiPods[k] \in SomePod
          BY <1>1
        <5>3. <<LastOf(podSeen[k], podQueue[k]), apiPods[k]>> \in PodChange
          BY <4>1, <5>2 DEF LastOf, PodChange, SomePod
        <5>4. LastOf(podSeen[k], Append(podQueue[k], apiPods[k])) = apiPods[k]
          BY <5>2, LastAfterAppend
        <5>5. Chained(PodChange, podSeen[k], Append(podQueue[k], apiPods[k]))
          BY <4>1, <5>2, <5>3, ChainAppend
        <5> QED BY <5>1, <5>4, <5>5
      <4> QED BY <4>2, <4>3
    <3> QED BY <3>1, <3>2 DEF PodStory
  <2> QED BY <2>1, <2>2
<1>8. CASE Environment
  <2>1. ASSUME NEW resource \in {"pods", "nodes"}, LoseWatch(resource)
        PROVE  FALSE
    BY <1>1, <2>1 DEF LoseWatch
  <2> QED BY <1>1, <1>8, <2>1, ApiPodStory DEF Environment
<1> QED BY <1>3, <1>4, <1>5, <1>6, <1>7, <1>8 DEF Next

LEMMA OnlyNewPodWritten ==
  ASSUME TypeInv, NEW k \in Key, NEW o \in PodObj, NEW p, NewPod(k, o, p)
  PROVE  /\ heap'[k][o] = ContentOf(p)
         /\ \A j \in Key, x \in PodObj : j # k \/ x # o => heap'[j][x] = heap[j][x]
         /\ \A j \in Key : pods[j] # Nil => heap'[j][pods[j]] = heap[j][pods[j]]
         /\ \A n \in Node, j \in Key : bound[n][j] # Nil => heap'[j][bound[n][j]] = heap[j][bound[n][j]]
<1>1. o \notin InUse(k) /\ heap' = [heap EXCEPT ![k][o] = ContentOf(p)]
  BY DEF NewPod, IsFresh
<1> QED BY <1>1 DEF InUse, TypeInv, ClusterInv, ClusterTypeOK

LEMMA SeedsExactNext ==
  ASSUME ~CanChangeEarly, OrderInv, SeedsExact, Next
  PROVE  SeedsExact'
<1> SUFFICES ASSUME "pods" \notin listed'
             PROVE  SeedsExact'
  BY DEF SeedsExact
<1>1. /\ "pods" \notin listed /\ UNCHANGED apiPods
      /\ call[PodWatch] = Idle /\ call[NodeWatch] = Idle
  BY EarlyNext DEF OrderInv, StartOrder
<1>2. /\ \A k \in Key : pods[k] # Nil => heap[k][pods[k]] = ContentOf(apiPods[k])
      /\ \A s \in seeds.pods : s[2] = ContentOf(apiPods[s[1]])
      /\ call[Main] # Idle =>
           /\ call[Main].at \in {"put", "findToBind", "bind"}
           /\ heap[call[Main].key][call[Main].obj] = ContentOf(apiPods[call[Main].key])
  BY <1>1 DEF SeedsExact
<1>3. /\ call \in [Thread -> Frame] /\ pods \in [Key -> PodObj \cup {Nil}] /\ TypeInv
      /\ seeds \in [nodes : SUBSET (Node \X NodeInfo), pods : SUBSET (Key \X Content)]
  BY DEF OrderInv, TypeInv, ClusterInv, ClusterTypeOK, ControllerTypeOK
<1>4. ASSUME UNCHANGED <<pods, heap, call>>, seeds'.pods \subseteq seeds.pods
      PROVE  SeedsExact'
  BY <1>1, <1>2, <1>4 DEF SeedsExact
<1>5. CASE StartStep
  <2>1. ASSUME NEW answer \in Answers, SeedPodsList(answer)
        PROVE  SeedsExact'
    <3>1. \A s \in seeds'.pods : s \in seeds.pods \/ s[2] = ContentOf(apiPods[s[1]])
      <4>1. ASSUME NEW k \in Key, NEW s, s = <<k, ContentOf(apiPods[k])>>
            PROVE  s[2] = ContentOf(apiPods[s[1]])
        BY <4>1
      <4>2. \A s \in seeds'.pods :
              \/ s \in seeds.pods
              \/ \E k \in Key : s = <<k, ContentOf(apiPods[k])>>
        BY <1>3, <2>1 DEF SeedPodsList
      <4> QED BY <4>1, <4>2
    <3>2. UNCHANGED <<pods, heap, call>>
      BY <2>1 DEF SeedPodsList, clusterVars, storeVars
    <3> QED BY <1>1, <1>2, <3>1, <3>2 DEF SeedsExact
  <2>2. ASSUME NEW k \in Key, NEW c \in Content, NEW o \in PodObj, SeedPod(k, c, o)
        PROVE  SeedsExact'
    <3>1. /\ UNCHANGED pods /\ <<k, c>> \in seeds.pods /\ seeds'.pods \subseteq seeds.pods
          /\ NewPod(k, o, c) /\ call'[Main] = [at |-> "put", key |-> k, obj |-> o]
      BY <1>3, <2>2, ThreadsDiffer DEF SeedPod, CallAddPod
    <3>2. c = ContentOf(apiPods[k])
      BY <1>2, <3>1
    <3>3. ContentOf(c) = c
      BY DEF ContentOf, Content
    <3>4. /\ heap'[k][o] = c
          /\ \A j \in Key : pods[j] # Nil => heap'[j][pods[j]] = heap[j][pods[j]]
      BY <1>3, <3>1, <3>3, OnlyNewPodWritten
    <3> QED BY <1>1, <1>2, <3>1, <3>2, <3>4 DEF SeedsExact
  <2>3. ASSUME NEW n \in Node, NEW i \in NodeInfo, SeedNode(n, i)
        PROVE  SeedsExact'
    BY <1>3, <1>4, <2>3 DEF SeedNode
  <2>4. CASE \/ \E answer \in Answers :
                  SeedNodesList(answer) \/ StartNodeWatch(answer) \/ StartPodWatch(answer)
             \/ ShowSeededNode \/ SeedNodesDone \/ SeedPodsDone
    BY <1>3, <1>4, <2>4
       DEF SeedNodesList, StartNodeWatch, StartPodWatch, StartWatch, ShowSeededNode, SeedNodesDone,
           SeedPodsDone, clusterVars, storeVars
  <2> QED BY <1>5, <2>1, <2>2, <2>3, <2>4 DEF StartStep
<1>6. CASE NodeHandler
  <2>1. UNCHANGED <<call, seeds, heap>> /\ \A k \in Key : pods'[k] \in {pods[k], Nil}
    <3>1. ASSUME NEW n \in Node, NodeLeaves(n)
          PROVE  UNCHANGED <<call, seeds, heap>> /\ \A k \in Key : pods'[k] \in {pods[k], Nil}
      BY <3>1 DEF NodeLeaves, NodeEvent, DeleteNode, startVars
    <3>2. CASE ~\E n \in Node : NodeLeaves(n)
      BY <1>6, <3>2
         DEF NodeHandler, NodeAdded, NodeUpdated, NodeEvent, FindNodeToUpdate, FindNode, UpdateNode,
             ShowNode, storeVars, startVars
    <3> QED BY <3>1, <3>2
  <2> QED BY <1>1, <1>2, <2>1 DEF SeedsExact
<1>7. CASE PodHandler
  <2>1. ASSUME NEW k \in Key, PodEvent(k)
        PROVE  FALSE
    <3>1. podQueue[k] # <<>>
      BY <2>1 DEF PodEvent, DeliverPod
    <3> QED BY <1>1, <3>1 DEF OrderInv, StartOrder
  <2> QED BY <1>1, <1>7, <2>1
          DEF PodHandler, PodAdded, EndedPodAdded, PodLeaves, PodUpdated, UpdateUnknownPod,
              UpdateKnownPod, UpdatePod, At, Idle
<1>8. ASSUME NEW t \in Thread, ClusterCall(t)
      PROVE  SeedsExact'
  <2>1. PodCall(t) /\ UNCHANGED seeds
    BY <1>8 DEF ClusterCall, startVars
  <2>2. t = Main /\ call[Main] # Idle /\ call[Main].key \in Key
    BY <1>1, <1>3, <2>1, PodCallFrames, ThreadsAreThese DEF Idle, TypeInv, ClusterInv, CallOK
  <2>3. PutPod(Main) \/ FindNodeToBind(Main) \/ BindPod(Main)
    BY <1>2, <2>1, <2>2
       DEF PodCall, GetPodToDelete, FindNodeToUnbind, UnbindPod, DropPod, At
  <2>4. /\ heap' = heap
        /\ \A k \in Key : pods'[k] = pods[k] \/ (k = call[Main].key /\ pods'[k] = call[Main].obj)
        /\ \/ call'[Main] = Idle
           \/ /\ call'[Main].key = call[Main].key /\ call'[Main].obj = call[Main].obj
              /\ call'[Main].at \in {"findToBind", "bind"}
    <3>1. CASE PutPod(Main)
      BY <1>3, <2>2, <3>1, GotoFrames, ReturnFrames, ThreadsDiffer DEF PutPod, Steps
    <3>2. CASE FindNodeToBind(Main)
      BY <1>3, <2>2, <3>2, GotoFrames, ReturnFrames, ThreadsDiffer
         DEF FindNodeToBind, FindNode, storeVars, Steps
    <3>3. CASE BindPod(Main)
      BY <1>3, <2>2, <3>3, ReturnFrames, ThreadsDiffer DEF BindPod
    <3> QED BY <2>3, <3>1, <3>2, <3>3
  <2> QED BY <1>1, <1>2, <2>1, <2>2, <2>4 DEF SeedsExact
<1>9. CASE (\E resource \in {"pods", "nodes"} : WatchBegins(resource)) \/ Environment
  BY <1>4, <1>9 DEF WatchBegins, Environment, clusterVars, storeVars, startVars
<1> QED BY <1>5, <1>6, <1>7, <1>8, <1>9 DEF Next

LEMMA HeadExactNext ==
  ASSUME ~CanChangeEarly, OrderInv, SeedsExact, SeedsLive, HeadExact, Next
  PROVE  HeadExact'
<1> SUFFICES ASSUME "pods" \in listed'
             PROVE  HeadExact'
  BY DEF HeadExact
<1> DEFINE w == call[PodWatch]
           Exact(k) == podQueue[k] # <<>> /\ heap[k][pods[k]] = ContentOf(Head(podQueue[k]))
           Seeded(k) == pods[k] # Nil /\ podSeen[k] = Nil /\ Handled(k)
<1>1. /\ w \in Frame /\ (w.at = "idle" => w = Idle) /\ TypeInv
      /\ call \in [Thread -> Frame] /\ PodWatch \in Thread
      /\ pods \in [Key -> PodObj \cup {Nil}]
      /\ podQueue \in [Key -> Seq(SomePod)] /\ podSeen \in [Key -> SomePod]
      /\ heap \in [Key -> [PodObj -> Content \cup {Nil}]]
  BY ThreadsDiffer
     DEF OrderInv, TypeInv, ClusterInv, ClusterTypeOK, KubeTypeOK, StartOrder, At, SomePod
<1>2. (* The pods in the store stay or leave it, and nothing is delivered. *)
      ASSUME "pods" \in listed, UNCHANGED <<podSeen, heap>>, call'[PodWatch] = w,
             \A k \in Key : pods'[k] \in {pods[k], Nil},
             \A k \in Key : podQueue'[k] = podQueue[k] \/ \E s : podQueue'[k] = Append(podQueue[k], s)
      PROVE  HeadExact'
  <2>1. ASSUME NEW k \in Key, Seeded(k)'
        PROVE  Exact(k)'
    <3>1. Seeded(k) /\ pods'[k] = pods[k]
      BY <1>2, <2>1 DEF Handled
    <3>2. Exact(k) /\ podQueue[k] \in Seq(SomePod)
      BY <1>1, <1>2, <3>1 DEF HeadExact
    <3>3. podQueue'[k] # <<>> /\ Head(podQueue'[k]) = Head(podQueue[k])
      BY <1>2, <3>2, HeadTailAppend
    <3> QED BY <1>2, <3>1, <3>2, <3>3
  <2> QED BY <2>1 DEF HeadExact
<1>3. (* The handler hears of a pod, or is at work on it. *)
      ASSUME "pods" \in listed, NEW k \in Key, w = Idle \/ w.key = k, ~Seeded(k)',
             \A j \in Key : j # k =>
               /\ podSeen'[j] = podSeen[j] /\ podQueue'[j] = podQueue[j] /\ pods'[j] = pods[j]
               /\ heap'[j] = heap[j]
      PROVE  HeadExact'
  <2>1. ASSUME NEW j \in Key, j # k, Seeded(j)'
        PROVE  Exact(j)'
    <3>1. Seeded(j)
      BY <1>3, <2>1, NilIsNoName DEF Handled, Idle
    <3> QED BY <1>3, <2>1, <3>1 DEF HeadExact
  <2> QED BY <1>3, <2>1 DEF HeadExact
<1>4. CASE StartStep
  <2>1. "pods" \in listed /\ start = "done"
    BY <1>4
       DEF StartStep, SeedNodesList, SeedPodsList, StartNodeWatch, StartPodWatch, StartWatch, SeedNode,
           ShowSeededNode, SeedNodesDone, SeedPod, SeedPodsDone, watchVars, OrderInv, StartOrder
  <2> QED BY <1>4, <2>1
          DEF StartStep, SeedNodesList, SeedPodsList, StartNodeWatch, StartPodWatch, StartWatch, SeedNode,
              ShowSeededNode, SeedNodesDone, SeedPod, SeedPodsDone
<1>5. CASE NodeHandler
  <2>1. UNCHANGED <<call, heap, podSeen, podQueue, listed>> /\ \A k \in Key : pods'[k] \in {pods[k], Nil}
    <3>1. ASSUME NEW n \in Node, NodeLeaves(n)
          PROVE  /\ UNCHANGED <<call, heap, podSeen, podQueue, listed>>
                 /\ \A k \in Key : pods'[k] \in {pods[k], Nil}
      BY <3>1 DEF NodeLeaves, NodeEvent, DeliverNode, DeleteNode, podFeed
    <3>2. CASE ~\E n \in Node : NodeLeaves(n)
      BY <1>5, <3>2
         DEF NodeHandler, NodeAdded, NodeUpdated, NodeEvent, DeliverNode, FindNodeToUpdate, FindNode,
             UpdateNode, ShowNode, storeVars, watchVars, podFeed
    <3> QED BY <3>1, <3>2
  <2> QED BY <1>2, <2>1
<1>6. CASE PodHandler
  <2>1. ASSUME NEW k \in Key, PodEvent(k)
        PROVE  /\ "pods" \in listed /\ w = Idle /\ UNCHANGED pods /\ podSeen'[k] = Head(podQueue[k])
               /\ \A j \in Key : j # k => podSeen'[j] = podSeen[j] /\ podQueue'[j] = podQueue[j]
    BY <1>1, <2>1 DEF PodEvent, DeliverPod, At
  <2>2. ASSUME NEW k \in Key,
               (\E o \in PodObj : PodAdded(k, o)) \/ EndedPodAdded(k) \/ PodLeaves(k) \/ PodUpdated(k)
        PROVE  HeadExact'
    <3>1. /\ PodEvent(k) /\ \A j \in Key : j # k => heap'[j] = heap[j]
          /\ podSeen'[k] # Nil \/ call'[PodWatch].key = k
      BY <1>1, <2>1, <2>2 DEF PodAdded, EndedPodAdded, PodLeaves, PodUpdated, CallDeletePod, NewPod, IsLive
    <3> QED BY <1>3, <2>1, <3>1 DEF Handled
  <2>3. CASE (\E o \in PodObj : UpdateUnknownPod(o)) \/ UpdateKnownPod \/ UpdatePod
    <3>1. /\ call'[PodWatch].key = w.key /\ w.at # "idle"
          /\ UNCHANGED <<podSeen, podQueue, pods, listed>>
          /\ \A j \in Key : j # w.key => heap'[j] = heap[j]
      BY <1>1, <2>3
         DEF UpdateUnknownPod, UpdateKnownPod, UpdatePod, CallAddPod, Goto, At, Frame, NewPod, storeVars,
             watchVars, podFeed
    <3>2. w.key \in Key
      BY <1>1, <3>1 DEF TypeInv, ClusterInv, CallOK
    <3> QED BY <1>3, <3>1, <3>2 DEF Handled
  <2> QED BY <1>6, <2>2, <2>3 DEF PodHandler
<1>7. ASSUME NEW t \in Thread, ClusterCall(t)
      PROVE  HeadExact'
  <2>1. PodCall(t) /\ UNCHANGED <<podSeen, podQueue, listed>> /\ heap' = heap
    BY <1>1, <1>7, PodCallFrames DEF ClusterCall, watchVars, podFeed
  <2>2. t = PodWatch /\ w.at # "idle" /\ w.key \in Key
    <3>1. t # Main /\ t # NodeWatch /\ call[t].at # "idle"
      BY <1>1, <2>1, PodCallFrames DEF OrderInv, StartOrder, Idle
    <3> QED BY <1>1, <3>1, ThreadsAreThese DEF TypeInv, ClusterInv, CallOK
  <2> PICK k \in Key : k = w.key
    BY <2>2
  <2>3. \A j \in Key : j # k => pods'[j] = pods[j]
    BY <1>1, <2>1, <2>2
       DEF PodCall, PutPod, FindNodeToBind, BindPod, GetPodToDelete, FindNodeToUnbind, FindNode,
           UnbindPod, DropPod, storeVars
  <2>4. ~Seeded(k)'
    <3>1. CASE w.at \in Updating
      BY <1>1, <2>1, <3>1 DEF TypeInv, HandlersOK, IsLive
    <3>2. CASE DropPod(PodWatch)
      BY <1>1, <3>2 DEF DropPod
    <3>3. CASE GetPodToDelete(PodWatch) \/ FindNodeToUnbind(PodWatch) \/ UnbindPod(PodWatch)
      <4>1. call'[PodWatch].key = k
        BY <1>1, <3>3 DEF GetPodToDelete, FindNodeToUnbind, FindNode, UnbindPod, Goto, Frame
      <4> QED BY <4>1 DEF Handled
    <3> QED BY <2>1, <2>2, <3>1, <3>2, <3>3
            DEF PodCall, PutPod, FindNodeToBind, BindPod, At, Updating
  <2> QED BY <1>3, <2>1, <2>2, <2>3, <2>4
<1>8. ASSUME NEW resource \in {"pods", "nodes"}, WatchBegins(resource)
      PROVE  HeadExact'
  <2>1. UNCHANGED <<pods, heap, call, podSeen>>
    BY <1>8 DEF WatchBegins, List, ListPods, ListNodes, clusterVars, storeVars, podFeed
  <2>2. CASE "pods" \in listed
    <3>1. \A k \in Key : podQueue'[k] = podQueue[k] \/ \E s : podQueue'[k] = Append(podQueue[k], s)
      BY <1>8 DEF WatchBegins, List, ListPods, ListNodes, Catchup, podFeed
    <3> QED BY <1>2, <2>1, <2>2, <3>1
  <2>3. CASE "pods" \notin listed
    <3>1. ListPods
      BY <1>8, <2>3 DEF WatchBegins, List
    <3>2. ASSUME NEW k \in Key, pods'[k] # Nil
          PROVE  Exact(k)'
      <4>1. /\ IsLive(apiPods[k]) /\ podSeen[k] = Nil /\ podQueue[k] = <<>>
            /\ heap[k][pods[k]] = ContentOf(apiPods[k])
        BY <2>1, <2>3, <3>2 DEF SeedsLive, SeedsExact, OrderInv, StartOrder
      <4>2. podQueue'[k] = Append(podQueue[k], apiPods[k])
        BY <3>1, <4>1 DEF ListPods, Catchup, IsLive
      <4>3. podQueue'[k] # <<>> /\ Head(podQueue'[k]) = apiPods[k]
        BY <1>1, <4>1, <4>2, HeadTailAppend
      <4> QED BY <2>1, <4>1, <4>3
    <3> QED BY <3>2 DEF HeadExact
  <2> QED BY <2>2, <2>3
<1>9. CASE Environment
  <2>1. UNCHANGED <<pods, heap, call, podSeen, listed>>
    BY <1>9, ApiChangesOnePod DEF Environment, LoseWatch, clusterVars, storeVars, podFeed
  <2>2. \A k \in Key : podQueue'[k] = podQueue[k] \/ \E s : podQueue'[k] = Append(podQueue[k], s)
    <3>1. ASSUME NEW j \in Key, NEW r, SetPod(j, r), NEW k \in Key
          PROVE  podQueue'[k] = podQueue[k] \/ \E s : podQueue'[k] = Append(podQueue[k], s)
      BY <1>1, <3>1 DEF SetPod
    <3> QED BY <1>9, <3>1, ApiChangesOnePod DEF Environment, LoseWatch, podFeed
  <2> QED BY <1>2, <2>1, <2>2
<1> QED BY <1>4, <1>5, <1>6, <1>7, <1>8, <1>9 DEF Next

-----------------------------------------------------------------------------
(* Nodes that go for good *)

LEMMA NodesOnceSet ==
  ASSUME TypeInv, NodesOnce, NEW n \in Node, NEW s \in SomeNode, SetNode(n, s), n \notin gone,
         \/ s # Nil /\ gone' = gone
         \/ s = Nil /\ gone' = gone \cup {n}
  PROVE  NodesOnce'
<1>1. /\ apiNodes \in [Node -> SomeNode] /\ nodeQueue \in [Node -> Seq(SomeNode)] /\ gone \subseteq Node
      /\ apiNodes' = [apiNodes EXCEPT ![n] = s]
      /\ \A m \in Node : m # n => nodeQueue'[m] = nodeQueue[m]
      /\ nodeQueue'[n] = nodeQueue[n] \/ nodeQueue'[n] = Append(nodeQueue[n], s)
  BY DEF TypeInv, KubeTypeOK, SetNode, SomeNode
<1>2. \A i \in 1..Len(nodeQueue[n]) : nodeQueue[n][i] # Nil
  BY DEF NodesOnce
<1>3. nodeQueue[n] \in Seq(SomeNode)
  BY <1>1
<1>4. \A i \in 1..Len(nodeQueue'[n]) : nodeQueue'[n][i] = Nil => n \in gone' /\ i = Len(nodeQueue'[n])
  <2>1. CASE nodeQueue'[n] = nodeQueue[n]
    BY <1>2, <2>1
  <2>2. CASE nodeQueue'[n] = Append(nodeQueue[n], s)
    <3>1. /\ Len(nodeQueue'[n]) = Len(nodeQueue[n]) + 1 /\ nodeQueue'[n][Len(nodeQueue[n]) + 1] = s
          /\ \A i \in 1..Len(nodeQueue[n]) : nodeQueue'[n][i] = nodeQueue[n][i]
          /\ Len(nodeQueue[n]) \in Nat
      BY <1>3, <2>2, AppendIs
    <3> QED BY <1>2, <3>1
  <2> QED BY <1>1, <2>1, <2>2
<1>5. \A m \in Node : m # n =>
        \A i \in 1..Len(nodeQueue'[m]) : nodeQueue'[m][i] = Nil => m \in gone' /\ i = Len(nodeQueue'[m])
  BY <1>1 DEF NodesOnce
<1>6. \A m \in Node : m \in gone' => apiNodes'[m] = Nil
  BY <1>1 DEF NodesOnce
<1> QED BY <1>4, <1>5, <1>6 DEF NodesOnce

LEMMA NodesChangeOnce ==
  ASSUME ~CanRejoin, TypeInv, NodesOnce, ApiChange
  PROVE  /\ UNCHANGED <<listed, watching, nodeSeen>>
         /\ \/ UNCHANGED <<apiNodes, nodeQueue, gone>>
            \/ \E n \in Node : \E s \in SomeNode :
                 /\ SetNode(n, s) /\ n \notin gone
                 /\ (s # Nil /\ gone' = gone) \/ (s = Nil /\ gone' = gone \cup {n})
<1>1. apiNodes \in [Node -> SomeNode] /\ \A n \in Node : n \in gone => apiNodes[n] = Nil
  BY DEF TypeInv, KubeTypeOK, SomeNode, NodesOnce
<1>2. CASE \E k \in Key :
              \/ \E r \in Request : CreatePod(k, r) \/ ResizePod(k, r)
              \/ \E n \in Node : SchedulePod(k, n)
              \/ EndPod(k) \/ RemovePod(k)
  BY <1>2 DEF CreatePod, ResizePod, SchedulePod, EndPod, RemovePod, SetPod, nodeFeed
<1>3. ASSUME NEW n \in Node, NEW i \in NodeInfo, JoinNode(n, i)
      PROVE  \E s \in SomeNode : SetNode(n, s) /\ n \notin gone /\ s # Nil /\ gone' = gone
  <2>1. [info |-> i, deleting |-> FALSE] \in NodeState
    BY DEF NodeState
  <2> QED BY <1>3, <2>1, NilIsNoObject DEF JoinNode, SomeNode
<1>4. ASSUME NEW n \in Node, NEW i \in NodeInfo, ChangeNode(n, i)
      PROVE  \E s \in SomeNode : SetNode(n, s) /\ n \notin gone /\ s # Nil /\ gone' = gone
  <2>1. [apiNodes[n] EXCEPT !.info = i] \in NodeState
    BY <1>1, <1>4 DEF ChangeNode, SomeNode, NodeState
  <2> QED BY <1>1, <1>4, <2>1, NilIsNoObject DEF ChangeNode, SomeNode
<1>5. ASSUME NEW n \in Node, MarkNode(n)
      PROVE  \E s \in SomeNode : SetNode(n, s) /\ n \notin gone /\ s # Nil /\ gone' = gone
  <2>1. apiNodes[n] # Nil /\ [apiNodes[n] EXCEPT !.deleting = TRUE] \in NodeState
    BY <1>1, <1>5 DEF MarkNode, Stays, SomeNode, NodeState
  <2> QED BY <1>1, <1>5, <2>1, NilIsNoObject DEF MarkNode, SomeNode
<1>6. ASSUME NEW n \in Node, RemoveNode(n)
      PROVE  SetNode(n, Nil) /\ n \notin gone /\ gone' = gone \cup {n} /\ Nil \in SomeNode
  BY <1>1, <1>6 DEF RemoveNode, SomeNode
<1>7. CASE \E n \in Node : \E s \in SomeNode :
             /\ SetNode(n, s) /\ n \notin gone
             /\ (s # Nil /\ gone' = gone) \/ (s = Nil /\ gone' = gone \cup {n})
  BY <1>7 DEF SetNode
<1>8. CASE \E n \in Node :
             (\E i \in NodeInfo : JoinNode(n, i) \/ ChangeNode(n, i)) \/ MarkNode(n) \/ RemoveNode(n)
  BY <1>3, <1>4, <1>5, <1>6, <1>7, <1>8
<1> QED BY <1>2, <1>8 DEF ApiChange

LEMMA NodesOnceNext ==
  ASSUME ~CanRejoin, MaxLosses = 0, OrderInv, NodeStory, NodesOnce, Next
  PROVE  NodesOnce'
<1>1. /\ apiNodes \in [Node -> SomeNode] /\ nodeQueue \in [Node -> Seq(SomeNode)]
      /\ losses = 0 /\ TypeInv
  BY DEF OrderInv, TypeInv, KubeTypeOK, SomeNode
<1>2. ASSUME UNCHANGED <<apiNodes, nodeQueue, gone>>
      PROVE  NodesOnce'
  BY <1>2 DEF NodesOnce
<1>3. ASSUME NEW n \in Node, DeliverNode(n)
      PROVE  NodesOnce'
  <2>1. /\ nodeQueue[n] \in Seq(SomeNode) /\ nodeQueue[n] # <<>>
        /\ nodeQueue' = [nodeQueue EXCEPT ![n] = Tail(nodeQueue[n])] /\ UNCHANGED <<apiNodes, gone>>
    BY <1>1, <1>3 DEF DeliverNode, apiVars
  <2>2. /\ nodeQueue'[n] = Tail(nodeQueue[n]) /\ \A m \in Node : m # n => nodeQueue'[m] = nodeQueue[m]
    BY <1>1, <2>1
  <2>3. /\ Len(nodeQueue'[n]) = Len(nodeQueue[n]) - 1 /\ Len(nodeQueue[n]) \in Nat \ {0}
        /\ \A i \in 1..Len(nodeQueue'[n]) : nodeQueue'[n][i] = nodeQueue[n][i + 1]
    <3>1. /\ Len(Tail(nodeQueue[n])) = Len(nodeQueue[n]) - 1 /\ Len(nodeQueue[n]) \in Nat \ {0}
          /\ \A i \in 1..Len(Tail(nodeQueue[n])) : Tail(nodeQueue[n])[i] = nodeQueue[n][i + 1]
      BY <2>1, TailIs
    <3> QED BY <2>2, <3>1, Zenon
  <2>4. ASSUME NEW i \in 1..Len(nodeQueue'[n]), nodeQueue'[n][i] = Nil
        PROVE  n \in gone /\ i = Len(nodeQueue'[n])
    <3>1. i + 1 \in 1..Len(nodeQueue[n]) /\ nodeQueue[n][i + 1] = Nil
      BY <2>3, <2>4
    <3>2. n \in gone /\ i + 1 = Len(nodeQueue[n])
      BY <3>1 DEF NodesOnce
    <3> QED BY <2>3, <3>2
  <2> QED BY <2>1, <2>2, <2>4 DEF NodesOnce
<1>4. CASE ListNodes /\ "nodes" \notin listed
  <2>1. ASSUME NEW n \in Node, NEW i \in 1..Len(nodeQueue'[n])
        PROVE  nodeQueue'[n][i] # Nil
    <3>1. nodeQueue'[n] = IF apiNodes[n] = Nil THEN <<>> ELSE Append(<<>>, apiNodes[n])
      BY <1>1, <1>4 DEF ListNodes, Catchup, NodeStory
    <3> QED BY <3>1
  <2> QED BY <1>4, <2>1 DEF NodesOnce, ListNodes, apiVars
<1>5. CASE StartStep
  BY <1>2, <1>5
     DEF StartStep, SeedNodesList, SeedPodsList, StartNodeWatch, StartPodWatch, StartWatch, SeedNode,
         ShowSeededNode, SeedNodesDone, SeedPod, SeedPodsDone, watchVars, apiVars, nodeFeed
<1>6. CASE NodeHandler
  BY <1>2, <1>3, <1>6
     DEF NodeHandler, NodeAdded, NodeLeaves, NodeUpdated, NodeEvent, FindNodeToUpdate, UpdateNode,
         ShowNode, watchVars, apiVars, nodeFeed
<1>7. CASE PodHandler
  BY <1>2, <1>7
     DEF PodHandler, PodAdded, EndedPodAdded, PodLeaves, PodUpdated, PodEvent, DeliverPod,
         UpdateUnknownPod, UpdateKnownPod, UpdatePod, watchVars, apiVars, nodeFeed
<1>8. CASE \E t \in Thread : ClusterCall(t)
  BY <1>2, <1>8 DEF ClusterCall, watchVars, apiVars, nodeFeed
<1>9. ASSUME NEW resource \in {"pods", "nodes"}, WatchBegins(resource)
      PROVE  NodesOnce'
  BY <1>2, <1>4, <1>9 DEF WatchBegins, List, ListPods, apiVars, nodeFeed, NodeStory
<1>10. CASE Environment
  <2>1. ~\E resource \in {"pods", "nodes"} : LoseWatch(resource)
    BY <1>1 DEF LoseWatch
  <2> QED BY <1>1, <1>2, <1>10, <2>1, NodesChangeOnce, NodesOnceSet DEF Environment
<1> QED BY <1>5, <1>6, <1>7, <1>8, <1>9, <1>10 DEF Next

LEMMA NeverBackNext ==
  ASSUME ~CanRejoin, MaxLosses = 0, OrderInv, NodeStory, NodesOnce, NEW n \in Node, NeverBack(n), Next
  PROVE  NeverBack(n)'
<1>1. /\ nodeQueue \in [Node -> Seq(SomeNode)] /\ nodeSeen \in [Node -> SomeNode]
      /\ losses = 0 /\ TypeInv /\ "nodes" \in listed /\ "nodes" \in watching
  BY DEF OrderInv, TypeInv, KubeTypeOK, SomeNode, NodeStory, NeverBack
<1>2. ASSUME UNCHANGED nodeFeed, gone \subseteq gone', listed \subseteq listed'
      PROVE  NeverBack(n)'
  BY <1>2 DEF NeverBack, nodeFeed
<1>3. ASSUME NEW m \in Node, DeliverNode(m)
      PROVE  NeverBack(n)'
  <2>1. /\ nodeQueue[m] # <<>> /\ nodeSeen' = [nodeSeen EXCEPT ![m] = Head(nodeQueue[m])]
        /\ nodeQueue' = [nodeQueue EXCEPT ![m] = Tail(nodeQueue[m])] /\ UNCHANGED <<gone, listed>>
    BY <1>3 DEF DeliverNode, apiVars
  <2>2. CASE m # n
    BY <1>1, <2>1, <2>2 DEF NeverBack
  <2>3. CASE m = n /\ Head(nodeQueue[m]) # Nil
    BY <1>1, <2>1, <2>3 DEF NeverBack
  <2>4. CASE m = n /\ Head(nodeQueue[m]) = Nil
    <3>1. nodeQueue[n] \in Seq(SomeNode) /\ nodeQueue[n] # <<>>
      BY <1>1, <2>1, <2>4
    <3>2. /\ Len(nodeQueue[n]) \in Nat \ {0} /\ Head(nodeQueue[n]) = nodeQueue[n][1]
          /\ Len(Tail(nodeQueue[n])) = Len(nodeQueue[n]) - 1
          /\ Tail(nodeQueue[n]) # <<>> => Len(Tail(nodeQueue[n])) \in Nat \ {0}
      BY <3>1, TailIs
    <3>3. n \in gone /\ Len(nodeQueue[n]) = 1
      <4>1. 1 \in 1..Len(nodeQueue[n]) /\ nodeQueue[n][1] = Nil
        BY <2>4, <3>2
      <4> QED BY <4>1 DEF NodesOnce
    <3>4. nodeQueue'[n] = <<>>
      BY <1>1, <2>1, <2>4, <3>2, <3>3
    <3> QED BY <1>1, <2>1, <3>3, <3>4 DEF NeverBack
  <2> QED BY <2>2, <2>3, <2>4
<1>4. CASE StartStep
  BY <1>2, <1>4
     DEF StartStep, SeedNodesList, SeedPodsList, StartNodeWatch, StartPodWatch, StartWatch, SeedNode,
         ShowSeededNode, SeedNodesDone, SeedPod, SeedPodsDone, watchVars, apiVars
<1>5. CASE NodeHandler
  BY <1>2, <1>3, <1>5
     DEF NodeHandler, NodeAdded, NodeLeaves, NodeUpdated, NodeEvent, FindNodeToUpdate, UpdateNode,
         ShowNode, watchVars, apiVars
<1>6. CASE PodHandler
  BY <1>2, <1>6
     DEF PodHandler, PodAdded, EndedPodAdded, PodLeaves, PodUpdated, PodEvent, DeliverPod,
         UpdateUnknownPod, UpdateKnownPod, UpdatePod, watchVars, apiVars
<1>7. CASE \E t \in Thread : ClusterCall(t)
  BY <1>2, <1>7 DEF ClusterCall, watchVars, apiVars
<1>8. ASSUME NEW resource \in {"pods", "nodes"}, WatchBegins(resource)
      PROVE  NeverBack(n)'
  BY <1>1, <1>2, <1>8 DEF WatchBegins, List, ListPods, apiVars
<1>9. CASE Environment
  <2>1. ~\E resource \in {"pods", "nodes"} : LoseWatch(resource)
    BY <1>1 DEF LoseWatch
  <2>2. ASSUME NEW m \in Node, NEW s \in SomeNode, SetNode(m, s), m \notin gone, gone \subseteq gone'
        PROVE  NeverBack(n)'
    BY <1>1, <2>2 DEF SetNode, NeverBack
  <2>3. ApiChange
    BY <1>9, <2>1 DEF Environment
  <2> QED BY <1>1, <1>2, <2>2, <2>3, NodesChangeOnce DEF nodeFeed
<1> QED BY <1>4, <1>5, <1>6, <1>7, <1>8, <1>9 DEF Next

-----------------------------------------------------------------------------
(* The sections of AddPod and DeletePod *)

LEMMA OneAtATime ==
  ASSUME OrderInv, NEW t \in Thread, NEW u \in Thread, t # u
  PROVE  At(t, "idle") \/ At(u, "idle")
<1>1. call[Main] # Idle => call[PodWatch] = Idle
  BY DEF OrderInv, StartOrder
<1> QED BY <1>1, ThreadsAreThese DEF OrderInv, StartOrder, At, Idle

(* What the proofs below rely on of the types. *)
LEMMA BindTypes ==
  ASSUME OrderInv
  PROVE  /\ bound \in [Node -> [Key -> PodObj \cup {Nil}]] /\ used \in [Node -> [Key -> Int]]
         /\ pods \in [Key -> PodObj \cup {Nil}] /\ heap \in [Key -> [PodObj -> Content \cup {Nil}]]
         /\ call \in [Thread -> Frame] /\ held \in [Thread -> Node \cup {Nil}] /\ registered \subseteq Node
         /\ \A k \in Key : pods[k] # Nil => pods[k] \in PodObj /\ heap[k][pods[k]] \in Content
         /\ \A n \in Node, k \in Key :
              bound[n][k] # Nil => bound[n][k] \in PodObj /\ heap[k][bound[n][k]] \in Content
         /\ \A t \in Thread : held[t] # Nil => held[t] \in registered
         /\ \A t \in Thread : call[t].at # "idle" => call[t].key \in Key
         /\ \A t \in Thread : call[t].at \in WithObject =>
              call[t].obj \in PodObj /\ heap[call[t].key][call[t].obj] \in Content
         /\ Nil \notin Node /\ \A c \in Content : c.req \in Int
<1>1. \A c \in Content : c.req \in Int
  BY RequestIsInt DEF Content
<1>2. \A t \in Thread : call[t].at \in WithObject => call[t].at # "idle"
  BY DEF WithObject
<1> QED BY <1>1, <1>2, NilIsNoName
        DEF OrderInv, TypeInv, ClusterInv, ClusterTypeOK, References, CallOK, Frame

(* A section touches the bindings of its own pod only. *)
LEMMA CallStep ==
  ASSUME OrderInv, BindInv, NEW t \in Thread, ~At(t, "idle"), NEW k \in Key, call[t].key = k,
         UNCHANGED <<registered, heap>>,
         \A u \in Thread : u # t => call'[u] = call[u],
         call'[t] = Idle \/ call'[t].key = k,
         \A j \in Key : j # k => pods'[j] = pods[j],
         \A n \in Node, j \in Key : j # k => bound'[n][j] = bound[n][j] /\ used'[n][j] = used[n][j],
         KeyOK(k)', ~At(t, "idle")' => CallBinds(t)'
  PROVE  BindInv'
<1>1. \A u \in Thread : u # t => At(u, "idle") /\ At(u, "idle")'
  BY OneAtATime DEF At
<1>2. \A u \in Thread : ~At(u, "idle")' => CallBinds(u)'
  BY <1>1
<1>3. ASSUME NEW j \in Key, j # k
      PROVE  KeyOK(j)'
  <2>1. \A n \in Node : bound[n][j] \in {Nil, pods[j]}
    <3>1. \A u \in Thread : ~Rebinding(u, j)
      BY <1>1, <1>3 DEF Rebinding, At
    <3> QED BY <3>1 DEF BindInv, KeyOK, SameObject
  <2>2. BoundOK(j) /\ UsedOK(j)
    BY DEF BindInv, KeyOK
  <2> QED BY <1>3, <2>1, <2>2 DEF KeyOK, BoundOK, UsedOK, SameObject, NodeName
<1> QED BY <1>2, <1>3 DEF BindInv

LEMMA PutBinds ==
  ASSUME OrderInv, BindInv, NEW t \in Thread, PutPod(t)
  PROVE  BindInv'
<1>1. ~At(t, "idle") /\ call[t].key \in Key /\ call[t].obj \in PodObj
  BY BindTypes DEF PutPod, At, WithObject
<1> PICK k \in Key, o \in PodObj : k = call[t].key /\ o = call[t].obj
  BY <1>1
<1>2. /\ heap[k][o] \in Content /\ pods' = [pods EXCEPT ![k] = o]
      /\ UNCHANGED <<registered, bound, used, heap, held>>
  BY BindTypes DEF PutPod, At, WithObject, nodeMapVars, bindingVars
<1>3. /\ \A u \in Thread : u # t => call'[u] = call[u]
      /\ \/ call'[t] = Idle /\ heap[k][o].node = Nil
         \/ /\ call'[t].at = "findToBind" /\ call'[t].key = k /\ call'[t].obj = o
            /\ heap[k][o].node # Nil
  BY BindTypes, GotoFrames, ReturnFrames DEF PutPod, Steps
<1>4. pods'[k] = o /\ \A j \in Key : j # k => pods'[j] = pods[j]
  BY <1>2, BindTypes
<1>5. ASSUME NEW n \in Node, bound[n][k] # Nil
      PROVE  /\ n \in registered /\ heap[k][o].node = n /\ heap[k][bound[n][k]].node = n
             /\ CanResize \/ heap[k][bound[n][k]].req = heap[k][o].req
  <2>1. /\ n \in registered /\ pods[k] # Nil /\ heap[k][pods[k]].node = n
        /\ heap[k][bound[n][k]].node = n
        /\ CanResize \/ heap[k][bound[n][k]].req = heap[k][pods[k]].req
    BY <1>5 DEF BindInv, KeyOK, BoundOK, NodeName
  <2>2. Fits(heap[k][pods[k]], heap[k][o])
    BY <1>1, <2>1 DEF BindInv, CallBinds, AddOK, PutPod
  <2> QED BY <2>1, <2>2, BindTypes DEF Fits
<1>6. KeyOK(k)'
  <2>1. BoundOK(k)'
    BY <1>2, <1>4, <1>5, NilIsNoAddress DEF BoundOK, NodeName
  <2>2. UsedOK(k)'
    BY <1>2 DEF BindInv, KeyOK, UsedOK
  <2>3. SameObject(k)'
    BY <1>2, <1>3, <1>5, BindTypes DEF SameObject, Rebinding
  <2> QED BY <2>1, <2>2, <2>3 DEF KeyOK
<1>7. ~At(t, "idle")' => CallBinds(t)'
  <2>1. heap[k][o].node # Nil => heap'[k][o].node \in Node
    BY <1>2 DEF Content
  <2> QED BY <1>3, <1>4, <2>1, NilIsNoAddress DEF CallBinds, AddOK, DeleteOK, UpdateOK, At, Idle
<1> QED BY <1>1, <1>2, <1>3, <1>4, <1>6, <1>7, CallStep

LEMMA FindToBindBinds ==
  ASSUME OrderInv, BindInv, NEW t \in Thread, FindNodeToBind(t)
  PROVE  BindInv'
<1>1. ~At(t, "idle") /\ call[t].key \in Key /\ call[t].obj \in PodObj
  BY BindTypes DEF FindNodeToBind, At, WithObject
<1> PICK k \in Key, o \in PodObj : k = call[t].key /\ o = call[t].obj
  BY <1>1
<1> DEFINE n == heap[k][o].node
<1>2. /\ UNCHANGED <<registered, bound, used, pods, heap>>
      /\ held'[t] = IF n \in registered THEN n ELSE Nil
  BY BindTypes DEF FindNodeToBind, FindNode, storeVars
<1>3. /\ \A u \in Thread : u # t => call'[u] = call[u]
      /\ \/ call'[t] = Idle /\ n \notin registered
         \/ call'[t].at = "bind" /\ call'[t].key = k /\ call'[t].obj = o /\ n \in registered
  BY BindTypes, GotoFrames, ReturnFrames DEF FindNodeToBind, FindNode, Steps
<1>4. /\ pods[k] \in {o, Nil}
      /\ pods[k] = Nil => n \notin registered /\ NeverBack(n)
  BY <1>1 DEF BindInv, CallBinds, AddOK, FindNodeToBind, At
<1>5. \A m \in Node : bound[m][k] # Nil => m \in registered /\ m = n
  BY <1>4 DEF BindInv, KeyOK, BoundOK, NodeName
<1>6. KeyOK(k)'
  <2>1. BoundOK(k)' /\ UsedOK(k)'
    BY <1>2 DEF BindInv, KeyOK, BoundOK, UsedOK, NodeName
  <2>2. SameObject(k)'
    BY <1>2, <1>3, <1>5 DEF SameObject, Rebinding
  <2> QED BY <2>1, <2>2 DEF KeyOK
<1>7. ~At(t, "idle")' => CallBinds(t)'
  <2> SUFFICES ASSUME ~At(t, "idle")'
               PROVE  CallBinds(t)'
    OBVIOUS
  <2>1. call'[t].at = "bind" /\ call'[t].key = k /\ call'[t].obj = o /\ n \in registered
    BY <1>3 DEF At, Idle
  <2>2. pods[k] = o /\ held'[t] = n /\ \A m \in Node : bound[m][k] # Nil => m = n
    BY <1>2, <1>4, <1>5, <2>1
  <2>3. /\ heap'[k][o].node = n /\ n \in Node /\ pods'[k] = o /\ o # Nil
        /\ \A m \in Node : bound'[m][k] # Nil => m = n
    BY <1>2, <2>1, <2>2, BindTypes, NilIsNoAddress
  <2> QED BY <2>1, <2>2, <2>3 DEF CallBinds, AddOK, DeleteOK, UpdateOK, At
<1> QED BY <1>1, <1>2, <1>3, <1>6, <1>7, CallStep

LEMMA BindBinds ==
  ASSUME OrderInv, BindInv, NEW t \in Thread, BindPod(t)
  PROVE  BindInv'
<1>1. ~At(t, "idle") /\ call[t].key \in Key /\ call[t].obj \in PodObj
  BY BindTypes DEF BindPod, At, WithObject
<1> PICK k \in Key, o \in PodObj : k = call[t].key /\ o = call[t].obj
  BY <1>1
<1>2. /\ UNCHANGED <<registered, pods, heap>> /\ call'[t] = Idle
      /\ \A u \in Thread : u # t => call'[u] = call[u]
      /\ heap[k][o] \in Content
  BY BindTypes, ReturnFrames DEF BindPod, At, WithObject, nodeMapVars
<1>3. /\ pods[k] \in {o, Nil}
      /\ pods[k] = Nil => heap[k][o].node \notin registered
      /\ held[t] \in {heap[k][o].node, Nil}
      /\ \A m \in Node : bound[m][k] # Nil => held[t] = m
  BY <1>1 DEF BindInv, CallBinds, AddOK, BindPod, At
<1>4. BoundOK(k) /\ UsedOK(k)
  BY DEF BindInv, KeyOK
<1>5. CASE held[t] = Nil
  <2>1. UNCHANGED <<bound, used>> /\ \A m \in Node : bound[m][k] = Nil
    BY <1>3, <1>5, BindTypes DEF BindPod, bindingVars
  <2>2. KeyOK(k)'
    BY <1>2, <1>4, <2>1 DEF KeyOK, BoundOK, UsedOK, SameObject, NodeName
  <2> QED BY <1>1, <1>2, <2>1, <2>2, CallStep DEF At, Idle
<1>6. CASE held[t] # Nil
  <2> PICK n \in Node : n = held[t]
    BY <1>6, BindTypes
  <2>1. n \in registered /\ pods[k] = o /\ heap[k][o].node = n
    BY <1>3, <1>6, BindTypes
  <2> DEFINE sum == IF bound[n][k] = Nil THEN used[n][k] + heap[k][o].req ELSE used[n][k]
  <2>2. bound' = [bound EXCEPT ![n][k] = o] /\ used' = [used EXCEPT ![n][k] = sum] /\ sum \in Int
    BY <1>2, <1>6, BindTypes DEF BindPod
  <2>3. \A m \in Node, j \in Key :
          /\ bound'[m][j] = IF m = n /\ j = k THEN o ELSE bound[m][j]
          /\ used'[m][j] = IF m = n /\ j = k THEN sum ELSE used[m][j]
    <3> HIDE DEF sum
    <3> QED BY <2>2, EntrySet, BindTypes
  <2>4. CanResize \/ sum = heap[k][o].req
    BY <1>2, <1>4, <2>1, BindTypes DEF BoundOK, UsedOK
  <2>5. \A m \in Node : m # n => bound[m][k] = Nil
    BY <1>3
  <2> HIDE DEF sum
  <2>6. BoundOK(k)'
    BY <1>2, <2>1, <2>3, <2>5, NilIsNoAddress DEF BoundOK, NodeName
  <2>7. UsedOK(k)'
    BY <1>2, <1>4, <2>3, <2>4, <2>5, NilIsNoAddress DEF UsedOK
  <2>8. SameObject(k)'
    BY <1>2, <2>1, <2>3, <2>5 DEF SameObject
  <2> QED BY <1>1, <1>2, <2>3, <2>6, <2>7, <2>8, CallStep DEF At, Idle, KeyOK
<1> QED BY <1>5, <1>6

LEMMA GetBinds ==
  ASSUME OrderInv, BindInv, NEW t \in Thread, GetPodToDelete(t)
  PROVE  BindInv'
<1>1. call[t].at = "get" /\ ~At(t, "idle") /\ call[t].key \in Key
  BY BindTypes DEF GetPodToDelete, At
<1> PICK k \in Key : k = call[t].key
  BY <1>1
<1>2. UNCHANGED <<registered, bound, used, pods, heap, held>>
  BY DEF GetPodToDelete, storeVars
<1>3. /\ \A u \in Thread : u # t => call'[u] = call[u]
      /\ call'[t].key = k
      /\ \/ call'[t].at = "drop" /\ (pods[k] = Nil \/ heap[k][pods[k]].node = Nil)
         \/ call'[t].at = "findToUnbind" /\ call'[t].obj = pods[k]
  BY BindTypes DEF GetPodToDelete, Goto, Frame, NodeName
<1>4. KeyOK(k)'
  <2>1. \A u \in Thread : ~Rebinding(u, k)
    BY <1>1, OneAtATime DEF Rebinding, At
  <2> QED BY <1>2, <2>1 DEF BindInv, KeyOK, BoundOK, UsedOK, SameObject, NodeName
<1>5. \A n \in Node : bound[n][k] # Nil => pods[k] # Nil /\ heap[k][pods[k]].node = n
  BY DEF BindInv, KeyOK, BoundOK, NodeName
<1>6. CallBinds(t)'
  BY <1>2, <1>3, <1>5, BindTypes DEF CallBinds, AddOK, DeleteOK, UpdateOK, At
<1> QED BY <1>1, <1>2, <1>3, <1>4, <1>6, CallStep

LEMMA FindToUnbindBinds ==
  ASSUME OrderInv, BindInv, NEW t \in Thread, FindNodeToUnbind(t)
  PROVE  BindInv'
<1>1. call[t].at = "findToUnbind" /\ ~At(t, "idle") /\ call[t].key \in Key
  BY BindTypes DEF FindNodeToUnbind, At
<1> PICK k \in Key : k = call[t].key
  BY <1>1
<1> DEFINE n == heap[k][call[t].obj].node
<1>2. /\ UNCHANGED <<registered, bound, used, pods, heap>>
      /\ held'[t] = IF n \in registered THEN n ELSE Nil
  BY BindTypes DEF FindNodeToUnbind, FindNode, storeVars
<1>3. /\ \A u \in Thread : u # t => call'[u] = call[u]
      /\ call'[t].key = k
      /\ \/ call'[t].at = "drop" /\ n \notin registered
         \/ call'[t].at = "unbind" /\ n \in registered
  BY BindTypes, GotoFrames DEF FindNodeToUnbind, FindNode, Steps
<1>4. KeyOK(k)'
  <2>1. \A u \in Thread : ~Rebinding(u, k)
    BY <1>1, OneAtATime DEF Rebinding, At
  <2> QED BY <1>2, <2>1 DEF BindInv, KeyOK, BoundOK, UsedOK, SameObject, NodeName
<1>5. \A m \in Node : bound[m][k] # Nil => m = n /\ m \in registered
  BY <1>1 DEF BindInv, KeyOK, BoundOK, CallBinds, DeleteOK, At
<1>6. CallBinds(t)'
  BY <1>2, <1>3, <1>5 DEF CallBinds, AddOK, DeleteOK, UpdateOK, At
<1> QED BY <1>1, <1>2, <1>3, <1>4, <1>6, CallStep

LEMMA UnbindBinds ==
  ASSUME OrderInv, BindInv, NEW t \in Thread, UnbindPod(t)
  PROVE  BindInv'
<1>1. call[t].at = "unbind" /\ ~At(t, "idle") /\ call[t].key \in Key
  BY BindTypes DEF UnbindPod, At
<1> PICK k \in Key : k = call[t].key
  BY <1>1
<1>2. /\ UNCHANGED <<registered, pods, heap>>
      /\ \A u \in Thread : u # t => call'[u] = call[u]
      /\ call'[t].key = k /\ call'[t].at = "drop"
  BY BindTypes, GotoFrames DEF UnbindPod, Steps, nodeMapVars
<1>3. \A m \in Node : bound[m][k] # Nil => held[t] = m
  BY <1>1 DEF BindInv, CallBinds, DeleteOK, At
<1>4. UsedOK(k)
  BY DEF BindInv, KeyOK
<1>5. ASSUME \A m \in Node : bound'[m][k] = Nil, UsedOK(k)',
             \A m \in Node, j \in Key : j # k => bound'[m][j] = bound[m][j] /\ used'[m][j] = used[m][j]
      PROVE  BindInv'
  <2>1. KeyOK(k)'
    BY <1>5 DEF KeyOK, BoundOK, SameObject
  <2>2. CallBinds(t)'
    BY <1>2, <1>5 DEF CallBinds, AddOK, DeleteOK, UpdateOK, At
  <2> QED BY <1>1, <1>2, <1>5, <2>1, <2>2, CallStep
<1>6. CASE held[t] = Nil \/ bound[held[t]][k] = Nil
  <2>1. UNCHANGED <<bound, used>>
    BY <1>6 DEF UnbindPod, bindingVars
  <2>2. \A m \in Node : bound[m][k] = Nil
    BY <1>3, <1>6, BindTypes
  <2> QED BY <1>2, <1>4, <1>5, <2>1, <2>2 DEF UsedOK
<1>7. CASE held[t] # Nil /\ bound[held[t]][k] # Nil
  <2> PICK n \in Node : n = held[t]
    BY <1>7, BindTypes
  <2> DEFINE rest == used[n][k] - heap[k][bound[n][k]].req
  <2>1. /\ bound' = [bound EXCEPT ![n][k] = Nil] /\ used' = [used EXCEPT ![n][k] = rest]
        /\ rest \in Int
        /\ CanResize \/ rest = 0
    BY <1>4, <1>7, BindTypes DEF UnbindPod, UsedOK
  <2> HIDE DEF rest
  <2>2. \A m \in Node, j \in Key :
          /\ bound'[m][j] = IF m = n /\ j = k THEN Nil ELSE bound[m][j]
          /\ used'[m][j] = IF m = n /\ j = k THEN rest ELSE used[m][j]
    BY <2>1, EntrySet, BindTypes
  <2>3. \A m \in Node : bound'[m][k] = Nil
    BY <1>3, <2>2
  <2>4. UsedOK(k)'
    <3>1. ASSUME ~CanResize, NEW m \in Node
          PROVE  used'[m][k] = 0
      <4>1. m # n => bound[m][k] = Nil
        BY <1>3
      <4> QED BY <1>4, <2>1, <2>2, <3>1, <4>1 DEF UsedOK
    <3> QED BY <2>3, <3>1 DEF UsedOK
  <2> QED BY <1>5, <2>2, <2>3, <2>4
<1> QED BY <1>6, <1>7

LEMMA DropBinds ==
  ASSUME OrderInv, BindInv, NEW t \in Thread, DropPod(t)
  PROVE  BindInv'
<1>1. call[t].at = "drop" /\ ~At(t, "idle") /\ call[t].key \in Key
  BY BindTypes DEF DropPod, At
<1> PICK k \in Key : k = call[t].key
  BY <1>1
<1>2. /\ UNCHANGED <<registered, bound, used, heap>> /\ call'[t] = Idle
      /\ \A u \in Thread : u # t => call'[u] = call[u]
      /\ \A j \in Key : j # k => pods'[j] = pods[j]
  BY BindTypes, ReturnFrames DEF DropPod, nodeMapVars, bindingVars
<1>3. \A m \in Node : bound[m][k] = Nil
  BY <1>1 DEF BindInv, CallBinds, DeleteOK, At
<1>4. KeyOK(k)'
  BY <1>2, <1>3 DEF BindInv, KeyOK, BoundOK, UsedOK, SameObject
<1> QED BY <1>1, <1>2, <1>4, CallStep DEF At, Idle

LEMMA CallBindsNext ==
  ASSUME OrderInv, BindInv, NEW t \in Thread, ClusterCall(t)
  PROVE  BindInv'
BY PutBinds, FindToBindBinds, BindBinds, GetBinds, FindToUnbindBinds, UnbindBinds, DropBinds
   DEF ClusterCall, PodCall

-----------------------------------------------------------------------------
(* The handlers and Start *)

LEMMA BindKept ==
  ASSUME OrderInv, BindInv, UNCHANGED <<bound, used, pods, heap, call>>, registered \subseteq registered',
         \A t \in Thread : ~At(t, "idle") =>
           /\ held'[t] = held[t] /\ UNCHANGED podSeen
           /\ \A n \in Node : n \notin registered /\ NeverBack(n) => n \notin registered' /\ NeverBack(n)'
  PROVE  BindInv'
<1>1. \A k \in Key : KeyOK(k)'
  BY DEF BindInv, KeyOK, BoundOK, UsedOK, SameObject, Rebinding, NodeName
<1>2. ASSUME NEW t \in Thread, ~At(t, "idle")'
      PROVE  CallBinds(t)'
  <2>1. CallBinds(t) /\ ~At(t, "idle")
    BY <1>2 DEF BindInv, At
  <2> QED BY <2>1 DEF CallBinds, AddOK, DeleteOK, UpdateOK, At
<1> QED BY <1>1, <1>2 DEF BindInv

(* A call begins, or goes on, before it reaches the store. *)
LEMMA CallBegins ==
  ASSUME OrderInv, BindInv, NEW t \in Thread, ~\E k \in Key : Rebinding(t, k),
         \A u \in Thread : u # t => At(u, "idle") /\ call'[u] = call[u],
         UNCHANGED <<bound, used, pods, registered>>,
         \A k \in Key : pods[k] # Nil => heap'[k][pods[k]] = heap[k][pods[k]],
         \A n \in Node, k \in Key : bound[n][k] # Nil => heap'[k][bound[n][k]] = heap[k][bound[n][k]],
         ~At(t, "idle")' => CallBinds(t)'
  PROVE  BindInv'
<1>1. ASSUME NEW k \in Key
      PROVE  KeyOK(k)'
  <2>1. \A n \in Node : bound[n][k] \in {Nil, pods[k]}
    BY DEF BindInv, KeyOK, SameObject, Rebinding, At
  <2>2. BoundOK(k)' /\ UsedOK(k)'
    BY DEF BindInv, KeyOK, BoundOK, UsedOK, NodeName
  <2> QED BY <2>1, <2>2 DEF KeyOK, SameObject
<1>2. \A u \in Thread : ~At(u, "idle")' => CallBinds(u)'
  BY DEF At
<1> QED BY <1>1, <1>2 DEF BindInv

LEMMA StartBinds ==
  ASSUME OrderInv, SeedsExact, NodeStory, BindInv, StartStep
  PROVE  BindInv'
<1>1. ASSUME start # "seedPods"
      PROVE  call[Main] = Idle
  BY <1>1 DEF OrderInv, StartOrder
<1>2. ASSUME start # "done"
      PROVE  call[PodWatch] = Idle /\ call[NodeWatch] = Idle /\ "pods" \notin listed
  BY <1>2 DEF OrderInv, StartOrder
<1>3. ASSUME NEW k \in Key, NEW c \in Content, NEW o \in PodObj, SeedPod(k, c, o)
      PROVE  BindInv'
  <2>1. /\ \A u \in Thread : At(u, "idle")
        /\ \A u \in Thread : u # Main => call'[u] = call[u]
        /\ call'[Main] = [at |-> "put", key |-> k, obj |-> o]
        /\ UNCHANGED <<bound, used, pods, registered>> /\ NewPod(k, o, c) /\ <<k, c>> \in seeds.pods
    BY <1>2, <1>3, ThreadsAreThese, BindTypes DEF SeedPod, CallAddPod, At, Idle, bindingVars, nodeMapVars
  <2>2. /\ heap'[k][o] = ContentOf(c)
        /\ \A j \in Key : pods[j] # Nil => heap'[j][pods[j]] = heap[j][pods[j]]
        /\ \A n \in Node, j \in Key : bound[n][j] # Nil => heap'[j][bound[n][j]] = heap[j][bound[n][j]]
    BY <2>1, OnlyNewPodWritten DEF OrderInv
  <2>3. ContentOf(c) = c /\ (pods[k] # Nil => heap[k][pods[k]] = c)
    <3>1. c = ContentOf(apiPods[k]) /\ (pods[k] # Nil => heap[k][pods[k]] = ContentOf(apiPods[k]))
      BY <1>2, <1>3, <2>1 DEF SeedPod, SeedsExact
    <3> QED BY <3>1 DEF ContentOf, Content
  <2>4. CallBinds(Main)'
    <3>1. pods'[k] # Nil => Fits(heap'[k][pods'[k]], heap'[k][o])
      BY <2>1, <2>2, <2>3, BindTypes DEF Fits
    <3> QED BY <2>1, <3>1 DEF CallBinds, AddOK, DeleteOK, UpdateOK, At
  <2> QED BY <2>1, <2>2, <2>4, BindTypes, CallBegins, ThreadsDiffer DEF Rebinding, At
<1>4. ASSUME NEW n \in Node, NEW i \in NodeInfo, SeedNode(n, i)
      PROVE  BindInv'
  <2>1. \A u \in Thread : At(u, "idle")
    BY <1>1, <1>2, <1>4, ThreadsAreThese DEF SeedNode, At, Idle
  <2> QED BY <1>4, <2>1, BindKept DEF SeedNode, AddNode, bindingVars
<1>5. CASE ShowSeededNode
  <2>1. \A u \in Thread : At(u, "idle")
    BY <1>1, <1>2, <1>5, ThreadsAreThese DEF ShowSeededNode, At, Idle
  <2> QED BY <1>5, <2>1, BindKept DEF ShowSeededNode, Show, bindingVars
<1>6. CASE \/ \E answer \in Answers :
                SeedNodesList(answer) \/ StartNodeWatch(answer) \/ SeedPodsList(answer) \/ StartPodWatch(answer)
           \/ SeedNodesDone \/ SeedPodsDone
  <2>1. UNCHANGED <<bound, used, pods, heap, call, registered, held, podSeen, nodeFeed, gone, listed>>
    BY <1>6
       DEF SeedNodesList, SeedPodsList, StartNodeWatch, StartPodWatch, StartWatch, SeedNodesDone,
           SeedPodsDone, clusterVars, storeVars, nodeMapVars, bindingVars, watchVars, podFeed, apiVars
  <2> QED BY <2>1, BindKept DEF NeverBack, nodeFeed
<1> QED BY <1>3, <1>4, <1>5, <1>6 DEF StartStep

LEMMA NodeLeavesBinds ==
  ASSUME ~CanRejoin, MaxLosses = 0, OrderInv, NodeStory, NodesOnce, BindInv, Next,
         NEW n \in Node, NodeLeaves(n)
  PROVE  BindInv'
<1>1. /\ registered' = registered \ {n} /\ UNCHANGED <<heap, call, podSeen>>
      /\ \A m \in Node : bound'[m] = IF m = n THEN NoBindings ELSE bound[m]
      /\ \A m \in Node : used'[m] = IF m = n THEN NothingUsed ELSE used[m]
      /\ \A t \in Thread : held'[t] = IF held[t] = n THEN Nil ELSE held[t]
  BY BindTypes DEF NodeLeaves, NodeEvent, DeliverNode, DeleteNode, podFeed
<1>2. \A k \in Key :
        pods'[k] = IF n \in registered /\ pods[k] # Nil /\ NodeName(k) = n THEN Nil ELSE pods[k]
  BY BindTypes DEF NodeLeaves, DeleteNode
<1>3. NeverBack(n)
  <2>1. nodeQueue[n] # <<>> /\ nodeSeen[n] # Nil
    BY DEF NodeLeaves, NodeEvent, DeliverNode
  <2> QED BY <2>1 DEF NeverBack, NodeStory
<1>4. \A m \in Node : NeverBack(m) => NeverBack(m)'
  BY NeverBackNext
<1>5. ASSUME NEW k \in Key
      PROVE  /\ \A m \in Node : bound'[m][k] = IF m = n THEN Nil ELSE bound[m][k]
             /\ \A m \in Node : used'[m][k] = IF m = n THEN 0 ELSE used[m][k]
  BY <1>1, <1>5 DEF NoBindings, NothingUsed
<1>6. ASSUME NEW k \in Key
      PROVE  KeyOK(k)'
  <2>1. BoundOK(k) /\ UsedOK(k) /\ SameObject(k)
    BY <1>6 DEF BindInv, KeyOK
  <2>2. \A m \in Node : m # n /\ bound[m][k] # Nil => pods'[k] = pods[k]
    BY <1>2, <1>6, <2>1 DEF BoundOK
  <2>3. BoundOK(k)'
    BY <1>1, <1>5, <1>6, <2>1, <2>2 DEF BoundOK, NodeName
  <2>4. UsedOK(k)'
    BY <1>1, <1>5, <1>6, <2>1 DEF UsedOK
  <2>5. SameObject(k)'
    BY <1>1, <1>5, <1>6, <2>1, <2>2 DEF SameObject, Rebinding
  <2> QED BY <2>3, <2>4, <2>5 DEF KeyOK
<1>7. ASSUME NEW t \in Thread, ~At(t, "idle")'
      PROVE  CallBinds(t)'
  <2>1. CallBinds(t) /\ call[t].key \in Key
    BY <1>1, <1>7, BindTypes DEF BindInv, At
  <2> PICK k \in Key : k = call[t].key
    BY <2>1
  <2> PICK o : o = call[t].obj
    OBVIOUS
  <2>2. AddOK(t, k, o) /\ DeleteOK(t, k, o) /\ UpdateOK(t, k, o)
    BY <2>1 DEF CallBinds
  <2>3. pods'[k] = pods[k] \/ (pods'[k] = Nil /\ pods[k] # Nil /\ NodeName(k) = n)
    BY <1>2
  <2>4. AddOK(t, k, o)'
    <3>1. At(t, "put")' /\ pods'[k] # Nil => Fits(heap'[k][pods'[k]], heap'[k][o])
      BY <1>1, <2>2, <2>3 DEF AddOK, At
    <3>2. ASSUME call'[t].at \in {"findToBind", "bind"}
          PROVE  (/\ pods[k] \in {o, Nil} /\ heap[k][o].node \in Node
                  /\ pods[k] = Nil => heap[k][o].node \notin registered /\ NeverBack(heap[k][o].node))'
      <4>1. /\ pods[k] \in {o, Nil} /\ heap[k][o].node \in Node
            /\ pods[k] = Nil => heap[k][o].node \notin registered /\ NeverBack(heap[k][o].node)
        BY <1>1, <2>2, <3>2 DEF AddOK
      <4> PICK m \in Node : m = heap[k][o].node
        BY <4>1
      <4>2. pods[k] # Nil /\ pods'[k] = Nil => m = n
        BY <2>3, <4>1 DEF NodeName
      <4>3. pods'[k] = Nil => m \notin registered' /\ NeverBack(m)
        BY <1>1, <1>3, <2>3, <4>1, <4>2
      <4>4. pods'[k] = Nil => NeverBack(m)'
        BY <1>4, <4>3
      <4> QED BY <1>1, <2>3, <4>1, <4>3, <4>4 DEF NeverBack
    <3>3. At(t, "bind")' =>
            /\ held'[t] \in {heap'[k][o].node, Nil}
            /\ \A m \in Node : bound'[m][k] # Nil => held'[t] = m
      BY <1>1, <1>5, <2>2 DEF AddOK, At
    <3> QED BY <1>1, <3>1, <3>2, <3>3 DEF AddOK
  <2>5. DeleteOK(t, k, o)'
    BY <1>1, <1>5, <2>2 DEF DeleteOK, At
  <2>6. UpdateOK(t, k, o)'
    BY <1>1, <2>2, <2>3 DEF UpdateOK, At
  <2> QED BY <1>1, <2>4, <2>5, <2>6 DEF CallBinds, AddOK, DeleteOK, UpdateOK, At
<1> QED BY <1>6, <1>7 DEF BindInv

LEMMA NodeHandlerBinds ==
  ASSUME ~CanRejoin, MaxLosses = 0, OrderInv, NodeStory, NodesOnce, BindInv, Next, NodeHandler
  PROVE  BindInv'
<1>1. At(NodeWatch, "idle") /\ Main # NodeWatch /\ PodWatch # NodeWatch /\ NodeWatch \in Thread
  BY ThreadsAreThese DEF OrderInv, StartOrder, At, Idle
<1>2. \A m \in Node : NeverBack(m) => NeverBack(m)'
  BY NeverBackNext
<1>3. ASSUME NEW n \in Node, NodeAdded(n)
      PROVE  BindInv'
  <2>1. ~NeverBack(n)
    BY <1>3 DEF NodeAdded, NodeEvent, DeliverNode, NeverBack
  <2>2. registered' = registered \cup {n} /\ \A t \in Thread : ~At(t, "idle") => held'[t] = held[t]
    BY <1>1, <1>3, BindTypes DEF NodeAdded, AddNode
  <2>3. UNCHANGED <<bound, used, pods, heap, call, podSeen>>
    BY <1>3 DEF NodeAdded, NodeEvent, DeliverNode, bindingVars, podFeed
  <2> QED BY <1>2, <2>1, <2>2, <2>3, BindKept
<1>4. CASE (\E n \in Node : NodeUpdated(n)) \/ FindNodeToUpdate \/ UpdateNode \/ ShowNode
  <2>1. UNCHANGED <<bound, used, pods, heap, call, podSeen, registered>>
    BY <1>4
       DEF NodeUpdated, NodeEvent, DeliverNode, FindNodeToUpdate, FindNode, UpdateNode, ShowNode, Show,
           storeVars, nodeMapVars, bindingVars, watchVars, podFeed
  <2>2. \A t \in Thread : ~At(t, "idle") => held'[t] = held[t]
    BY <1>1, <1>4, BindTypes
       DEF NodeUpdated, NodeEvent, FindNodeToUpdate, FindNode, UpdateNode, ShowNode
  <2> QED BY <1>2, <2>1, <2>2, BindKept
<1> QED BY <1>3, <1>4, NodeLeavesBinds DEF NodeHandler

LEMMA PodHandlerBinds ==
  ASSUME OrderInv, PodStory, HeadExact, BindInv, PodHandler
  PROVE  BindInv'
<1> DEFINE w == call[PodWatch]
<1>1. /\ PodWatch \in Thread /\ call \in [Thread -> Frame] /\ w \in Frame
      /\ podSeen \in [Key -> SomePod] /\ podQueue \in [Key -> Seq(SomePod)] /\ TypeInv
  BY ThreadsDiffer DEF OrderInv, TypeInv, ClusterInv, ClusterTypeOK, KubeTypeOK, SomePod
<1>2. \A t \in Thread : t # PodWatch => At(t, "idle")
  <2>1. "pods" \in listed => call[Main] = Idle
    BY DEF OrderInv, StartOrder
  <2>2. "pods" \in listed
    BY <1>1
       DEF PodHandler, PodAdded, EndedPodAdded, PodLeaves, PodUpdated, PodEvent, DeliverPod,
           UpdateUnknownPod, UpdateKnownPod, UpdatePod, OrderInv, StartOrder, At, Idle
  <2> QED BY <2>1, <2>2, ThreadsAreThese DEF OrderInv, StartOrder, At, Idle
<1>3. ASSUME NEW k \in Key, PodEvent(k)
      PROVE  /\ w = Idle /\ At(PodWatch, "idle") /\ Handled(k) /\ "pods" \in listed
             /\ podSeen' = [podSeen EXCEPT ![k] = Head(podQueue[k])] /\ podQueue[k] # <<>>
             /\ podQueue[k] \in Seq(SomePod) /\ <<podSeen[k], Head(podQueue[k])>> \in PodChange
             /\ UNCHANGED <<bound, used, pods, registered>>
  <2>1. podQueue[k] \in Seq(SomePod) /\ podQueue[k] # <<>>
    BY <1>1, <1>3 DEF PodEvent, DeliverPod
  <2>2. <<podSeen[k], Head(podQueue[k])>> \in PodChange
    BY <2>1, EmptySeq DEF PodStory, Chained
  <2>3. w = Idle /\ "pods" \in listed
    BY <1>1, <1>3, <2>1 DEF PodEvent, OrderInv, StartOrder
  <2>4. Handled(k)
    BY <2>3, NilIsNoName DEF Handled, Idle
  <2> QED BY <1>3, <2>1, <2>2, <2>3, <2>4 DEF PodEvent, DeliverPod, bindingVars, nodeMapVars
<1>4. ASSUME NEW k \in Key, NEW o \in PodObj, PodAdded(k, o)
      PROVE  BindInv'
  <2>1. PodEvent(k) /\ podSeen[k] = Nil /\ NewPod(k, o, Head(podQueue[k]))
    BY <1>4 DEF PodAdded
  <2>2. /\ call'[PodWatch] = [at |-> "put", key |-> k, obj |-> o]
        /\ \A u \in Thread : u # PodWatch => call'[u] = call[u]
    BY <1>1, <1>4 DEF PodAdded, CallAddPod
  <2>3. /\ heap'[k][o] = ContentOf(Head(podQueue[k]))
        /\ \A j \in Key : pods[j] # Nil => heap'[j][pods[j]] = heap[j][pods[j]]
        /\ \A n \in Node, j \in Key : bound[n][j] # Nil => heap'[j][bound[n][j]] = heap[j][bound[n][j]]
    BY <1>1, <2>1, OnlyNewPodWritten
  <2>4. pods'[k] # Nil => Fits(heap'[k][pods'[k]], heap'[k][o])
    <3>1. pods[k] # Nil => heap[k][pods[k]] = ContentOf(Head(podQueue[k]))
      BY <1>3, <2>1 DEF HeadExact
    <3>2. pods[k] # Nil => heap'[k][pods[k]] = heap'[k][o]
      BY <2>3, <3>1
    <3> QED BY <1>3, <2>1, <3>2 DEF Fits
  <2>5. CallBinds(PodWatch)'
    BY <2>2, <2>4 DEF CallBinds, AddOK, DeleteOK, UpdateOK, At
  <2> QED BY <1>1, <1>2, <1>3, <2>1, <2>2, <2>3, <2>5, BindTypes, CallBegins DEF Rebinding, At
<1>5. ASSUME NEW k \in Key, EndedPodAdded(k)
      PROVE  BindInv'
  <2>1. PodEvent(k) /\ UNCHANGED <<heap, call>>
    BY <1>5 DEF EndedPodAdded
  <2> QED BY <1>1, <1>2, <1>3, <2>1, CallBegins DEF Rebinding, At
<1>6. ASSUME NEW k \in Key, PodLeaves(k)
      PROVE  BindInv'
  <2>1. /\ PodEvent(k) /\ UNCHANGED heap /\ call'[PodWatch].at = "get"
        /\ \A u \in Thread : u # PodWatch => call'[u] = call[u]
    BY <1>1, <1>6 DEF PodLeaves, CallDeletePod
  <2>2. CallBinds(PodWatch)'
    BY <2>1 DEF CallBinds, AddOK, DeleteOK, UpdateOK, At
  <2> QED BY <1>1, <1>2, <1>3, <2>1, <2>2, CallBegins DEF Rebinding, At
<1>7. ASSUME NEW k \in Key, PodUpdated(k)
      PROVE  BindInv'
  <2>1. /\ PodEvent(k) /\ podSeen[k] # Nil /\ IsLive(Head(podQueue[k])) /\ UNCHANGED heap
        /\ call'[PodWatch] = [at |-> "lookup", key |-> k, obj |-> Nil]
        /\ \A u \in Thread : u # PodWatch => call'[u] = call[u]
    BY <1>1, <1>7 DEF PodUpdated
  <2>2. IsLive(podSeen[k]) /\ Fits(podSeen[k], Head(podQueue[k]))
    BY <1>3, <2>1 DEF PodChange, IsLive
  <2>3. pods[k] # Nil => heap[k][pods[k]] = ContentOf(podSeen[k])
    BY <1>3, <2>1, <2>2 DEF OrderInv, FreshInv, IsFreshInStore
  <2>4. podSeen'[k] = Head(podQueue[k])
    BY <1>1, <1>3, <2>1
  <2>5. pods'[k] # Nil => Fits(heap'[k][pods'[k]], ContentOf(podSeen'[k]))
    <3>1. Fits(ContentOf(podSeen[k]), ContentOf(Head(podQueue[k])))
      BY <2>2 DEF Fits, ContentOf
    <3>2. pods'[k] # Nil => heap'[k][pods'[k]] = ContentOf(podSeen[k])
      BY <1>3, <2>1, <2>3
    <3> QED BY <2>4, <3>1, <3>2
  <2>6. CallBinds(PodWatch)'
    BY <2>1, <2>5 DEF CallBinds, AddOK, DeleteOK, UpdateOK, At
  <2> QED BY <1>1, <1>2, <1>3, <2>1, <2>6, CallBegins DEF Rebinding, At
<1>8. ASSUME NEW o \in PodObj, UpdateUnknownPod(o)
      PROVE  BindInv'
  <2>1. w.at = "lookup" /\ w.key \in Key
    BY <1>1, <1>8, BindTypes DEF UpdateUnknownPod, At
  <2> PICK k \in Key : k = w.key
    BY <2>1
  <2>2. /\ pods[k] = Nil /\ NewPod(k, o, podSeen[k])
        /\ call'[PodWatch] = [at |-> "put", key |-> k, obj |-> o]
        /\ \A u \in Thread : u # PodWatch => call'[u] = call[u]
        /\ UNCHANGED <<bound, used, pods, registered>>
    BY <1>1, <1>8 DEF UpdateUnknownPod, CallAddPod, bindingVars, nodeMapVars
  <2>3. /\ \A j \in Key : pods[j] # Nil => heap'[j][pods[j]] = heap[j][pods[j]]
        /\ \A n \in Node, j \in Key : bound[n][j] # Nil => heap'[j][bound[n][j]] = heap[j][bound[n][j]]
    BY <1>1, <2>2, OnlyNewPodWritten
  <2>4. CallBinds(PodWatch)'
    BY <2>2 DEF CallBinds, AddOK, DeleteOK, UpdateOK, At
  <2> QED BY <1>1, <1>2, <2>1, <2>2, <2>3, <2>4, BindTypes, CallBegins DEF Rebinding
<1>9. CASE UpdateKnownPod
  <2>1. w.at = "lookup" /\ w.key \in Key
    BY <1>1, <1>9, BindTypes DEF UpdateKnownPod, At
  <2> PICK k \in Key : k = w.key
    BY <2>1
  <2>2. /\ call'[PodWatch].at = "update" /\ call'[PodWatch].key = k /\ call'[PodWatch].obj = pods[k]
        /\ \A u \in Thread : u # PodWatch => call'[u] = call[u]
        /\ UNCHANGED <<bound, used, pods, registered, heap, podSeen>>
    BY <1>1, <1>9 DEF UpdateKnownPod, Frame, storeVars, watchVars, podFeed
  <2>3. pods[k] # Nil => Fits(heap[k][pods[k]], ContentOf(podSeen[k]))
    BY <1>1, <2>1 DEF BindInv, CallBinds, UpdateOK, At
  <2>4. CallBinds(PodWatch)'
    BY <2>2, <2>3 DEF CallBinds, AddOK, DeleteOK, UpdateOK, At
  <2> QED BY <1>1, <1>2, <2>1, <2>2, <2>4, CallBegins DEF Rebinding
<1>10. CASE UpdatePod
  <2>1. w.at = "update" /\ w.key \in Key /\ w.obj \in PodObj
    BY <1>1, <1>10, BindTypes DEF UpdatePod, At, WithObject
  <2> PICK k \in Key, o \in PodObj : k = w.key /\ o = w.obj
    BY <2>1
  <2>2. /\ heap' = [heap EXCEPT ![k][o] = ContentOf(podSeen[k])]
        /\ UNCHANGED <<bound, used, pods, registered>>
    BY <1>10 DEF UpdatePod, bindingVars, nodeMapVars
  <2>3. /\ call'[PodWatch].at = "put" /\ call'[PodWatch].key = k /\ call'[PodWatch].obj = o
        /\ \A u \in Thread : u # PodWatch => call'[u] = call[u]
    BY <1>1, <1>10, GotoFrames DEF UpdatePod, Steps
  <2>4. /\ heap'[k][o] = ContentOf(podSeen[k])
        /\ \A j \in Key, x \in PodObj : j # k \/ x # o => heap'[j][x] = heap[j][x]
    BY <2>2, BindTypes
  <2>5. pods[k] \in {o, Nil} /\ (pods[k] # Nil => Fits(heap[k][o], heap'[k][o]))
    BY <1>1, <2>1, <2>4 DEF BindInv, CallBinds, UpdateOK, At
  <2>6. ASSUME NEW j \in Key
        PROVE  /\ BoundOK(j) /\ UsedOK(j)
               /\ \A n \in Node : bound[n][j] \in {Nil, pods[j]}
    BY <1>2, <2>1, <2>6 DEF BindInv, KeyOK, SameObject, Rebinding, At
  <2>7. ASSUME NEW j \in Key, j # k
        PROVE  KeyOK(j)'
    <3>1. \A x \in PodObj : heap'[j][x] = heap[j][x]
      BY <2>4, <2>7
    <3> QED BY <2>2, <2>6, <3>1, BindTypes DEF KeyOK, BoundOK, UsedOK, SameObject, NodeName
  <2>8. KeyOK(k)'
    <3>1. \A n \in Node : bound[n][k] # Nil =>
            /\ n \in registered /\ pods[k] = o /\ bound[n][k] = o /\ heap[k][o].node = n
      BY <2>5, <2>6 DEF BoundOK, NodeName
    <3>2. \A n \in Node : bound[n][k] # Nil =>
            heap'[k][o].node = n /\ (CanResize \/ heap'[k][o].req = heap[k][o].req)
      BY <2>5, <3>1, BindTypes DEF Fits
    <3>3. BoundOK(k)'
      BY <2>2, <3>1, <3>2, NilIsNoAddress DEF BoundOK, NodeName
    <3>4. UsedOK(k)'
      BY <2>2, <2>6, <3>1, <3>2 DEF UsedOK
    <3>5. SameObject(k)'
      BY <2>2, <2>6 DEF SameObject
    <3> QED BY <3>3, <3>4, <3>5 DEF KeyOK
  <2>9. CallBinds(PodWatch)'
    BY <2>2, <2>3, <2>5 DEF CallBinds, AddOK, DeleteOK, UpdateOK, Fits, At
  <2>10. \A t \in Thread : ~At(t, "idle")' => CallBinds(t)'
    BY <1>2, <2>3, <2>9 DEF At
  <2> QED BY <2>7, <2>8, <2>10 DEF BindInv
<1> QED BY <1>4, <1>5, <1>6, <1>7, <1>8, <1>9, <1>10 DEF PodHandler

LEMMA BindInvNext ==
  ASSUME ~CanRejoin, MaxLosses = 0, OrderInv, PodStory, SeedsExact, HeadExact, NodeStory, NodesOnce,
         BindInv, Next
  PROVE  BindInv'
<1>1. CASE (\E resource \in {"pods", "nodes"} : WatchBegins(resource)) \/ Environment
  <2>1. UNCHANGED <<bound, used, pods, heap, call, registered, held, podSeen>>
    BY <1>1, ApiChangesOnePod
       DEF WatchBegins, List, ListPods, ListNodes, Environment, LoseWatch, clusterVars, storeVars, podFeed
  <2> QED BY <2>1, NeverBackNext, BindKept
<1> QED BY <1>1, StartBinds, NodeHandlerBinds, PodHandlerBinds, CallBindsNext DEF Next

-----------------------------------------------------------------------------

Bindings ==
  /\ OrderInv /\ PodStory /\ SeedsLive /\ SeedsExact /\ HeadExact
  /\ NodeStory /\ NodesOnce /\ BindInv

LEMMA BindingsInductive ==
  ASSUME Steady
  PROVE  Spec => []Bindings
<1>1. Init => Bindings
  <2>1. Init => PodStory /\ SeedsLive /\ SeedsExact /\ HeadExact /\ NodeStory /\ NodesOnce
    BY ThreadsDiffer
       DEF Init, ClusterInit, KubeInit, NoSeeds, Idle, PodStory, SeedsLive, SeedsExact, HeadExact,
           NodeStory, NodesOnce, Chained
  <2>2. Init => BindInv
    BY DEF Init, ClusterInit, NoBindings, NothingUsed, Idle, BindInv, KeyOK, BoundOK, UsedOK,
           SameObject, At
  <2> QED BY <2>1, <2>2, OrderInvInductive DEF Bindings
<1>2. Bindings /\ Next => Bindings'
  BY OrderInvInductive, PodStoryNext, SeedsLiveNext, SeedsExactNext, HeadExactNext, NodeStoryNext,
     NodesOnceNext, BindInvNext
     DEF Bindings, Steady
<1>3. Bindings /\ UNCHANGED vars => Bindings'
  <2> SUFFICES ASSUME Bindings, UNCHANGED vars
               PROVE  Bindings'
    OBVIOUS
  <2>1. UNCHANGED <<clusterVars, storeVars, watchVars, apiVars, podFeed, nodeFeed, startVars, nodeCall>>
    BY DEF vars, clusterVars, watchVars
  <2>2. OrderInv'
    BY OrderInvInductive DEF Bindings
  <2>3. (PodStory /\ SeedsLive /\ SeedsExact /\ HeadExact)'
    BY <2>1
       DEF clusterVars, storeVars, watchVars, apiVars, podFeed, startVars, Bindings, PodStory, SeedsLive,
           SeedsExact, HeadExact, Handled
  <2>4. (NodeStory /\ NodesOnce)'
    BY <2>1 DEF watchVars, apiVars, nodeFeed, startVars, Bindings, NodeStory, NodesOnce
  <2>5. BindInv'
    <3>1. UNCHANGED <<bound, used, pods, heap, call, registered, held, podSeen, nodeSeen, nodeQueue,
                      gone, listed>>
      BY <2>1 DEF clusterVars, storeVars, watchVars, apiVars, podFeed, nodeFeed
    <3> QED BY <3>1, BindKept DEF Bindings, NeverBack
  <2> QED BY <2>2, <2>3, <2>4, <2>5 DEF Bindings
<1> QED BY <1>1, <1>2, <1>3, PTL DEF Spec

(* What a node binds, once no call on the pod is in progress, is the       *)
(* object the store has, of a pod that runs on it, if no watch is lost, no *)
(* node name returns and nothing changes before the informers have listed: *)
(* however the two handlers and the seeding interleave, also when pods are *)
(* resized.  Nothing is said of pods that their node does not bind.        *)
THEOREM BindingsFollowStore == Steady /\ Spec => []BindingsMatchStore
<1> SUFFICES ASSUME Steady PROVE Spec => []BindingsMatchStore
  OBVIOUS
<1>1. Bindings => BindingsMatchStore
  <2> SUFFICES ASSUME Bindings, NEW k \in Key, NEW n \in Node, \A t \in Thread : call[t].key # k,
                      bound[n][k] # Nil
               PROVE  bound[n][k] = pods[k] /\ NodeName(k) = n
    BY DEF BindingsMatchStore
  <2>1. KeyOK(k)
    BY DEF Bindings, BindInv
  <2> QED BY <2>1 DEF KeyOK, BoundOK, SameObject, Rebinding
<1> QED BY <1>1, BindingsInductive, PTL

(* What a node counts as used is the sum of what the pods it binds         *)
(* request, at every moment, in the same environment without resizes: no   *)
(* order of binds and unbinds counts a pod twice or takes it off twice.    *)
THEOREM UsageFollowsBindings == Steady /\ ~CanResize /\ Spec => []UsedIsSumOfBound
<1> SUFFICES ASSUME Steady, ~CanResize PROVE Spec => []UsedIsSumOfBound
  OBVIOUS
<1>1. Bindings => UsedIsSumOfBound
  BY DEF Bindings, BindInv, KeyOK, UsedOK, UsedIsSumOfBound
<1> QED BY <1>1, BindingsInductive, PTL
=============================================================================
