---------------------------- MODULE MetricsPoller ----------------------------
(***************************************************************************)
(* The poller of pod usage (startPodMetricsPoller and refreshPodMetrics of *)
(* pkg/client/pods_controller.go) beside the pod and node watches that     *)
(* change the same map of pods.                                            *)
(*                                                                         *)
(* The usage of a pod is kept in its Pod object: the poller clears all the *)
(* objects it finds in the map and then sets those the answer names, while *)
(* the watches put in, take out and put back objects.  A usage is the      *)
(* number of the sample it comes from; nodes, bindings and the content of  *)
(* pods are in the modules Cluster and PodsController.                     *)
(***************************************************************************)
EXTENDS Integers, FiniteSets, Functions

CONSTANTS
  Pod,         \* objectKey's
  NodeOf,      \* the node each pod is on
  MaxObj,      \* bound: Pod objects alive at once
  MaxChanges,  \* bound: events of the watches
  MaxSamples,  \* bound: samples of the metrics server
  Nil

PodObj == 1..MaxObj

ASSUME BoundsAreCounts == MaxObj \in Nat /\ MaxChanges \in Nat /\ MaxSamples \in Nat \ {0}
ASSUME NilIsNothing == Nil \notin Pod /\ Nil \notin PodObj
ASSUME NodesOfPods == NodeOf = [k \in Pod |-> NodeOf[k]]

VARIABLES
  pods,      \* Cluster.pods: the object of each key, Nil when there is none
  usage,     \* Pod.usage: 0 when cleared, else the sample it shows
  delivered, \* the keys the pod informer knows
  updating,  \* the pod update handler between GetPod and AddPod
  changes,   \* events so far
  sample,    \* the metrics server: its latest sample
  measured,  \* ... and the pods it has measured
  poller,    \* the goroutine of the poller
  warned,    \* its local variable
  said,      \* its last message
  applied,   \* history: the answer that last replaced the usage
  revived    \* history: pods put back since with an object that was out of the map

watchVars == <<delivered, updating, changes>>
serverVars == <<sample, measured>>
messageVars == <<warned, said>>
vars == <<pods, usage, watchVars, serverVars, poller, messageVars, applied, revived>>

NoUpdate == [key |-> Nil, obj |-> Nil]
At(place) == [at |-> place, n |-> 0, items |-> {}, left |-> {}, obj |-> Nil]

Stored == {k \in Pod : pods[k] # Nil}
Fresh == PodObj \ (Range(pods) \cup {updating.obj, poller.obj})

Init ==
  /\ pods \in {f \in [Pod -> PodObj \cup {Nil}] :
                 Range(f) \ {Nil} = 1..Cardinality({k \in Pod : f[k] # Nil})}
  /\ usage = [o \in PodObj |-> 0]
  /\ delivered = {}
  /\ updating = NoUpdate
  /\ changes = 0
  /\ sample = 1
  /\ measured \in SUBSET Pod
  /\ poller = At("list")
  /\ warned = FALSE
  /\ said = Nil
  /\ applied = 0
  /\ revived = {}

-----------------------------------------------------------------------------
(* The watches.  ForEachPod holds the lock of the map while it clears, and *)
(* AddPod, GetPod, DeletePod and DeleteNode all want it for themselves.    *)

MapIsFree == poller.at # "clear"

Event ==
  /\ MapIsFree
  /\ changes < MaxChanges
  /\ changes' = changes + 1
  /\ UNCHANGED <<serverVars, poller, messageVars, applied>>

PodEvent == Event /\ updating = NoUpdate

(* AddPod(NewPod(p)) *)
PutNewPod(k) ==
  \E o \in Fresh :
    /\ \A q \in Fresh : o <= q
    /\ pods' = [pods EXCEPT ![k] = o]
    /\ usage' = [usage EXCEPT ![o] = 0]
    /\ revived' = revived \ {k}

(* AddFunc, also for a key that seedPods has put in. *)
PodAdded(k) ==
  /\ k \notin delivered
  /\ PodEvent
  /\ PutNewPod(k)
  /\ delivered' = delivered \cup {k}
  /\ UNCHANGED updating

(* DeleteFunc, and UpdateFunc for a pod that has ended. *)
PodDeleted(k) ==
  /\ k \in delivered
  /\ PodEvent
  /\ pods' = [pods EXCEPT ![k] = Nil]
  /\ revived' = revived \ {k}
  /\ delivered' \in {delivered, delivered \ {k}}
  /\ UNCHANGED <<usage, updating>>

(* UpdateFunc: an unknown pod is added, *)
UnknownPodUpdated(k) ==
  /\ k \in delivered /\ pods[k] = Nil
  /\ PodEvent
  /\ PutNewPod(k)
  /\ UNCHANGED <<delivered, updating>>

(* a known one is found, *)
KnownPodUpdated(k) ==
  /\ k \in delivered /\ pods[k] # Nil
  /\ PodEvent
  /\ updating' = [key |-> k, obj |-> pods[k]]
  /\ UNCHANGED <<pods, usage, delivered, revived>>

(* changed in place and put into the map again, whatever has become of the *)
(* map since.                                                              *)
PutPodAgain ==
  /\ updating # NoUpdate
  /\ MapIsFree
  /\ pods' = [pods EXCEPT ![updating.key] = updating.obj]
  /\ revived' = revived \cup IF pods[updating.key] = updating.obj THEN {} ELSE {updating.key}
  /\ updating' = NoUpdate
  /\ UNCHANGED <<usage, delivered, changes, serverVars, poller, messageVars, applied>>

(* The node watch: DeleteNode takes the pods of the node with it. *)
NodeLeaves(g) ==
  /\ Event
  /\ pods' = [k \in Pod |-> IF NodeOf[k] = g THEN Nil ELSE pods[k]]
  /\ revived' = {k \in revived : NodeOf[k] # g}
  /\ UNCHANGED <<usage, delivered, updating>>

-----------------------------------------------------------------------------
(* The metrics server *)

Scrape(ks) ==
  /\ sample < MaxSamples
  /\ sample' = sample + 1
  /\ measured' = ks
  /\ UNCHANGED <<pods, usage, watchVars, poller, messageVars, applied, revived>>

-----------------------------------------------------------------------------
(* The poller: list the usage of all pods, clear it in every pod of the    *)
(* map, set it where the answer has it, wait for the tick.                 *)

Poll == UNCHANGED <<watchVars, serverVars>>

ListOk ==
  /\ poller.at = "list"
  /\ poller' = [At("clear") EXCEPT !.n = sample, !.items = measured, !.left = Stored]
  /\ Poll
  /\ UNCHANGED <<pods, usage, messageVars, applied, revived>>

(* Any other error than "forbidden": said once, and tried again.           *)
ListFails ==
  /\ poller.at = "list"
  /\ poller' = At("wait")
  /\ said' = IF warned THEN said ELSE "unavailable"
  /\ warned' = TRUE
  /\ Poll
  /\ UNCHANGED <<pods, usage, applied, revived>>

ListForbidden ==
  /\ poller.at = "list"
  /\ poller' = At("stopped")
  /\ said' = "forbidden"
  /\ Poll
  /\ UNCHANGED <<pods, usage, warned, applied, revived>>

(* Mutant: only the pods that will be set anew are cleared. *)
ClearMeasuredPod(k) ==
  /\ poller.at = "clear" /\ k \in poller.left
  /\ usage' = IF k \in poller.items THEN [usage EXCEPT ![pods[k]] = 0] ELSE usage
  /\ poller' = [poller EXCEPT !.left = @ \ {k}]
  /\ Poll
  /\ UNCHANGED <<pods, messageVars, applied, revived>>

ClearPod(k) ==
  /\ poller.at = "clear" /\ k \in poller.left
  /\ usage' = [usage EXCEPT ![pods[k]] = 0]
  /\ poller' = [poller EXCEPT !.left = @ \ {k}]
  /\ Poll
  /\ UNCHANGED <<pods, messageVars, applied, revived>>

AllCleared ==
  /\ poller.at = "clear" /\ poller.left = {}
  /\ poller' = [poller EXCEPT !.at = "set", !.left = poller.items]
  /\ applied' = poller.n
  /\ revived' = {}
  /\ Poll
  /\ UNCHANGED <<pods, usage, messageVars>>

(* Mutant: the pod that was found is used though there is none. *)
FindPodUnchecked(k) ==
  /\ poller.at = "set" /\ k \in poller.left
  /\ poller' = [poller EXCEPT !.left = @ \ {k}, !.at = "write", !.obj = pods[k]]
  /\ Poll
  /\ UNCHANGED <<pods, usage, messageVars, applied, revived>>

(* Mutant: an unknown pod ends the refresh. *)
FindPodOrGiveUp(k) ==
  /\ poller.at = "set" /\ k \in poller.left
  /\ poller' = IF pods[k] = Nil
                 THEN [poller EXCEPT !.left = {}]
                 ELSE [poller EXCEPT !.left = @ \ {k}, !.at = "write", !.obj = pods[k]]
  /\ Poll
  /\ UNCHANGED <<pods, usage, messageVars, applied, revived>>

(* GetPod *)
FindPod(k) ==
  /\ poller.at = "set" /\ k \in poller.left
  /\ poller' = IF pods[k] = Nil
                 THEN [poller EXCEPT !.left = @ \ {k}]
                 ELSE [poller EXCEPT !.left = @ \ {k}, !.at = "write", !.obj = pods[k]]
  /\ Poll
  /\ UNCHANGED <<pods, usage, messageVars, applied, revived>>

(* SetUsage of the pod that was found. *)
SetUsage ==
  /\ poller.at = "write"
  /\ usage' = [usage EXCEPT ![poller.obj] = poller.n]
  /\ poller' = [poller EXCEPT !.at = "set", !.obj = Nil]
  /\ Poll
  /\ UNCHANGED <<pods, messageVars, applied, revived>>

(* Mutant: a recovery is not told, and so neither is the next outage. *)
RefreshedInSilence ==
  /\ poller.at = "set" /\ poller.left = {}
  /\ poller' = At("wait")
  /\ Poll
  /\ UNCHANGED <<pods, usage, messageVars, applied, revived>>

Refreshed ==
  /\ poller.at = "set" /\ poller.left = {}
  /\ poller' = At("wait")
  /\ said' = IF warned THEN "reconnected" ELSE said
  /\ warned' = FALSE
  /\ Poll
  /\ UNCHANGED <<pods, usage, applied, revived>>

Tick ==
  /\ poller.at = "wait"
  /\ poller' = At("list")
  /\ Poll
  /\ UNCHANGED <<pods, usage, messageVars, applied, revived>>

-----------------------------------------------------------------------------

ClearStep == \E k \in Pod : ClearPod(k)
FindStep == \E k \in Pod : FindPod(k)
PollerWorks == ClearStep \/ AllCleared \/ FindStep \/ SetUsage \/ Refreshed \/ Tick

Next ==
  \/ \E k \in Pod : PodAdded(k) \/ PodDeleted(k) \/ UnknownPodUpdated(k) \/ KnownPodUpdated(k)
  \/ PutPodAgain
  \/ \E g \in Range(NodeOf) : NodeLeaves(g)
  \/ \E ks \in SUBSET Pod : Scrape(ks)
  \/ ListOk \/ ListFails \/ ListForbidden
  \/ PollerWorks

Spec == Init /\ [][Next]_vars

(* The goroutines run on, and a metrics server that is asked again and     *)
(* again answers again and again; it may always forbid instead.            *)
FairSpec ==
  /\ Spec
  /\ WF_vars(PollerWorks)
  /\ WF_vars(PutPodAgain)
  /\ WF_vars(ListOk \/ ListFails \/ ListForbidden)
  /\ SF_vars(ListOk)

-----------------------------------------------------------------------------
(* Properties *)

(* Every variable keeps the type its declaration says. *)
MetricsTypeOK ==
  /\ pods \in [Pod -> PodObj \cup {Nil}]
  /\ usage \in [PodObj -> 0..MaxSamples]
  /\ delivered \subseteq Pod
  /\ \/ updating = NoUpdate
     \/ updating \in [key : Pod, obj : PodObj]
  /\ changes \in 0..MaxChanges
  /\ sample \in 1..MaxSamples /\ measured \subseteq Pod
  /\ poller \in [at : {"list", "clear", "set", "write", "wait", "stopped"}, n : 0..MaxSamples,
                 items : SUBSET Pod, left : SUBSET Pod, obj : PodObj \cup {Nil}]
  /\ (poller.at = "write") <=> (poller.obj # Nil)
  /\ warned \in BOOLEAN
  /\ said \in {Nil, "unavailable", "reconnected", "forbidden"}
  /\ applied \in 0..MaxSamples
  /\ revived \subseteq Stored

(* All the usage in the store comes from one answer, the one that was      *)
(* applied last, whatever the watches do between the poller's GetPod and   *)
(* SetUsage: no bar is older than another one.  Only a pod that DeleteNode *)
(* took out and an update in progress put back may still have an older     *)
(* usage, until the next answer.                                           *)
OneAnswerShown ==
  \A k \in Stored : k \notin revived => usage[pods[k]] \in {0, applied}

(* A pod that stays in the store and is measured again and again shows the *)
(* latest sample, and shows it again after every refresh that cleared it,  *)
(* through failed lists and objects that AddPod replaced, as long as the   *)
(* lists are not forbidden.                                                *)
MeasuredPodsShowUsage ==
  \A k \in Pod :
    <>[](pods[k] # Nil /\ k \in measured /\ poller.at # "stopped")
      => []<>(pods[k] # Nil /\ usage[pods[k]] = sample)

(* "Retrying" is not the last word: the message that says the metrics are  *)
(* unavailable is followed by another one, once the server answers.        *)
OutagesEnd == said = "unavailable" ~> said # "unavailable"
=============================================================================
