-------------------------- MODULE MetricsPollerProofs --------------------------
(***************************************************************************)
(* Theorems about MetricsPoller, for any pods, nodes and bounds.           *)
(***************************************************************************)
EXTENDS MetricsPoller, TLAPS

(* While the map is locked, what was visited is clear; from then on until  *)
(* the tick, the answer in hand is the one that was applied last.          *)
Refreshing ==
  /\ poller.at = "clear" => \A k \in Stored \ poller.left : usage[pods[k]] = 0
  /\ poller.at = "clear" => poller.left \subseteq Stored
  /\ poller.at \in {"set", "write"} => applied = poller.n

MetricsInv == MetricsTypeOK /\ Refreshing /\ OneAnswerShown

Pollers == [at : {"list", "clear", "set", "write", "wait", "stopped"}, n : 0..MaxSamples,
            items : SUBSET Pod, left : SUBSET Pod, obj : PodObj \cup {Nil}]

-----------------------------------------------------------------------------

LEMMA InitMetricsInv == Init => MetricsInv
<1> SUFFICES ASSUME Init PROVE MetricsInv
  OBVIOUS
<1>1. At("list") \in Pollers
  BY BoundsAreCounts DEF At, Pollers
<1>2. pods \in [Pod -> PodObj \cup {Nil}] /\ usage \in [PodObj -> 0..MaxSamples]
  BY BoundsAreCounts DEF Init
<1>3. MetricsTypeOK
  <2>1. (poller.at = "write") <=> (poller.obj # Nil)
    BY DEF Init, At
  <2>2. poller \in Pollers
    BY <1>1 DEF Init
  <2>3. 0 \in 0..MaxChanges /\ 0 \in 0..MaxSamples /\ 1 \in 1..MaxSamples
    BY BoundsAreCounts
  <2> QED BY <1>2, <2>1, <2>2, <2>3 DEF Init, MetricsTypeOK, Pollers
<1>4. Refreshing /\ OneAnswerShown
  BY <1>2 DEF Init, Refreshing, OneAnswerShown, At, Stored
<1> QED BY <1>3, <1>4 DEF MetricsInv

(* An event that leaves the poller, the server and the messages alone, as  *)
(* the watches do.                                                         *)
Untouched == UNCHANGED <<serverVars, poller, messageVars, applied>>

LEMMA WatchStep ==
  ASSUME MetricsInv, Untouched, MapIsFree,
         pods' \in [Pod -> PodObj \cup {Nil}], usage' \in [PodObj -> 0..MaxSamples],
         delivered' \subseteq Pod, updating' = NoUpdate \/ updating' \in [key : Pod, obj : PodObj],
         changes' \in 0..MaxChanges, revived' \subseteq Stored',
         \A k \in Stored' \ revived' : usage'[pods'[k]] \in {0, applied}
  PROVE  MetricsInv'
<1>1. MetricsTypeOK'
  BY DEF MetricsInv, MetricsTypeOK, Untouched, serverVars, messageVars
<1>2. Refreshing'
  BY DEF MetricsInv, Refreshing, Untouched, MapIsFree
<1>3. OneAnswerShown'
  BY DEF OneAnswerShown, Untouched
<1> QED BY <1>1, <1>2, <1>3 DEF MetricsInv

LEMMA EventCounts ==
  ASSUME MetricsInv, Event
  PROVE  Untouched /\ MapIsFree /\ changes' \in 0..MaxChanges
BY BoundsAreCounts DEF Event, Untouched, MetricsInv, MetricsTypeOK

(* A new object shows no usage, and no other key has it. *)
LEMMA NewPodPut ==
  ASSUME MetricsInv, NEW k \in Pod, PutNewPod(k), Event, delivered' \subseteq Pod, UNCHANGED updating
  PROVE  MetricsInv'
<1> PICK o \in Fresh : /\ pods' = [pods EXCEPT ![k] = o]
                       /\ usage' = [usage EXCEPT ![o] = 0]
                       /\ revived' = revived \ {k}
  BY DEF PutNewPod
<1>1. o \in PodObj /\ o # Nil /\ \A j \in Pod : pods[j] # o
  BY NilIsNothing DEF Fresh, Range, MetricsInv, MetricsTypeOK
<1>2. /\ pods' \in [Pod -> PodObj \cup {Nil}] /\ usage' \in [PodObj -> 0..MaxSamples]
      /\ updating' = NoUpdate \/ updating' \in [key : Pod, obj : PodObj]
  BY <1>1, BoundsAreCounts DEF MetricsInv, MetricsTypeOK
<1>3. revived' \subseteq Stored'
  BY <1>1 DEF Stored, MetricsInv, MetricsTypeOK
<1>4. \A j \in Stored' \ revived' : usage'[pods'[j]] \in {0, applied}
  BY <1>1 DEF Stored, MetricsInv, MetricsTypeOK, OneAnswerShown
<1> QED BY <1>2, <1>3, <1>4, EventCounts, WatchStep

LEMMA WatchesInv ==
  ASSUME MetricsInv,
         \/ \E k \in Pod : PodAdded(k) \/ PodDeleted(k) \/ UnknownPodUpdated(k) \/ KnownPodUpdated(k)
         \/ PutPodAgain
         \/ \E g \in Range(NodeOf) : NodeLeaves(g)
  PROVE  MetricsInv'
<1> USE DEF MetricsInv, MetricsTypeOK
<1>1. ASSUME NEW k \in Pod, PodAdded(k) \/ UnknownPodUpdated(k)
      PROVE  MetricsInv'
  <2>1. PutNewPod(k) /\ Event /\ delivered' \subseteq Pod /\ UNCHANGED updating
    BY <1>1 DEF PodAdded, UnknownPodUpdated, PodEvent
  <2> QED BY <2>1, NewPodPut
<1>2. ASSUME NEW k \in Pod, PodDeleted(k)
      PROVE  MetricsInv'
  <2>1. /\ Event /\ pods' = [pods EXCEPT ![k] = Nil] /\ revived' = revived \ {k}
        /\ delivered' \subseteq Pod /\ UNCHANGED <<usage, updating>>
    BY <1>2 DEF PodDeleted, PodEvent
  <2>2. Stored' = Stored \ {k} /\ \A j \in Stored' : pods'[j] = pods[j]
    BY <2>1 DEF Stored
  <2> QED BY <2>1, <2>2, EventCounts, WatchStep DEF OneAnswerShown
<1>3. ASSUME NEW k \in Pod, KnownPodUpdated(k)
      PROVE  MetricsInv'
  <2>1. /\ Event /\ updating' \in [key : Pod, obj : PodObj]
        /\ UNCHANGED <<pods, usage, delivered, revived>>
    BY <1>3 DEF KnownPodUpdated, PodEvent
  <2> QED BY <2>1, EventCounts, WatchStep DEF OneAnswerShown, Stored
<1>4. CASE PutPodAgain
  <2> PICK k \in Pod, o \in PodObj : updating = [key |-> k, obj |-> o]
    BY <1>4 DEF PutPodAgain
  <2>1. /\ Untouched /\ MapIsFree /\ updating' = NoUpdate /\ pods' = [pods EXCEPT ![k] = o]
        /\ revived' = revived \cup (IF pods[k] = o THEN {} ELSE {k})
        /\ UNCHANGED <<usage, delivered, changes>>
    BY <1>4 DEF PutPodAgain, Untouched
  <2>2. Stored' = Stored \cup {k} /\ \A j \in Stored' \ revived' : pods'[j] = pods[j] /\ j \in Stored
    BY <2>1, NilIsNothing DEF Stored
  <2> QED BY <2>1, <2>2, WatchStep DEF OneAnswerShown
<1>5. ASSUME NEW g, NodeLeaves(g)
      PROVE  MetricsInv'
  <2>1. /\ Event /\ UNCHANGED <<usage, delivered, updating>>
        /\ pods' = [k \in Pod |-> IF NodeOf[k] = g THEN Nil ELSE pods[k]]
        /\ revived' = {k \in revived : NodeOf[k] # g}
    BY <1>5 DEF NodeLeaves
  <2>2. Stored' = {k \in Stored : NodeOf[k] # g} /\ \A j \in Stored' : pods'[j] = pods[j]
    BY <2>1 DEF Stored
  <2> QED BY <2>1, <2>2, EventCounts, WatchStep DEF OneAnswerShown
<1> QED BY <1>1, <1>2, <1>3, <1>4, <1>5

(* A step of the poller's goroutine leaves the map as it is. *)
LEMMA PollStep ==
  ASSUME MetricsInv, Poll, UNCHANGED pods,
         poller' \in Pollers, (poller'.at = "write") <=> (poller'.obj # Nil),
         usage' \in [PodObj -> 0..MaxSamples], applied' \in 0..MaxSamples,
         warned' \in BOOLEAN, said' \in {Nil, "unavailable", "reconnected", "forbidden"},
         revived' \subseteq Stored, Refreshing', OneAnswerShown'
  PROVE  MetricsInv'
<1>1. Stored' = Stored
  BY DEF Stored
<1> QED BY <1>1 DEF MetricsInv, MetricsTypeOK, Pollers, Poll, watchVars, serverVars

LEMMA ListInv ==
  ASSUME MetricsInv, ListOk \/ ListFails \/ ListForbidden \/ Refreshed \/ Tick
  PROVE  MetricsInv'
<1>1. Poll /\ UNCHANGED <<pods, usage, applied, revived>>
  BY DEF ListOk, ListFails, ListForbidden, Refreshed, Tick
<1>2. warned' \in BOOLEAN /\ said' \in {Nil, "unavailable", "reconnected", "forbidden"}
  BY DEF ListOk, ListFails, ListForbidden, Refreshed, Tick, messageVars, MetricsInv, MetricsTypeOK
<1>3. \/ poller' \in {At("list"), At("wait"), At("stopped")}
      \/ poller' = [at |-> "clear", n |-> sample, items |-> measured, left |-> Stored, obj |-> Nil]
  BY DEF ListOk, ListFails, ListForbidden, Refreshed, Tick, At
<1>4. /\ poller' \in Pollers
      /\ (poller'.at = "write") <=> (poller'.obj # Nil)
  <2>1. sample \in 0..MaxSamples /\ 0 \in 0..MaxSamples
    BY BoundsAreCounts DEF MetricsInv, MetricsTypeOK
  <2>2. poller' \in Pollers
    BY <1>3, <2>1 DEF At, Pollers, MetricsInv, MetricsTypeOK, Stored
  <2>3. poller'.at # "write" /\ poller'.obj = Nil
    BY <1>3 DEF At
  <2> QED BY <2>2, <2>3
<1>5. Refreshing'
  BY <1>1, <1>3 DEF Refreshing, At, Stored
<1>6. OneAnswerShown'
  BY <1>1 DEF OneAnswerShown, Stored, MetricsInv
<1>7. /\ usage' \in [PodObj -> 0..MaxSamples] /\ applied' \in 0..MaxSamples
      /\ revived' \subseteq Stored
  BY <1>1 DEF MetricsInv, MetricsTypeOK
<1> QED BY <1>1, <1>2, <1>4, <1>5, <1>6, <1>7, PollStep

LEMMA ClearInv ==
  ASSUME MetricsInv, ClearStep \/ AllCleared
  PROVE  MetricsInv'
<1>1. Poll /\ UNCHANGED <<pods, warned, said>> /\ poller.at = "clear" /\ poller.obj = Nil
  BY DEF ClearStep, ClearPod, AllCleared, messageVars, MetricsInv, MetricsTypeOK
<1>2. warned' \in BOOLEAN /\ said' \in {Nil, "unavailable", "reconnected", "forbidden"}
  BY <1>1 DEF MetricsInv, MetricsTypeOK
<1>3. ASSUME NEW k \in Pod, ClearPod(k)
      PROVE  MetricsInv'
  <2>1. /\ usage' = [usage EXCEPT ![pods[k]] = 0] /\ UNCHANGED <<applied, revived>>
        /\ poller' = [poller EXCEPT !.left = poller.left \ {k}]
    BY <1>3 DEF ClearPod
  <2>2. k \in Stored /\ pods[k] \in PodObj
    BY <1>3 DEF ClearPod, Stored, MetricsInv, MetricsTypeOK, Refreshing
  <2>3. usage' \in [PodObj -> 0..MaxSamples] /\ applied' \in 0..MaxSamples /\ revived' \subseteq Stored
    BY <2>1, <2>2, BoundsAreCounts DEF MetricsInv, MetricsTypeOK
  <2>4. \A j \in Stored : /\ pods[j] \in PodObj
                          /\ usage'[pods[j]] = IF pods[j] = pods[k] THEN 0 ELSE usage[pods[j]]
    BY <2>1, <2>2 DEF Stored, MetricsInv, MetricsTypeOK
  <2>5. poller \in Pollers
    BY DEF MetricsInv, MetricsTypeOK, Pollers
  <2>6. /\ poller' \in Pollers /\ poller'.at = "clear" /\ poller'.obj = Nil
        /\ poller'.left = poller.left \ {k}
    BY <1>1, <2>1, <2>5 DEF Pollers
  <2>7. Stored' = Stored
    BY <1>1 DEF Stored
  <2>8. Refreshing'
    BY <1>1, <2>4, <2>6, <2>7 DEF Refreshing, MetricsInv
  <2>9. OneAnswerShown'
    BY <1>1, <2>1, <2>4, <2>7 DEF OneAnswerShown, MetricsInv
  <2> QED BY <1>1, <1>2, <2>3, <2>6, <2>8, <2>9, PollStep
<1>4. CASE AllCleared
  <2>1. /\ applied' = poller.n /\ revived' = {} /\ UNCHANGED usage /\ poller.left = {}
        /\ poller' = [poller EXCEPT !.at = "set", !.left = poller.items]
    BY <1>4 DEF AllCleared
  <2>2. poller \in Pollers
    BY DEF MetricsInv, MetricsTypeOK, Pollers
  <2>3. /\ poller' \in Pollers /\ poller'.at = "set" /\ poller'.obj = Nil /\ poller'.n = poller.n
        /\ applied' \in 0..MaxSamples
    BY <1>1, <2>1, <2>2 DEF Pollers
  <2>4. Stored' = Stored /\ \A j \in Stored : usage[pods[j]] = 0
    BY <1>1, <2>1 DEF Stored, MetricsInv, Refreshing
  <2>5. Refreshing' /\ OneAnswerShown'
    BY <1>1, <2>1, <2>3, <2>4 DEF Refreshing, OneAnswerShown
  <2>6. usage' \in [PodObj -> 0..MaxSamples] /\ revived' \subseteq Stored
    BY <2>1 DEF MetricsInv, MetricsTypeOK
  <2> QED BY <1>1, <1>2, <2>3, <2>5, <2>6, PollStep
<1> QED BY <1>3, <1>4 DEF ClearStep

LEMMA SetInv ==
  ASSUME MetricsInv, FindStep \/ SetUsage
  PROVE  MetricsInv'
<1>1. Poll /\ UNCHANGED <<pods, warned, said, applied, revived>> /\ poller \in Pollers
  BY DEF FindStep, FindPod, SetUsage, messageVars, MetricsInv, MetricsTypeOK, Pollers
<1>2. /\ warned' \in BOOLEAN /\ said' \in {Nil, "unavailable", "reconnected", "forbidden"}
      /\ applied' \in 0..MaxSamples /\ revived' \subseteq Stored
  BY <1>1 DEF MetricsInv, MetricsTypeOK
<1>3. Stored' = Stored
  BY <1>1 DEF Stored
<1>4. applied = poller.n
  BY DEF FindStep, FindPod, SetUsage, MetricsInv, Refreshing
<1>5. ASSUME NEW k \in Pod, FindPod(k)
      PROVE  MetricsInv'
  <2>1. UNCHANGED usage /\ usage' \in [PodObj -> 0..MaxSamples]
    BY <1>5 DEF FindPod, MetricsInv, MetricsTypeOK
  <2>2. /\ poller' \in Pollers /\ poller'.n = poller.n
        /\ \/ poller'.at = "set" /\ poller'.obj = Nil
           \/ poller'.at = "write" /\ poller'.obj # Nil
    BY <1>1, <1>5 DEF FindPod, Pollers, MetricsInv, MetricsTypeOK
  <2>3. Refreshing' /\ OneAnswerShown'
    BY <1>1, <1>3, <1>4, <2>1, <2>2 DEF Refreshing, OneAnswerShown, MetricsInv
  <2> QED BY <1>1, <1>2, <2>1, <2>2, <2>3, PollStep
<1>6. CASE SetUsage
  <2>1. /\ usage' = [usage EXCEPT ![poller.obj] = poller.n] /\ poller.obj \in PodObj
        /\ poller' = [poller EXCEPT !.at = "set", !.obj = Nil]
    BY <1>1, <1>6 DEF SetUsage, MetricsInv, MetricsTypeOK
  <2>2. poller' \in Pollers /\ poller'.at = "set" /\ poller'.obj = Nil /\ poller'.n = poller.n
    BY <1>1, <2>1 DEF Pollers
  <2>3. /\ usage' \in [PodObj -> 0..MaxSamples]
        /\ \A k \in Stored : usage'[pods[k]] \in {usage[pods[k]], applied}
    BY <1>1, <1>4, <2>1 DEF Stored, MetricsInv, MetricsTypeOK, Pollers
  <2>4. Refreshing' /\ OneAnswerShown'
    BY <1>1, <1>3, <1>4, <2>2, <2>3 DEF Refreshing, OneAnswerShown, MetricsInv
  <2> QED BY <1>1, <1>2, <2>2, <2>3, <2>4, PollStep
<1> QED BY <1>5, <1>6 DEF FindStep

LEMMA NextMetricsInv == MetricsInv /\ [Next]_vars => MetricsInv'
<1>1. ASSUME MetricsInv, NEW ks \in SUBSET Pod, Scrape(ks)
      PROVE  MetricsInv'
  <2>1. sample' \in 1..MaxSamples /\ measured' \subseteq Pod
    BY <1>1, BoundsAreCounts DEF Scrape, MetricsInv, MetricsTypeOK
  <2> QED BY <1>1, <2>1
          DEF Scrape, MetricsInv, MetricsTypeOK, Refreshing, OneAnswerShown, Stored, watchVars, messageVars
<1>2. ASSUME MetricsInv, UNCHANGED vars
      PROVE  MetricsInv'
  BY <1>2 DEF vars, MetricsInv, MetricsTypeOK, Refreshing, OneAnswerShown, Stored, watchVars,
              serverVars, messageVars
<1>3. ASSUME MetricsInv, Next
      PROVE  MetricsInv'
  BY <1>1, <1>3, WatchesInv, ListInv, ClearInv, SetInv DEF Next, PollerWorks
<1> QED BY <1>2, <1>3

LEMMA MetricsInvHolds == Spec => []MetricsInv
BY InitMetricsInv, NextMetricsInv, PTL DEF Spec

-----------------------------------------------------------------------------

(* Every variable of the poller keeps its type. *)
THEOREM MetricsTypeCorrect == Spec => []MetricsTypeOK
<1>1. MetricsInv => MetricsTypeOK
  BY DEF MetricsInv
<1> QED BY <1>1, MetricsInvHolds, PTL

(* Usage of two answers is never on the screen at once, whatever the       *)
(* watches do to the map between the poller's steps, except for a pod that *)
(* an update brought back.                                                 *)
THEOREM UsageIsOfOneAnswer == Spec => []OneAnswerShown
<1>1. MetricsInv => OneAnswerShown
  BY DEF MetricsInv
<1> QED BY <1>1, MetricsInvHolds, PTL
=============================================================================
