----------------------------- MODULE PriceCache -----------------------------
(***************************************************************************)
(* The AWS price provider (pkg/pricing/awsprice/awsprice.go) under the     *)
(* cost tile (pkg/model/cost.go).  Three processes share it: the View,     *)
(* which asks the price of every visible node and never waits; the         *)
(* background loop, which fetches what was asked and what is stale; and    *)
(* time.  Each critical section of Provider.mu is a step.                  *)
(***************************************************************************)
EXTENDS Naturals, FiniteSets

CONSTANTS
  NodeSpec,     \* the priceable shapes of nodes, as cacheSpec keeps them
  Spot,         \* those on spot capacity
  OnDemandKey,  \* region, OS and instance type of a shape
  SpotKey,      \* zone and instance type of a shape
  Region,       \* EffectiveRegion of a shape
  InstanceType,
  Offered,      \* on-demand keys with a price in the Pricing API
  Sampled,      \* spot keys with a recent price in the EC2 history
  OnDemandTTL,  \* both in ticks of the clock
  SpotTTL,
  Unknown

ASSUME SpotAreSpecs == Spot \subseteq NodeSpec
ASSUME ShapesHaveAll ==
  \A f \in {OnDemandKey, SpotKey, Region, InstanceType} : DOMAIN f = NodeSpec
ASSUME TTLsArePositive == OnDemandTTL \in Nat \ {0} /\ SpotTTL \in Nat \ {0}
ASSUME UnknownIsNoAge == Unknown \notin Nat

VARIABLES
  onDemand,    \* the age of each price in the cache, up to its TTL, or Unknown
  spot,
  pending, tracked,
  wake,        \* the channel of one signal
  priced,
  unavailable, \* whether there is a reason why pricing does not work
  nodes,       \* the shapes of the visible nodes
  asking,      \* HourlyPrice after its lookup failed
  loop         \* run and refresh

caches == <<onDemand, spot>>
view == <<nodes, asking>>
vars == <<caches, pending, tracked, wake, priced, unavailable, view, loop>>

OnDemandKeys == {OnDemandKey[s] : s \in NodeSpec}
SpotKeys == {SpotKey[s] : s \in Spot}
NotAsking == [at |-> "idle", spec |-> Unknown]
At(step) == [at |-> step, onDemandWanted |-> {}, spotWanted |-> {}, samples |-> {}]

-----------------------------------------------------------------------------
(* The View *)

(* lookupLocked: the spot price, else the on-demand price. *)
Lookup(s) ==
  IF s \in Spot /\ spot[SpotKey[s]] # Unknown THEN "spot"
  ELSE IF onDemand[OnDemandKey[s]] # Unknown THEN "on-demand"
  ELSE "none"

(* HourlyPrice, for one of clusterCost's nodes: the lookup, the queue and  *)
(* the signal are three steps.                                             *)
HourlyPrice(s) ==
  /\ s \in nodes /\ asking = NotAsking
  /\ asking' = IF Lookup(s) = "none" THEN [at |-> "queue", spec |-> s] ELSE NotAsking
  /\ UNCHANGED <<caches, pending, tracked, wake, priced, unavailable, nodes, loop>>

(* Mutant: the loop is woken only for the first of a queue. *)
QueueSpecNotifiesFirst ==
  /\ asking.at = "queue"
  /\ pending' = pending \cup {asking.spec}
  /\ asking' = IF asking.spec \in tracked \/ pending # {}
                 THEN NotAsking ELSE [asking EXCEPT !.at = "notify"]
  /\ UNCHANGED <<caches, tracked, wake, priced, unavailable, nodes, loop>>

(* Mutant: the queue takes the shape as it comes, not as cacheSpec keeps it. *)
QueueSpecRaw ==
  /\ asking.at = "queue"
  /\ pending' = pending \cup {[raw |-> asking.spec]}
  /\ asking' = IF asking.spec \in tracked
                 THEN NotAsking ELSE [asking EXCEPT !.at = "notify"]
  /\ UNCHANGED <<caches, tracked, wake, priced, unavailable, nodes, loop>>

QueueSpec ==
  /\ asking.at = "queue"
  /\ pending' = pending \cup {asking.spec}
  /\ asking' = IF asking.spec \in pending \cup tracked
                 THEN NotAsking ELSE [asking EXCEPT !.at = "notify"]
  /\ UNCHANGED <<caches, tracked, wake, priced, unavailable, nodes, loop>>

Notify ==
  /\ asking.at = "notify"
  /\ wake' = TRUE
  /\ asking' = NotAsking
  /\ UNCHANGED <<caches, pending, tracked, priced, unavailable, nodes, loop>>

-----------------------------------------------------------------------------
(* The background loop *)

Age(s) == IF s \in Spot THEN spot[SpotKey[s]] ELSE onDemand[OnDemandKey[s]]
TTL(s) == IF s \in Spot THEN SpotTTL ELSE OnDemandTTL
IsStale(s) == Age(s) \in {Unknown, TTL(s)}

(* Mutant: a stale price leaves the cache when it is due. *)
DueSpecsDropStale ==
  /\ loop.at = "due"
  /\ LET due == pending \cup {s \in tracked : IsStale(s)}
     IN  /\ loop' = IF due = {} THEN At("sleep")
                    ELSE [At("fetch") EXCEPT !.onDemandWanted = {OnDemandKey[s] : s \in due},
                                             !.spotWanted = due \cap Spot]
         /\ spot' = [key \in SpotKeys |->
                       IF key \in {SpotKey[s] : s \in due} THEN Unknown ELSE spot[key]]
  /\ tracked' = tracked \cup pending
  /\ pending' = {}
  /\ UNCHANGED <<onDemand, wake, priced, unavailable, view>>

(* Mutant: only what was asked since is fetched. *)
DueSpecsNotStale ==
  /\ loop.at = "due"
  /\ loop' = IF pending = {} THEN At("sleep")
             ELSE [At("fetch") EXCEPT !.onDemandWanted = {OnDemandKey[s] : s \in pending},
                                      !.spotWanted = pending \cap Spot]
  /\ tracked' = tracked \cup pending
  /\ pending' = {}
  /\ UNCHANGED <<caches, wake, priced, unavailable, view>>

(* dueSpecs, and what refresh sorts them into. *)
DueSpecs ==
  /\ loop.at = "due"
  /\ LET due == pending \cup {s \in tracked : IsStale(s)}
     IN  loop' = IF due = {} THEN At("sleep")
                 ELSE [At("fetch") EXCEPT !.onDemandWanted = {OnDemandKey[s] : s \in due},
                                          !.spotWanted = due \cap Spot]
  /\ tracked' = tracked \cup pending
  /\ pending' = {}
  /\ UNCHANGED <<caches, wake, priced, unavailable, view>>

(* store *)
Priced ==
  /\ priced' = TRUE
  /\ unavailable' = FALSE

(* recordFailure *)
RecordFailure ==
  /\ unavailable' = TRUE
  /\ UNCHANGED <<caches, priced>>

LoopOnly == UNCHANGED <<pending, tracked, wake, view>>

(* fetchOnDemand: no price at all is no failure. *)
FetchOnDemand(key) ==
  /\ key \in loop.onDemandWanted
  /\ loop' = [loop EXCEPT !.onDemandWanted = @ \ {key}]
  /\ IF key \in Offered
       THEN onDemand' = [onDemand EXCEPT ![key] = 0] /\ Priced
       ELSE UNCHANGED <<onDemand, priced, unavailable>>
  /\ UNCHANGED spot
  /\ LoopOnly

FetchOnDemandFails(key) ==
  /\ key \in loop.onDemandWanted
  /\ loop' = [loop EXCEPT !.onDemandWanted = @ \ {key}]
  /\ RecordFailure
  /\ LoopOnly

InRegion(specs, region) == {s \in specs : Region[s] = region}

FetchingSpot(region) ==
  /\ loop.onDemandWanted = {} /\ loop.samples = {}
  /\ InRegion(loop.spotWanted, region) # {}
  /\ LoopOnly

(* fetchSpot: one call answers for the instance types of the region's due  *)
(* specs, in every zone.                                                   *)
FetchSpot(region) ==
  /\ FetchingSpot(region)
  /\ LET types == {InstanceType[s] : s \in InRegion(loop.spotWanted, region)}
         listed == {s \in InRegion(Spot, region) : InstanceType[s] \in types}
     IN  loop' = [loop EXCEPT !.spotWanted = {s \in @ : Region[s] # region},
                              !.samples = {SpotKey[s] : s \in listed} \cap Sampled]
  /\ UNCHANGED <<caches, priced, unavailable>>

FetchSpotFails(region) ==
  /\ FetchingSpot(region)
  /\ loop' = [loop EXCEPT !.spotWanted = {s \in @ : Region[s] # region}]
  /\ RecordFailure

(* Mutant: a spot price alone does not clear the reason. *)
StoreSpotQuietly(key) ==
  /\ key \in loop.samples
  /\ loop' = [loop EXCEPT !.samples = @ \ {key}]
  /\ spot' = [spot EXCEPT ![key] = 0]
  /\ UNCHANGED <<onDemand, priced, unavailable>>
  /\ LoopOnly

StoreSpot(key) ==
  /\ key \in loop.samples
  /\ loop' = [loop EXCEPT !.samples = @ \ {key}]
  /\ spot' = [spot EXCEPT ![key] = 0]
  /\ Priced
  /\ UNCHANGED onDemand
  /\ LoopOnly

RefreshDone ==
  /\ loop = At("fetch")
  /\ loop' = At("sleep")
  /\ UNCHANGED <<caches, pending, tracked, wake, priced, unavailable, view>>

(* run: the signal or the ticker ends the sleep. *)
Woken ==
  /\ loop.at = "sleep" /\ wake
  /\ wake' = FALSE
  /\ loop' = At("due")
  /\ UNCHANGED <<caches, pending, tracked, priced, unavailable, view>>

(* Mutant: the loop waits for a signal however long. *)
FetchIntervalNever ==
  /\ loop.at = "sleep" /\ wake
  /\ loop' = At("due")
  /\ UNCHANGED <<caches, pending, tracked, wake, priced, unavailable, view>>

FetchInterval ==
  /\ loop.at = "sleep"
  /\ loop' = At("due")
  /\ UNCHANGED <<caches, pending, tracked, wake, priced, unavailable, view>>

-----------------------------------------------------------------------------
(* Time and the cluster *)

Older(age, ttl) == IF age = Unknown \/ age = ttl THEN age ELSE age + 1

Tick ==
  /\ onDemand' = [key \in OnDemandKeys |-> Older(onDemand[key], OnDemandTTL)]
  /\ spot' = [key \in SpotKeys |-> Older(spot[key], SpotTTL)]
  /\ UNCHANGED <<pending, tracked, wake, priced, unavailable, view, loop>>

NodesChange(s) ==
  /\ nodes' = (nodes \ {s}) \cup ({s} \ nodes)
  /\ UNCHANGED <<caches, pending, tracked, wake, priced, unavailable, asking, loop>>

(* newProvider *)
Init ==
  /\ onDemand = [key \in OnDemandKeys |-> Unknown]
  /\ spot = [key \in SpotKeys |-> Unknown]
  /\ pending = {} /\ tracked = {}
  /\ wake = FALSE /\ priced = FALSE /\ unavailable = FALSE
  /\ nodes = {} /\ asking = NotAsking
  /\ loop = At("due")

ViewStep == (\E s \in NodeSpec : HourlyPrice(s)) \/ QueueSpec \/ Notify

Answers ==
  \/ \E key \in OnDemandKeys : FetchOnDemand(key) \/ FetchOnDemandFails(key)
  \/ \E s \in Spot : FetchSpot(Region[s]) \/ FetchSpotFails(Region[s])

LoopStep ==
  DueSpecs \/ Answers \/ (\E key \in SpotKeys : StoreSpot(key)) \/ RefreshDone \/ Woken \/ FetchInterval

Next == ViewStep \/ LoopStep \/ Tick \/ \E s \in NodeSpec : NodesChange(s)

Spec == Init /\ [][Next]_vars

(* The screen is painted again and again and asks for every node, the loop *)
(* runs, time passes, and an AWS call that is made again and again         *)
(* succeeds at last.                                                       *)
Fairness ==
  /\ WF_vars(ViewStep) /\ WF_vars(LoopStep) /\ WF_vars(Tick)
  /\ \A s \in NodeSpec : SF_vars(HourlyPrice(s))
  /\ \A key \in OnDemandKeys : SF_vars(FetchOnDemand(key))
  /\ \A s \in Spot : SF_vars(FetchSpot(Region[s]))

FairSpec == Spec /\ Fairness

-----------------------------------------------------------------------------
(* Correctness *)

Ages(ttl) == (0..ttl) \cup {Unknown}

(* Every variable has its type. *)
PriceTypeOK ==
  /\ onDemand \in [OnDemandKeys -> Ages(OnDemandTTL)]
  /\ spot \in [SpotKeys -> Ages(SpotTTL)]
  /\ pending \subseteq NodeSpec /\ tracked \subseteq NodeSpec
  /\ {wake, priced, unavailable} \subseteq BOOLEAN
  /\ nodes \subseteq NodeSpec
  /\ asking.at \in {"idle", "queue", "notify"} /\ asking.spec \in NodeSpec \cup {Unknown}
  /\ loop.at \in {"due", "fetch", "sleep"}

(* "Wake only for first sighting of a shape so cold-start prices arrive    *)
(* promptly": a new shape never waits in the queue for the ticker alone.   *)
NoLostWakeup ==
  pending \ tracked # {} => wake \/ asking.at = "notify" \/ loop.at = "due"

(* The provider implements the board: the shapes asked for are those that  *)
(* were queued, and the price of a shape is what lookupLocked finds.       *)
Board == INSTANCE PriceBoard
  WITH asked <- pending \cup tracked, board <- [s \in NodeSpec |-> Lookup(s)]

(* Queue, cached ages, sets of a refresh in progress and failed calls all  *)
(* implement the promise of PriceBoard: stale prices stay until new ones   *)
(* come, no failure drops one, no spot price gives way to the on-demand    *)
(* price, and a refresh asks AWS only for what was asked of it.            *)
ImplementsPriceBoard == Board!BoardSpec

(* Unavailable: the tile gives a reason only while no price is known; any  *)
(* price, of either cache, takes away what an earlier call that failed     *)
(* left.                                                                   *)
ReasonOnlyWithoutPrices ==
  unavailable /\ ~priced =>
    \A s \in NodeSpec : Lookup(s) = "none"

(* A node that stays has a price in the end, whatever failed first.        *)
NodesGetPriced ==
  \A s \in NodeSpec :
    OnDemandKey[s] \in Offered => (s \in nodes ~> s \notin nodes \/ Lookup(s) # "none")

(* "tracked holds every spec ever seen so stale prices can be refreshed on *)
(* their own TTL": no price stays stale.                                   *)
StalePricesRefresh ==
  /\ \A key \in OnDemandKeys : onDemand[key] = OnDemandTTL ~> onDemand[key] # OnDemandTTL
  /\ \A key \in SpotKeys : spot[key] = SpotTTL ~> spot[key] # SpotTTL

(* README: "Spot nodes are priced from the most recent EC2 spot price for  *)
(* their exact availability zone ...  Until that sample arrives, the node  *)
(* is charged at its on-demand rate".                                      *)
SpotNodesGetSpotPrice ==
  \A s \in Spot :
    SpotKey[s] \in Sampled => (s \in nodes ~> s \notin nodes \/ Lookup(s) = "spot")
=============================================================================
