--------------------------- MODULE PriceCacheProofs ---------------------------
(***************************************************************************)
(* Theorems about PriceCache, for any shapes, keys and TTLs.               *)
(***************************************************************************)
EXTENDS PriceCache, TLAPS

Loops == [at : {"due", "fetch", "sleep"}, onDemandWanted : SUBSET OnDemandKeys,
          spotWanted : SUBSET Spot, samples : SUBSET SpotKeys]

TypeInv ==
  /\ onDemand \in [OnDemandKeys -> Ages(OnDemandTTL)]
  /\ spot \in [SpotKeys -> Ages(SpotTTL)]
  /\ pending \subseteq NodeSpec /\ tracked \subseteq NodeSpec /\ nodes \subseteq NodeSpec
  /\ wake \in BOOLEAN /\ priced \in BOOLEAN /\ unavailable \in BOOLEAN
  /\ asking = NotAsking \/ asking \in [at : {"queue", "notify"}, spec : NodeSpec]
  /\ loop \in Loops

(* AWS is asked only about what the tile asked for. *)
Answering(key) ==
  \E s \in Spot \cap tracked, t \in Spot :
    SpotKey[t] = key /\ Region[s] = Region[t] /\ InstanceType[s] = InstanceType[t]

AskedFirst ==
  /\ loop.onDemandWanted \subseteq {OnDemandKey[s] : s \in tracked}
  /\ loop.spotWanted \subseteq tracked
  /\ \A key \in loop.samples : key \in Sampled /\ Answering(key)

NoPriceYet ==
  ~priced => /\ \A key \in OnDemandKeys : onDemand[key] = Unknown
             /\ \A key \in SpotKeys : spot[key] = Unknown

PriceInv == TypeInv /\ AskedFirst /\ NoPriceYet /\ NoLostWakeup

-----------------------------------------------------------------------------

LEMMA KeysOfShapes ==
  /\ \A s \in NodeSpec : OnDemandKey[s] \in OnDemandKeys
  /\ \A s \in Spot : s \in NodeSpec /\ SpotKey[s] \in SpotKeys
BY SpotAreSpecs DEF OnDemandKeys, SpotKeys

LEMMA InitPriceInv == Init => PriceInv
<1> SUFFICES ASSUME Init PROVE PriceInv
  OBVIOUS
<1>1. TypeInv
  BY DEF Init, TypeInv, Loops, At, Ages
<1>2. AskedFirst /\ NoPriceYet /\ NoLostWakeup
  BY DEF Init, AskedFirst, NoPriceYet, NoLostWakeup, At
<1> QED BY <1>1, <1>2 DEF PriceInv

LEMMA AgesGrow ==
  ASSUME NEW ttl \in Nat \ {0}, NEW age \in Ages(ttl)
  PROVE  /\ Older(age, ttl) \in Ages(ttl)
         /\ Older(age, ttl) = Unknown <=> age = Unknown
BY UnknownIsNoAge DEF Ages, Older

LEMMA ViewPriceInv ==
  ASSUME PriceInv, ViewStep
  PROVE  PriceInv'
<1> USE DEF PriceInv
<1>1. UNCHANGED <<caches, tracked, priced, unavailable, nodes, loop>>
  BY DEF ViewStep, HourlyPrice, QueueSpec, Notify
<1>2. AskedFirst' /\ NoPriceYet'
  BY <1>1 DEF AskedFirst, Answering, NoPriceYet, caches
<1>3. ASSUME NEW s \in NodeSpec, HourlyPrice(s)
      PROVE  TypeInv' /\ NoLostWakeup'
  BY <1>1, <1>3 DEF HourlyPrice, TypeInv, NotAsking, NoLostWakeup, caches
<1>4. CASE QueueSpec
  <2>1. asking.spec \in NodeSpec /\ [asking EXCEPT !.at = "notify"] \in [at : {"queue", "notify"}, spec : NodeSpec]
    BY <1>4 DEF QueueSpec, TypeInv, NotAsking
  <2>2. TypeInv'
    BY <1>1, <1>4, <2>1 DEF QueueSpec, TypeInv, NotAsking, caches
  <2>3. NoLostWakeup'
    BY <1>1, <1>4, <2>1 DEF QueueSpec, NoLostWakeup, NotAsking
  <2> QED BY <1>2, <2>2, <2>3
<1>5. CASE Notify
  BY <1>1, <1>2, <1>5 DEF Notify, TypeInv, NoLostWakeup, caches
<1> QED BY <1>2, <1>3, <1>4, <1>5 DEF ViewStep

LEMMA DuePriceInv ==
  ASSUME PriceInv, DueSpecs
  PROVE  PriceInv'
<1> USE DEF PriceInv
<1> DEFINE due == pending \cup {s \in tracked : IsStale(s)}
<1>1. due \subseteq NodeSpec /\ due \subseteq tracked'
  BY DEF DueSpecs, TypeInv
<1>2. \/ loop' = At("sleep")
      \/ loop' = [at |-> "fetch", onDemandWanted |-> {OnDemandKey[s] : s \in due},
                  spotWanted |-> due \cap Spot, samples |-> {}]
  BY DEF DueSpecs, At
<1> HIDE DEF due
<1>3. loop' \in Loops
  BY <1>1, <1>2, KeysOfShapes DEF Loops, At
<1>4. TypeInv'
  BY <1>3 DEF DueSpecs, TypeInv, caches, view
<1>5. AskedFirst'
  BY <1>1, <1>2 DEF AskedFirst, At
<1> QED BY <1>4, <1>5 DEF DueSpecs, NoPriceYet, NoLostWakeup, caches, view

LEMMA AnswersPriceInv ==
  ASSUME PriceInv, Answers
  PROVE  PriceInv'
<1> USE DEF PriceInv
<1>1. UNCHANGED <<pending, tracked, wake, view>>
  BY DEF Answers, FetchOnDemand, FetchOnDemandFails, FetchSpot, FetchSpotFails, FetchingSpot, LoopOnly
<1>2. loop.at = "due" => loop'.at = "due"
  BY DEF Answers, FetchOnDemand, FetchOnDemandFails, FetchSpot, FetchSpotFails, TypeInv, Loops
<1>3. NoLostWakeup'
  BY <1>1, <1>2 DEF NoLostWakeup, view
<1>4. ASSUME NEW key \in OnDemandKeys, FetchOnDemand(key) \/ FetchOnDemandFails(key)
      PROVE  PriceInv'
  <2>1. loop' = [loop EXCEPT !.onDemandWanted = @ \ {key}] /\ UNCHANGED spot
    BY <1>4 DEF FetchOnDemand, FetchOnDemandFails, RecordFailure, caches
  <2>2. loop' \in Loops
    BY <2>1 DEF TypeInv, Loops
  <2>3. onDemand' \in [OnDemandKeys -> Ages(OnDemandTTL)]
    BY <1>4, TTLsArePositive DEF FetchOnDemand, FetchOnDemandFails, RecordFailure, caches, TypeInv, Ages
  <2>4. priced' \in BOOLEAN /\ unavailable' \in BOOLEAN
    BY <1>4 DEF FetchOnDemand, FetchOnDemandFails, Priced, RecordFailure, TypeInv
  <2>5. TypeInv'
    BY <1>1, <2>1, <2>2, <2>3, <2>4 DEF TypeInv, view
  <2>6. AskedFirst'
    BY <1>1, <2>1 DEF AskedFirst, Answering, TypeInv, Loops
  <2>7. NoPriceYet'
    BY <1>4, <2>1 DEF FetchOnDemand, FetchOnDemandFails, Priced, RecordFailure, caches, NoPriceYet
  <2> QED BY <1>3, <2>5, <2>6, <2>7
<1>5. ASSUME NEW s \in Spot, FetchSpot(Region[s])
      PROVE  PriceInv'
  <2> DEFINE types == {InstanceType[t] : t \in InRegion(loop.spotWanted, Region[s])}
             listed == {t \in InRegion(Spot, Region[s]) : InstanceType[t] \in types}
  <2>1. /\ loop' = [loop EXCEPT !.spotWanted = {t \in loop.spotWanted : Region[t] # Region[s]},
                                !.samples = {SpotKey[t] : t \in listed} \cap Sampled]
        /\ UNCHANGED <<caches, priced, unavailable>>
    BY <1>5 DEF FetchSpot
  <2>2. \A t \in listed : Answering(SpotKey[t])
    BY DEF InRegion, Answering, AskedFirst, TypeInv, Loops
  <2>3. {SpotKey[t] : t \in listed} \subseteq SpotKeys
    BY DEF InRegion, SpotKeys
  <2> HIDE DEF listed
  <2>4. loop' \in Loops
    BY <2>1, <2>3 DEF TypeInv, Loops
  <2>5. TypeInv'
    BY <1>1, <2>1, <2>4 DEF TypeInv, caches, view
  <2>6. AskedFirst'
    <3>1. \A key \in loop'.samples : key \in Sampled /\ Answering(key)
      BY <2>1, <2>2 DEF TypeInv, Loops
    <3> QED BY <1>1, <2>1, <3>1 DEF AskedFirst, Answering, TypeInv, Loops
  <2> QED BY <1>3, <2>1, <2>5, <2>6 DEF NoPriceYet, caches
<1>6. ASSUME NEW s \in Spot, FetchSpotFails(Region[s])
      PROVE  PriceInv'
  <2>1. /\ loop' = [loop EXCEPT !.spotWanted = {t \in loop.spotWanted : Region[t] # Region[s]}]
        /\ unavailable' = TRUE /\ UNCHANGED <<caches, priced>>
    BY <1>6 DEF FetchSpotFails, RecordFailure
  <2>2. loop' \in Loops
    BY <2>1 DEF TypeInv, Loops
  <2>3. TypeInv'
    BY <1>1, <2>1, <2>2 DEF TypeInv, caches, view
  <2>4. AskedFirst'
    BY <1>1, <2>1 DEF AskedFirst, Answering, TypeInv, Loops
  <2> QED BY <1>3, <2>1, <2>3, <2>4 DEF NoPriceYet, caches
<1> QED BY <1>4, <1>5, <1>6 DEF Answers

LEMMA StoreSpotPriceInv ==
  ASSUME PriceInv, NEW key \in SpotKeys, StoreSpot(key)
  PROVE  PriceInv'
<1> USE DEF PriceInv
<1>1. loop' = [loop EXCEPT !.samples = loop.samples \ {key}] /\ UNCHANGED <<pending, tracked, wake, view>>
  BY DEF StoreSpot, LoopOnly
<1>2. loop' \in Loops
  BY <1>1 DEF TypeInv, Loops
<1>3. spot' \in [SpotKeys -> Ages(SpotTTL)]
  BY TTLsArePositive DEF StoreSpot, TypeInv, Ages
<1>4. TypeInv'
  BY <1>1, <1>2, <1>3 DEF StoreSpot, Priced, TypeInv, view
<1>5. AskedFirst' /\ NoLostWakeup'
  BY <1>1 DEF AskedFirst, Answering, TypeInv, Loops, NoLostWakeup, view
<1> QED BY <1>4, <1>5 DEF StoreSpot, Priced, NoPriceYet

LEMMA SleepPriceInv ==
  ASSUME PriceInv, RefreshDone \/ Woken \/ FetchInterval
  PROVE  PriceInv'
<1> USE DEF PriceInv
<1>1. /\ loop' \in {At("due"), At("sleep")}
      /\ UNCHANGED <<caches, pending, tracked, priced, unavailable, view>>
      /\ wake' \in BOOLEAN
  BY DEF RefreshDone, Woken, FetchInterval, TypeInv
<1>2. loop' \in Loops /\ AskedFirst'
  BY <1>1 DEF At, Loops, AskedFirst
<1>3. TypeInv' /\ NoPriceYet'
  BY <1>1, <1>2 DEF TypeInv, NoPriceYet, caches, view
<1>4. NoLostWakeup'
  BY DEF RefreshDone, Woken, FetchInterval, NoLostWakeup, At, view
<1> QED BY <1>2, <1>3, <1>4

LEMMA TickPriceInv ==
  ASSUME PriceInv, Tick
  PROVE  /\ PriceInv'
         /\ \A key \in OnDemandKeys : onDemand'[key] = Unknown <=> onDemand[key] = Unknown
         /\ \A key \in SpotKeys : spot'[key] = Unknown <=> spot[key] = Unknown
<1> USE DEF PriceInv
<1>1. /\ \A key \in OnDemandKeys : /\ onDemand'[key] \in Ages(OnDemandTTL)
                                   /\ onDemand'[key] = Unknown <=> onDemand[key] = Unknown
      /\ onDemand' = [key \in OnDemandKeys |-> onDemand'[key]]
  BY AgesGrow, TTLsArePositive DEF Tick, TypeInv
<1>2. /\ \A key \in SpotKeys : /\ spot'[key] \in Ages(SpotTTL)
                               /\ spot'[key] = Unknown <=> spot[key] = Unknown
      /\ spot' = [key \in SpotKeys |-> spot'[key]]
  BY AgesGrow, TTLsArePositive DEF Tick, TypeInv
<1>3. UNCHANGED <<pending, tracked, wake, priced, unavailable, nodes, asking, loop>>
  BY DEF Tick, view
<1>4. TypeInv'
  BY <1>1, <1>2, <1>3 DEF TypeInv
<1>5. AskedFirst' /\ NoLostWakeup' /\ NoPriceYet'
  BY <1>1, <1>2, <1>3 DEF AskedFirst, Answering, NoLostWakeup, NoPriceYet
<1> QED BY <1>1, <1>2, <1>4, <1>5

LEMMA NextPriceInv == PriceInv /\ [Next]_vars => PriceInv'
<1>1. ASSUME PriceInv, LoopStep
      PROVE  PriceInv'
  BY <1>1, DuePriceInv, AnswersPriceInv, StoreSpotPriceInv, SleepPriceInv DEF LoopStep
<1>2. ASSUME PriceInv, NEW s \in NodeSpec, NodesChange(s)
      PROVE  PriceInv'
  BY <1>2
     DEF NodesChange, PriceInv, TypeInv, AskedFirst, Answering, NoLostWakeup, NoPriceYet, caches
<1>3. ASSUME PriceInv, UNCHANGED vars
      PROVE  PriceInv'
  BY <1>3
     DEF vars, PriceInv, TypeInv, AskedFirst, Answering, NoLostWakeup, NoPriceYet, caches, view
<1> QED BY <1>1, <1>2, <1>3, ViewPriceInv, TickPriceInv DEF Next

LEMMA PriceInvHolds == Spec => []PriceInv
BY InitPriceInv, NextPriceInv, PTL DEF Spec

-----------------------------------------------------------------------------

(* Every variable of the provider keeps its type, for any set of shapes.   *)
THEOREM PriceTypeCorrect == Spec => []PriceTypeOK
<1>1. PriceInv => PriceTypeOK
  BY DEF PriceInv, TypeInv, PriceTypeOK, Loops, NotAsking
<1> QED BY <1>1, PriceInvHolds, PTL

(* A shape that was queued never waits for the ticker alone, wherever the  *)
(* loop was when the signal came, or came twice.                           *)
THEOREM WakeupsAreKept == Spec => []NoLostWakeup
<1>1. PriceInv => NoLostWakeup
  BY DEF PriceInv
<1> QED BY <1>1, PriceInvHolds, PTL

(* While there is a reason to show why prices are missing, none is known.  *)
THEOREM ReasonMeansNoPrices == Spec => []ReasonOnlyWithoutPrices
<1>1. PriceInv => ReasonOnlyWithoutPrices
  BY KeysOfShapes DEF PriceInv, NoPriceYet, ReasonOnlyWithoutPrices, Lookup
<1> QED BY <1>1, PriceInvHolds, PTL

-----------------------------------------------------------------------------
(* The provider implements the board. *)

SamePrices == \A s \in NodeSpec : Lookup(s)' = Lookup(s)
SameAsked == (pending \cup tracked)' = pending \cup tracked

BoardStep == Board!BoardNext \/ UNCHANGED Board!boardVars

LEMMA BoardStutters ==
  ASSUME SamePrices, SameAsked
  PROVE  BoardStep
BY DEF SamePrices, SameAsked, BoardStep, Board!boardVars

LEMMA CachesUntouched ==
  ASSUME UNCHANGED caches
  PROVE  SamePrices
BY DEF SamePrices, Lookup, caches

LEMMA ViewBoardStep ==
  ASSUME PriceInv, ViewStep
  PROVE  BoardStep
<1>1. UNCHANGED <<caches, tracked>>
  BY DEF ViewStep, HourlyPrice, QueueSpec, Notify
<1>2. SamePrices
  BY <1>1, CachesUntouched DEF caches
<1>3. CASE QueueSpec
  <2>1. asking.spec \in NodeSpec
    BY <1>3 DEF QueueSpec, PriceInv, TypeInv, NotAsking
  <2>2. Board!Ask(asking.spec)
    BY <1>1, <1>2, <1>3 DEF QueueSpec, Board!Ask, SamePrices
  <2> QED BY <2>1, <2>2 DEF BoardStep, Board!BoardNext
<1>4. CASE ~QueueSpec
  BY <1>1, <1>2, <1>4, BoardStutters DEF ViewStep, HourlyPrice, Notify, SameAsked
<1> QED BY <1>3, <1>4

LEMMA AnswersBoardStep ==
  ASSUME PriceInv, Answers
  PROVE  BoardStep
<1>1. SameAsked
  BY DEF Answers, FetchOnDemand, FetchOnDemandFails, FetchSpot, FetchSpotFails, FetchingSpot, LoopOnly,
         SameAsked
<1>2. ASSUME NEW key \in OnDemandKeys, FetchOnDemand(key), key \in Offered
      PROVE  BoardStep
  <2>1. \E s \in pending \cup tracked : OnDemandKey[s] = key
    BY <1>2 DEF FetchOnDemand, PriceInv, AskedFirst
  <2>2. \A s \in NodeSpec :
          Lookup(s)' = IF OnDemandKey[s] = key /\ Lookup(s) = "none" THEN "on-demand" ELSE Lookup(s)
    BY <1>2, UnknownIsNoAge, KeysOfShapes DEF FetchOnDemand, Lookup, PriceInv, TypeInv
  <2>3. Board!OnDemandQuote(key)
    BY <1>1, <1>2, <2>1, <2>2 DEF Board!OnDemandQuote, SameAsked
  <2> QED BY <1>2, <2>3 DEF BoardStep, Board!BoardNext
<1>3. CASE UNCHANGED caches
  BY <1>1, <1>3, CachesUntouched, BoardStutters
<1>4. CASE ~UNCHANGED caches
  <2>1. \E key \in OnDemandKeys : FetchOnDemand(key) /\ key \in Offered
    BY <1>4
       DEF Answers, FetchOnDemand, FetchOnDemandFails, FetchSpot, FetchSpotFails, RecordFailure, caches
  <2> QED BY <1>2, <2>1
<1> QED BY <1>3, <1>4

LEMMA StoreSpotBoardStep ==
  ASSUME PriceInv, NEW key \in SpotKeys, StoreSpot(key)
  PROVE  BoardStep
<1>1. key \in Sampled /\ Answering(key)
  BY DEF StoreSpot, PriceInv, AskedFirst
<1>2. \A t \in NodeSpec : Lookup(t)' = IF t \in Spot /\ SpotKey[t] = key THEN "spot" ELSE Lookup(t)
  BY UnknownIsNoAge, KeysOfShapes DEF StoreSpot, Lookup, PriceInv, TypeInv
<1>3. Board!SpotQuote(key)
  BY <1>1, <1>2 DEF StoreSpot, LoopOnly, Board!SpotQuote, Answering
<1> QED BY <1>1, <1>3 DEF BoardStep, Board!BoardNext

LEMMA NextBoardStep == PriceInv /\ [Next]_vars => BoardStep
<1>1. ASSUME PriceInv, DueSpecs \/ RefreshDone \/ Woken \/ FetchInterval
      PROVE  BoardStep
  BY <1>1, CachesUntouched, BoardStutters DEF DueSpecs, RefreshDone, Woken, FetchInterval, SameAsked, caches
<1>2. ASSUME PriceInv, Tick
      PROVE  BoardStep
  <2>1. SamePrices
    BY <1>2, TickPriceInv, KeysOfShapes DEF SamePrices, Lookup
  <2> QED BY <1>2, <2>1, BoardStutters DEF Tick, SameAsked
<1>3. ASSUME UNCHANGED vars \/ \E s \in NodeSpec : NodesChange(s)
      PROVE  BoardStep
  BY <1>3, CachesUntouched, BoardStutters DEF vars, NodesChange, SameAsked
<1> QED BY <1>1, <1>2, <1>3, ViewBoardStep, AnswersBoardStep, StoreSpotBoardStep DEF Next, LoopStep

(* Whatever fails, and in whatever order the three processes step, the     *)
(* tile sees a board on which prices appear and are never lost.            *)
THEOREM CacheIsPriceBoard == Spec => ImplementsPriceBoard
<1>1. Init => Board!BoardInit
  BY KeysOfShapes DEF Init, Board!BoardInit, Lookup
<1>2. PriceInv /\ [Next]_vars => [Board!BoardNext]_(Board!boardVars)
  BY NextBoardStep DEF BoardStep
<1> QED BY <1>1, <1>2, PriceInvHolds, PTL DEF Spec, ImplementsPriceBoard, Board!BoardSpec
=============================================================================
