----------------------------- MODULE PriceBoard -----------------------------
(***************************************************************************)
(* What the price provider promises the cost tile: a board with the price  *)
(* of each shape of nodes.  A price is there for all shapes it is good for *)
(* at once, a spot price replaces the on-demand price, and none goes away  *)
(* again, whatever AWS calls fail, however long the prices are not         *)
(* refreshed.  AWS is asked only about shapes that nodes have had.         *)
(***************************************************************************)
EXTENDS Integers

CONSTANTS NodeSpec, Spot, OnDemandKey, SpotKey, Region, InstanceType, Offered, Sampled

VARIABLES
  asked, \* the shapes the tile has asked for
  board  \* the price the tile gets for each shape: "none", "on-demand", "spot"

boardVars == <<asked, board>>

BoardInit ==
  /\ asked = {}
  /\ board = [s \in NodeSpec |-> "none"]

Ask(s) ==
  /\ asked' = asked \cup {s}
  /\ UNCHANGED board

OnDemandQuote(key) ==
  /\ key \in Offered
  /\ \E s \in asked : OnDemandKey[s] = key
  /\ board' = [s \in NodeSpec |->
                 IF OnDemandKey[s] = key /\ board[s] = "none" THEN "on-demand" ELSE board[s]]
  /\ UNCHANGED asked

(* The history of spot prices answers for all zones of a region. *)
SpotQuote(key) ==
  /\ key \in Sampled
  /\ \E s \in Spot \cap asked, t \in Spot :
       SpotKey[t] = key /\ Region[s] = Region[t] /\ InstanceType[s] = InstanceType[t]
  /\ board' = [t \in NodeSpec |-> IF t \in Spot /\ SpotKey[t] = key THEN "spot" ELSE board[t]]
  /\ UNCHANGED asked

BoardNext ==
  \/ \E s \in NodeSpec : Ask(s)
  \/ \E key \in Offered : OnDemandQuote(key)
  \/ \E key \in Sampled : SpotQuote(key)

BoardSpec == BoardInit /\ [][BoardNext]_boardVars
=============================================================================
