---------------------------- MODULE MCPriceCache ----------------------------
(***************************************************************************)
(* An instance of PriceCache for TLC: nodes of one instance type in one    *)
(* zone, od on demand and sp on spot capacity.                             *)
(***************************************************************************)
EXTENDS PriceCache, TLC

CONSTANTS od, sp, small, zone

TwoSpecs == {od, sp}
OneSpot == {sp}
MCOnDemandKey == od :> small @@ sp :> small
MCInstanceType == MCOnDemandKey
MCSpotKey == od :> zone @@ sp :> zone
MCRegion == od :> "r" @@ sp :> "r"
OneType == {small}
OneZone == {zone}
=============================================================================
