----------------------------- MODULE MCZonePricing -----------------------------
(***************************************************************************)
(* Where deliveries are served, and at what price.  The administrators'    *)
(* zones and rules and the merchant's forms of places share no row, as the *)
(* API's answer about a place is free, so each is run on its own: "edited" *)
(* says which.                                                             *)
(*                                                                         *)
(* Of prices, there are two administrators, two kinds of deliveries, and   *)
(* terms that differ from one version of a rule to the next.  Of places,   *)
(* there are the store, a door, and a place that is that door once its     *)
(* coordinates are cut; a short link that leads to the door; two points to *)
(* validate at a time, and one other call, for which the merchant stands.  *)
(***************************************************************************)
EXTENDS ZonePricing, TLC

CONSTANTS Point, NoPoint, SixDecimals, Fallback, Link, NoLink, Trail, MaxReviews

VARIABLES edited, form, stage, draft, map, busy, call, review

placeVars == <<form, stage, draft, map, busy, call, review>>

Place == INSTANCE LocationForm WITH Call <- Merchant

ASSUME PlaceAssumption == Place!Assumptions

Parcels ==
    {[near |-> TRUE, distanceMeters |-> 1501, size |-> "LARGE",
      weightGrams |-> 6000, fragile |-> TRUE, requiresThermalBag |-> FALSE],
     [near |-> FALSE, distanceMeters |-> 3490, size |-> "SMALL",
      weightGrams |-> 900, fragile |-> FALSE, requiresThermalBag |-> TRUE]}

Prices(family, version) ==
    [baseFeeMinor |-> 1001, includedDistanceMeters |-> 1000,
     perKilometerMinor |-> 250 + version,
     minimumFeeMinor |-> IF version = 2 THEN 1001 ELSE 3003,
     sizeSurchargeMinor |-> [SMALL |-> 0, MEDIUM |-> 50, LARGE |-> 120],
     weightBands |-> <<[upToGrams |-> 5000, surchargeMinor |-> 60],
                       [upToGrams |-> 1000, surchargeMinor |-> 0]>>,
     fragileSurchargeMinor |-> 115, thermalBagSurchargeMinor |-> 75,
     taxBasisPoints |-> IF version = 2 THEN 0 ELSE 1400,
     returnTripPercentageBasisPoints |-> 7000 - version]

Places == {"shop", "door", "here"}
CutPlaces == [p \in Places |-> IF p = "here" THEN "door" ELSE p]
Opened(host, point, answer) ==
    [host |-> host, point |-> point, reference |-> TRUE, public |-> TRUE, answer |-> answer]
Pages == "short" :> <<Opened("short", "none", "redirect"), Opened("google", "here", "page")>>

Symmetry == Permutations(Admin)

\* While only places are edited, one state of the zones is enough.
EditedInit ==
    /\ Init /\ Place!Init
    /\ edited \in {"price", "place"}
    /\ edited = "price" => form = "order"
    /\ edited = "place" => rule[1].zone = 1

EditedNext ==
    \/ edited = "price" /\ Next /\ UNCHANGED <<edited, placeVars>>
    \/ edited = "place" /\ Place!Next /\ UNCHANGED <<edited, vars>>

EditedSpec == EditedInit /\ [][EditedNext]_<<edited, vars, placeVars>>

\* Zones, rules, quotes and forms are well typed.
EditedTypeOK == TypeOK /\ Place!TypeOK

\* A place that a form would send was confirmed on the map and found served.
PlacesAreReviewed == Place!PlacesAreReviewed
=============================================================================
