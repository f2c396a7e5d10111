-------------------------------- MODULE Pricing --------------------------------
(***************************************************************************)
(* The price of a delivery (order-domain.ts: calculatePrice), in minor     *)
(* units, metres, grams and basis points.  The commission's share comes    *)
(* from the financial settings, never from the rule: every quote gives it. *)
(***************************************************************************)
EXTENDS Integers, Sequences, FiniteSetsExt, SequencesExt

\* A whole in basis points, a kilometre in metres.
whole == 10000
kilometre == 1000

\* What the API lets an administrator enter (phase-two-admin.controller.ts:
\* pricingSchema), and the bands that it lets him list.
Size == {"SMALL", "MEDIUM", "LARGE"}
WeightBand == [upToGrams: Nat, surchargeMinor: Nat]
RuleTerms ==
    [baseFeeMinor: Nat, includedDistanceMeters: Nat, perKilometerMinor: Nat,
     minimumFeeMinor: Nat, sizeSurchargeMinor: [Size -> Nat],
     weightBands: Seq(WeightBand), fragileSurchargeMinor: Nat,
     thermalBagSurchargeMinor: Nat, taxBasisPoints: 0 .. whole,
     returnTripPercentageBasisPoints: 0 .. whole]

\* Mistake: the quotient is cut off.
roundRatio_Down(multiplicand, multiplier, divisor) ==
    (multiplicand * multiplier) \div divisor

\* Half of an odd divisor is no integer, hence the doubling.
roundRatio(multiplicand, multiplier, divisor) ==
    (2 * multiplicand * multiplier + divisor) \div (2 * divisor)

\* A parcel heavier than every band pays the last band of the rule's list,
\* which need not be the heaviest: only the search is in order of weight.
weightSurcharge(bands, weight) ==
    LET fitting == {i \in DOMAIN bands : weight <= bands[i].upToGrams}
        lightest == Min({bands[i].upToGrams : i \in fitting})
        first == Min({i \in fitting : bands[i].upToGrams = lightest})
    IN  IF bands = <<>> THEN 0
        ELSE IF fitting = {} THEN Last(bands).surchargeMinor
        ELSE bands[first].surchargeMinor

extras(rule, parcel) ==
    rule.sizeSurchargeMinor[parcel.size]
        + weightSurcharge(rule.weightBands, parcel.weightGrams)
        + (IF parcel.fragile THEN rule.fragileSurchargeMinor ELSE 0)
        + (IF parcel.requiresThermalBag THEN rule.thermalBagSurchargeMinor ELSE 0)

\* What is missing to the minimum fee is charged as distance.
distanceCharge(rule, parcel) ==
    Max({0,
         roundRatio(Max({0, parcel.distanceMeters - rule.includedDistanceMeters}),
                    rule.perKilometerMinor, kilometre),
         rule.minimumFeeMinor - rule.baseFeeMinor - extras(rule, parcel)})

calculatePrice(rule, parcel, commissionBasisPoints) ==
    LET subtotal == rule.baseFeeMinor + distanceCharge(rule, parcel)
                        + extras(rule, parcel)
        tax == roundRatio(subtotal, rule.taxBasisPoints, whole)
        total == subtotal + tax
        commission == roundRatio(total, commissionBasisPoints, whole)
    IN  [distanceChargeMinor |-> distanceCharge(rule, parcel),
         extrasMinor |-> extras(rule, parcel),
         taxMinor |-> tax,
         merchantTotalMinor |-> total,
         platformCommissionMinor |-> commission,
         estimatedCourierEarningMinor |-> total - commission,
         estimatedReturnTripPriceMinor |->
             roundRatio(total, rule.returnTripPercentageBasisPoints, whole)]

\* What the administrators' tools make of the same terms
\* (admin-operations-domain.ts).
coreDeliveryPriceMinor(rule, distanceMeters) ==
    rule.baseFeeMinor
        + (Max({0, distanceMeters - rule.includedDistanceMeters})
              * rule.perKilometerMinor + 500) \div kilometre

returnTripPriceMinor(tripPriceMinor, percentageBasisPoints) ==
    (tripPriceMinor * percentageBasisPoints + 5000) \div whole
=============================================================================
