--------------------------- MODULE ZonePricingProofs ---------------------------
(***************************************************************************)
(* Proofs about ZonePricing, for any administrators, merchants, families   *)
(* of rules and parcels, and any terms the API lets an administrator       *)
(* enter.                                                                  *)
(*                                                                         *)
(* IInv is inductive.  What keeps two activations of a zone apart is that  *)
(* one that holds the zone's lock has found every active rule of the zone, *)
(* and that nobody else activates there meanwhile.  What keeps versions    *)
(* without a gap is that a version looked up is at most one more than the  *)
(* family's rules by now: it is either taken or the next.                  *)
(*                                                                         *)
(* The forms of places (LocationForm) follow, for any points, links, calls *)
(* and answers.  PlaceInv ties a confirmed place to the answer it came     *)
(* with.  Both are about every run of MCZonePricing, as its steps are      *)
(* steps of one of the two.                                                *)
(***************************************************************************)
EXTENDS MCZonePricing, FiniteSetTheorems, SequenceTheorems, WellFoundedInduction, TLAPS

ruleZone(e) == rule[e.rule].zone

\* The columns of a request.
Edit == [step: EditStep, rule: Nat, family: Family \cup {None}, version: Nat,
         zone: Nat, found: SUBSET Nat, written: ZoneColumns, error: Error]

rowsOf(f) == {r \in DOMAIN rule : rule[r].family = f}

\* What a request e may do, and what it has read that still holds.
EditOK(e) ==
    /\ e \in Edit
    /\ e.step = "create" =>
          /\ e.family \in Family /\ e.zone \in DOMAIN zone
          /\ e.version \in 1 .. MaxRules
          /\ e.version <= Cardinality(rowsOf(e.family)) + 1
    /\ e.step = "write" => e.zone \in DOMAIN zone /\ e.version < MaxVersion
    /\ e.step \in EditStep \ {"idle", "create", "write"} => e.rule \in DOMAIN rule
    /\ e.found \subseteq DOMAIN rule
    /\ e.step = "switch" => activeRules(ruleZone(e)) \subseteq e.found \cup {e.rule}
    /\ e.error # "failed"

EditsOK ==
    /\ edit = [a \in Admin |-> edit[a]]
    /\ \A a \in Admin : EditOK(edit[a])

\* At most one activation is under way in a zone.
OneAtATime ==
    \A a, b \in Admin :
       edit[a].step = "switch" /\ edit[b].step = "switch"
          /\ ruleZone(edit[a]) = ruleZone(edit[b]) => a = b

RowsOK ==
    /\ zone \in Seq(Zone) /\ Len(zone) \in 1 .. MaxZones
    /\ rule \in Seq(Rule) /\ rule # <<>>

Quote == [rule: Nat, parcel: Parcel,
          price: {calculatePrice(t, p, Commission) : t \in RuleTerms, p \in Parcel}]

\* A quote has the price of its rule's terms.
QuoteOK(q) ==
    /\ q.rule \in DOMAIN rule /\ q.parcel \in Parcel
    /\ q.price = calculatePrice(terms(q.rule), q.parcel, Commission)

QuotesOK ==
    /\ quote \in Seq(Quote) /\ Len(quote) <= MaxQuotes
    /\ \A q \in DOMAIN quote : QuoteOK(quote[q])

OfferOK(o) ==
    o # NoOffer => o \in [zone: DOMAIN zone, rule: DOMAIN rule, parcel: Parcel]

OffersOK ==
    /\ offer = [m \in Merchant |-> offer[m]]
    /\ \A m \in Merchant : OfferOK(offer[m])

\* A zone has one price, and a family counts its versions.
OneActive ==
    \A r, s \in DOMAIN rule :
       /\ rule[r].status = "ACTIVE" /\ rule[s].status = "ACTIVE"
       /\ rule[r].zone = rule[s].zone /\ rule[r].zone # None
       => r = s

VersionsOK ==
    \A f \in Family : {rule[r].version : r \in rowsOf(f)} = 1 .. Cardinality(rowsOf(f))

\* The inductive invariant.
IInv ==
    /\ RowsOK /\ QuotesOK /\ OffersOK
    /\ EditsOK /\ OneAtATime
    /\ OneActive /\ VersionsOK

-----------------------------------------------------------------------------
(* Maxima, minima and rounding.                                            *)

LEMMA MaxIs ==
  ASSUME NEW S \in SUBSET Int, NEW m \in S, \A x \in S : m >= x
  PROVE  Max(S) = m
<1>1. \A n \in S : (\A x \in S : n >= x) => n = m
  OBVIOUS
<1> QED
  BY <1>1 DEF Max

LEMMA MaxOfTwo ==
  ASSUME NEW a \in Int, NEW b \in Int
  PROVE  Max({a, b}) = IF a >= b THEN a ELSE b
<1>1. CASE a >= b
  <2>1. \A x \in {a, b} : a >= x
    BY <1>1
  <2> QED
    BY <1>1, <2>1, MaxIs
<1>2. CASE ~(a >= b)
  <2>1. \A x \in {a, b} : b >= x
    BY <1>2
  <2> QED
    BY <1>2, <2>1, MaxIs
<1> QED
  BY <1>1, <1>2

LEMMA MaxOfThree ==
  ASSUME NEW a \in Int, NEW b \in Int, NEW c \in Int
  PROVE  Max({a, b, c}) = Max({a, Max({b, c})})
<1>1. PICK m \in {b, c} : m >= b /\ m >= c
  OBVIOUS
<1>2. Max({b, c}) = m
  BY <1>1, MaxOfTwo
<1>3. CASE a >= m
  <2>1. \A x \in {a, b, c} : a >= x
    BY <1>1, <1>3
  <2>2. Max({a, b, c}) = a
    BY <2>1, MaxIs
  <2> QED
    BY <1>1, <1>2, <1>3, <2>2, MaxOfTwo
<1>4. CASE ~(a >= m)
  <2>1. \A x \in {a, b, c} : m >= x
    BY <1>1, <1>4
  <2>2. Max({a, b, c}) = m
    BY <1>1, <2>1, MaxIs
  <2> QED
    BY <1>1, <1>2, <1>4, <2>2, MaxOfTwo
<1> QED
  BY <1>3, <1>4

\* Induction is not needed: the natural numbers are well-founded.
LEMMA MinExists ==
  ASSUME NEW S \in SUBSET Nat, S # {}
  PROVE  Min(S) \in S /\ \A x \in S : Min(S) <= x
<1>1. PICK m \in S : \A x \in S : ~(<<x, m>> \in OpToRel(<, Nat))
  <2>1. IsWellFoundedOn(OpToRel(<, Nat), Nat)
    BY NatLessThanWellFounded
  <2> QED
    BY <2>1, WFMin
<1>2. \A x \in S : ~(x < m)
  BY <1>1 DEF OpToRel
<1>3. \A x \in S : m <= x
  BY <1>2
<1> QED
  BY <1>3 DEF Min

\* A quotient is rounded to a natural number that is off by half a unit at
\* most, and as the administrators' tools round it.
LEMMA RoundsWhole ==
  ASSUME NEW m \in Nat, NEW k \in Nat
  PROVE  /\ roundRatio(m, k, whole) \in Nat
         /\ near(roundRatio(m, k, whole), m * k, whole)
         /\ roundRatio(m, k, whole) = returnTripPriceMinor(m, k)
<1>1. PICK x \in Nat : x = m * k
  OBVIOUS
<1>2. 2 * m * k = 2 * x
  BY <1>1
<1> DEFINE q == (2 * x + 10000) \div 20000
           p == (x + 5000) \div 10000
<1>3. roundRatio(m, k, whole) = q
  BY <1>2 DEF roundRatio, whole
<1>4. returnTripPriceMinor(m, k) = p
  BY <1>1 DEF returnTripPriceMinor, whole
<1>5. q \in Nat /\ 20000 * q <= 2 * x + 10000 /\ 2 * x + 10000 < 20000 * q + 20000
  OBVIOUS
<1>6. p \in Nat /\ 10000 * p <= x + 5000 /\ x + 5000 < 10000 * p + 10000
  OBVIOUS
<1> HIDE DEF q, p
<1>7. q = p
  BY <1>5, <1>6
<1>8. near(q, x, whole)
  BY <1>5 DEF near, whole
<1>9. q \in Nat
  BY <1>5
<1> QED
  BY <1>1, <1>3, <1>4, <1>7, <1>8, <1>9, Zenon

LEMMA RoundsKilometre ==
  ASSUME NEW m \in Nat, NEW k \in Nat
  PROVE  /\ roundRatio(m, k, kilometre) \in Nat
         /\ roundRatio(m, k, kilometre) = (m * k + 500) \div kilometre
<1>1. PICK x \in Nat : x = m * k
  OBVIOUS
<1>2. 2 * m * k = 2 * x
  BY <1>1
<1> DEFINE q == (2 * x + 1000) \div 2000
           p == (x + 500) \div 1000
<1>3. roundRatio(m, k, kilometre) = q
  BY <1>2 DEF roundRatio, kilometre
<1>4. (m * k + 500) \div kilometre = p
  BY <1>1 DEF kilometre
<1>5. q \in Nat /\ 2000 * q <= 2 * x + 1000 /\ 2 * x + 1000 < 2000 * q + 2000
  OBVIOUS
<1>6. p \in Nat /\ 1000 * p <= x + 500 /\ x + 500 < 1000 * p + 1000
  OBVIOUS
<1> HIDE DEF q, p
<1>7. q = p
  BY <1>5, <1>6
<1>8. q \in Nat
  BY <1>5
<1> QED
  BY <1>3, <1>4, <1>7, <1>8, Zenon

\* A share is no more than the whole.
LEMMA ShareIsPart ==
  ASSUME NEW m \in Nat, NEW k \in 0 .. whole
  PROVE  roundRatio(m, k, whole) <= m
<1>1. PICK x \in Nat : x = m * k
  BY DEF whole
<1>2. x <= m * 10000
  <2>1. PICK rest \in Nat : rest = 10000 - k /\ k \in Nat
    BY DEF whole
  <2>2. m * rest \in Nat
    BY <2>1
  <2>3. m * 10000 = m * k + m * rest
    BY <2>1
  <2> QED
    BY <1>1, <2>2, <2>3
<1>3. 2 * m * k = 2 * x
  BY <1>1 DEF whole
<1>4. roundRatio(m, k, whole) = (2 * x + 10000) \div 20000
  BY <1>3 DEF roundRatio, whole
<1> QED
  BY <1>2, <1>4

-----------------------------------------------------------------------------
(* The price of a delivery.                                                *)

Deliveries ==
    [near: BOOLEAN, distanceMeters: Nat, size: Size, weightGrams: Nat,
     fragile: BOOLEAN, requiresThermalBag: BOOLEAN]

\* A band is found, whatever the list and its order.
LEMMA WeightSurchargeIsNat ==
  ASSUME NEW bands \in Seq(WeightBand), NEW weight \in Nat
  PROVE  weightSurcharge(bands, weight) \in Nat
<1> DEFINE fitting == {i \in DOMAIN bands : weight <= bands[i].upToGrams}
           limits == {bands[i].upToGrams : i \in fitting}
           first == {i \in fitting : bands[i].upToGrams = Min(limits)}
<1>1. \A i \in DOMAIN bands : bands[i] \in WeightBand /\ i \in Nat
  OBVIOUS
<1>2. CASE bands = <<>>
  BY <1>2 DEF weightSurcharge
<1>3. CASE bands # <<>> /\ fitting = {}
  <2>1. Len(bands) \in DOMAIN bands
    BY <1>3
  <2>2. Last(bands) \in WeightBand
    BY <1>1, <2>1 DEF Last
  <2> QED
    BY <1>3, <2>2 DEF weightSurcharge, WeightBand
<1>4. CASE fitting # {}
  <2>1. limits \in SUBSET Nat /\ limits # {}
    BY <1>1, <1>4 DEF WeightBand
  <2>2. Min(limits) \in limits
    BY <2>1, MinExists
  <2>3. first \in SUBSET Nat /\ first # {}
    BY <1>1, <2>2
  <2>4. Min(first) \in first
    BY <2>3, MinExists
  <2>5. bands # <<>>
    BY <1>4
  <2>6. weightSurcharge(bands, weight) = bands[Min(first)].surchargeMinor
    BY <1>4, <2>5 DEF weightSurcharge
  <2> QED
    BY <1>1, <2>4, <2>6 DEF WeightBand
<1> QED
  BY <1>2, <1>3, <1>4

LEMMA ExtrasAreNat ==
  ASSUME NEW row \in RuleTerms, NEW parcel \in Deliveries
  PROVE  extras(row, parcel) \in Nat
<1>1. weightSurcharge(row.weightBands, parcel.weightGrams) \in Nat
  BY WeightSurchargeIsNat DEF RuleTerms, Deliveries
<1>2. row.sizeSurchargeMinor[parcel.size] \in Nat
  BY DEF RuleTerms, Deliveries
<1>3. row.fragileSurchargeMinor \in Nat /\ row.thermalBagSurchargeMinor \in Nat
  BY DEF RuleTerms
<1> QED
  BY <1>1, <1>2, <1>3 DEF extras

charged(base, least, extra, travel) == Max({0, travel, least - base - extra})
fee(base, least, extra, travel) == Max({least, base + travel + extra})

\* What is missing to the minimum is charged as distance.
LEMMA MinimumIsCharged ==
  ASSUME NEW base \in Nat, NEW least \in Nat, NEW extra \in Nat, NEW travel \in Nat
  PROVE  /\ charged(base, least, extra, travel) \in Nat
         /\ base + charged(base, least, extra, travel) + extra
              = fee(base, least, extra, travel)
<1>1. PICK missing \in Int : missing = least - base - extra
  OBVIOUS
<1>2. PICK sum \in Nat : sum = base + travel + extra
  OBVIOUS
<1>3. Max({0, travel, missing}) = Max({0, Max({travel, missing})})
  BY MaxOfThree
<1>4. CASE travel >= missing
  <2>1. Max({travel, missing}) = travel
    BY <1>4, MaxOfTwo
  <2>2. Max({0, travel}) = travel
    BY MaxOfTwo
  <2>3. sum >= least
    BY <1>1, <1>2, <1>4
  <2>4. Max({least, sum}) = sum
    BY <2>3, MaxOfTwo
  <2> QED
    BY <1>1, <1>2, <1>3, <2>1, <2>2, <2>4 DEF charged, fee
<1>5. CASE ~(travel >= missing)
  <2>1. Max({travel, missing}) = missing
    BY <1>5, MaxOfTwo
  <2>2. ~(0 >= missing)
    BY <1>5
  <2>3. Max({0, missing}) = missing
    BY <2>2, MaxOfTwo
  <2>4. least >= sum
    BY <1>1, <1>2, <1>5
  <2>5. Max({least, sum}) = least
    BY <2>4, MaxOfTwo
  <2>6. base + missing + extra = least /\ missing \in Nat
    BY <1>1, <2>2
  <2> QED
    BY <1>1, <1>2, <1>3, <2>1, <2>3, <2>5, <2>6 DEF charged, fee
<1> QED
  BY <1>4, <1>5

\* What order-domain.ts makes of the terms is what the administrators' tools
\* make of them, and its shares add up.
LEMMA PriceAddsUp ==
  ASSUME NEW row \in RuleTerms, NEW parcel \in Deliveries
  PROVE  LET amount == calculatePrice(row, parcel, Commission)
             total == amount.merchantTotalMinor
             untaxed == total - amount.taxMinor
         IN  /\ total = amount.estimatedCourierEarningMinor
                           + amount.platformCommissionMinor
             /\ amount.estimatedCourierEarningMinor \in 0 .. total
             /\ near(amount.platformCommissionMinor, total * Commission, whole)
             /\ near(amount.taxMinor, untaxed * row.taxBasisPoints, whole)
             /\ amount.estimatedReturnTripPriceMinor =
                   returnTripPriceMinor(total, row.returnTripPercentageBasisPoints)
             /\ untaxed =
                   Max({row.minimumFeeMinor,
                        coreDeliveryPriceMinor(row, parcel.distanceMeters)
                           + amount.extrasMinor})
<1>1. PICK base \in Nat : base = row.baseFeeMinor
  BY DEF RuleTerms
<1>2. PICK least \in Nat : least = row.minimumFeeMinor
  BY DEF RuleTerms
<1>3. PICK rate \in Nat : rate = row.perKilometerMinor
  BY DEF RuleTerms
<1>4. PICK taxRate \in Nat : taxRate = row.taxBasisPoints
  BY DEF RuleTerms
<1>5. PICK backRate \in Nat : backRate = row.returnTripPercentageBasisPoints
  BY DEF RuleTerms
<1>6. PICK extra \in Nat : extra = extras(row, parcel)
  BY ExtrasAreNat
<1>7. PICK beyond \in Nat :
        beyond = Max({0, parcel.distanceMeters - row.includedDistanceMeters})
  <2>1. parcel.distanceMeters \in Nat
    BY DEF Deliveries
  <2>2. row.includedDistanceMeters \in Nat
    BY DEF RuleTerms
  <2>3. PICK difference \in Int :
          difference = parcel.distanceMeters - row.includedDistanceMeters
    BY <2>1, <2>2
  <2>4. Max({0, difference}) \in Nat
    BY MaxOfTwo
  <2> QED
    BY <2>3, <2>4
<1>8. PICK travel \in Nat : travel = roundRatio(beyond, rate, kilometre)
  BY RoundsKilometre
<1>9. travel = (beyond * rate + 500) \div kilometre
  BY <1>8, RoundsKilometre
<1>10. coreDeliveryPriceMinor(row, parcel.distanceMeters) = base + travel
  BY <1>1, <1>3, <1>7, <1>9 DEF coreDeliveryPriceMinor
<1>11. distanceCharge(row, parcel) = charged(base, least, extra, travel)
  BY <1>1, <1>2, <1>3, <1>6, <1>7, <1>8 DEF distanceCharge, charged
<1>c. PICK charge : charge = charged(base, least, extra, travel)
  OBVIOUS
<1>12. charge \in Nat /\ base + charge + extra = fee(base, least, extra, travel)
  BY <1>c, MinimumIsCharged
<1>13. PICK subtotal \in Nat : subtotal = base + charge + extra
  BY <1>12
<1>14. subtotal = Max({least, base + travel + extra})
  BY <1>12, <1>13 DEF fee
<1>15. PICK tax \in Nat : tax = roundRatio(subtotal, taxRate, whole)
  BY RoundsWhole
<1>16. near(tax, subtotal * taxRate, whole)
  BY <1>15, RoundsWhole
<1>17. PICK total \in Nat : total = subtotal + tax
  OBVIOUS
<1>18. Commission \in Nat /\ Commission \in 0 .. whole
  BY CommissionAssumption DEF whole
<1>19. PICK commission \in Nat : commission = roundRatio(total, Commission, whole)
  BY <1>18, RoundsWhole
<1>20. near(commission, total * Commission, whole)
  BY <1>18, <1>19, RoundsWhole
<1>21. commission <= total
  BY <1>18, <1>19, ShareIsPart
<1>22. roundRatio(total, backRate, whole) = returnTripPriceMinor(total, backRate)
  BY RoundsWhole
<1>23. calculatePrice(row, parcel, Commission) =
         [distanceChargeMinor |-> charge, extrasMinor |-> extra, taxMinor |-> tax,
          merchantTotalMinor |-> total, platformCommissionMinor |-> commission,
          estimatedCourierEarningMinor |-> total - commission,
          estimatedReturnTripPriceMinor |-> roundRatio(total, backRate, whole)]
  BY <1>1, <1>4, <1>5, <1>6, <1>11, <1>c, <1>13, <1>15, <1>17, <1>19, Zenon
     DEF calculatePrice
<1>24. PICK amount : amount = calculatePrice(row, parcel, Commission)
  OBVIOUS
<1>25. /\ amount.merchantTotalMinor = total /\ amount.taxMinor = tax
       /\ amount.platformCommissionMinor = commission
       /\ amount.estimatedCourierEarningMinor = total - commission
       /\ amount.extrasMinor = extra
       /\ amount.estimatedReturnTripPriceMinor = roundRatio(total, backRate, whole)
  BY <1>23, <1>24
<1>26. /\ total = (total - commission) + commission
       /\ total - commission \in 0 .. total
       /\ total - tax = subtotal
  BY <1>17, <1>21
<1> QED
  BY <1>2, <1>4, <1>5, <1>10, <1>14, <1>16, <1>20, <1>22, <1>24, <1>25, <1>26, Zenon

-----------------------------------------------------------------------------
(* What every step leaves.                                                 *)

\* Rows are added and change their status, and nothing else about rules.
Grows ==
    /\ zone' \in Seq(Zone) /\ Len(zone') >= Len(zone) /\ Len(zone') <= MaxZones
    /\ rule' \in Seq(Rule) /\ Len(rule') >= Len(rule)
    /\ \A r \in DOMAIN rule :
          /\ rule'[r].zone = rule[r].zone /\ rule'[r].family = rule[r].family
          /\ rule'[r].version = rule[r].version

LEMMA RuleCounts ==
  ASSUME IInv, NEW f
  PROVE  /\ rowsOf(f) \in SUBSET (1 .. Len(rule)) /\ IsFiniteSet(rowsOf(f))
         /\ Cardinality(rowsOf(f)) \in Nat /\ Cardinality(rowsOf(f)) <= Len(rule)
<1>1. Len(rule) \in Nat /\ DOMAIN rule = 1 .. Len(rule)
  BY DEF IInv, RowsOK
<1>2. rowsOf(f) \in SUBSET (1 .. Len(rule))
  BY <1>1 DEF rowsOf
<1>3. IsFiniteSet(1 .. Len(rule)) /\ Cardinality(1 .. Len(rule)) = Len(rule)
  <2>1. PICK n \in Nat : n = Len(rule)
    BY <1>1
  <2>2. IsFiniteSet(1 .. n) /\ Cardinality(1 .. n) = n
    <3>1. n = 0 \/ 1 <= n
      OBVIOUS
    <3> QED
      BY <3>1, FS_Interval
  <2> QED
    BY <2>1, <2>2
<1>4. IsFiniteSet(rowsOf(f)) /\ Cardinality(rowsOf(f)) <= Len(rule)
  BY <1>2, <1>3, FS_Subset
<1>5. Cardinality(rowsOf(f)) \in Nat
  BY <1>4, FS_CardinalityType
<1> QED
  BY <1>2, <1>4, <1>5

\* The latest version of a family is the number of its rules.
LEMMA LatestIsLast ==
  ASSUME IInv, NEW f \in Family
  PROVE  latest(f) = Cardinality(rowsOf(f))
<1>1. PICK n \in Nat : n = Cardinality(rowsOf(f))
  BY RuleCounts
<1>2. {rule[r].version : r \in rowsOf(f)} = 1 .. n
  BY <1>1 DEF IInv, VersionsOK
<1>3. latest(f) = Max({0} \cup (1 .. n))
  BY <1>2 DEF latest, rowsOf
<1>4. n \in {0} \cup (1 .. n) /\ {0} \cup (1 .. n) \in SUBSET Int
  OBVIOUS
<1>5. \A x \in {0} \cup (1 .. n) : n >= x
  OBVIOUS
<1>6. Max({0} \cup (1 .. n)) = n
  BY <1>4, <1>5, MaxIs, Zenon
<1> QED
  BY <1>1, <1>3, <1>6

LEMMA RuleTyped ==
  ASSUME IInv, NEW r \in DOMAIN rule
  PROVE  /\ rule[r] \in Rule /\ r \in Nat
         /\ terms(r) \in RuleTerms
<1>1. rule[r] \in Rule /\ r \in Nat
  BY DEF IInv, RowsOK
<1>2. rule[r].family \in Family /\ rule[r].version \in 1 .. MaxRules
  BY <1>1 DEF Rule
<1> QED
  BY <1>1, <1>2, TermsAssumption DEF terms

\* What has been offered and quoted stays right.
LEMMA OffersKept ==
  ASSUME IInv, Grows
  PROVE  /\ \A o : OfferOK(o) => OfferOK(o)'
         /\ \A q : QuoteOK(q) => QuoteOK(q)'
<1>1. DOMAIN rule \subseteq DOMAIN rule' /\ DOMAIN zone \subseteq DOMAIN zone'
  BY DEF IInv, RowsOK, Grows
<1>2. ASSUME NEW o, OfferOK(o) PROVE OfferOK(o)'
  BY <1>1, <1>2 DEF OfferOK
<1>3. ASSUME NEW q, QuoteOK(q) PROVE QuoteOK(q)'
  <2>1. PICK r : r = q.rule
    OBVIOUS
  <2>2. r \in DOMAIN rule /\ r \in DOMAIN rule'
    BY <1>1, <1>3, <2>1 DEF QuoteOK
  <2>3. rule'[r].family = rule[r].family /\ rule'[r].version = rule[r].version
    BY <2>2 DEF Grows
  <2> QED
    BY <1>3, <2>1, <2>2, <2>3 DEF QuoteOK, terms
<1> QED
  BY <1>2, <1>3

\* The families only grow.
LEMMA FamiliesGrow ==
  ASSUME IInv, Grows, NEW f
  PROVE  /\ rowsOf(f) \subseteq rowsOf(f)'
         /\ Cardinality(rowsOf(f)) <= Cardinality(rowsOf(f)')
         /\ IsFiniteSet(rowsOf(f)') /\ Cardinality(rowsOf(f)') \in Nat
<1>1. DOMAIN rule \subseteq DOMAIN rule'
  BY DEF IInv, RowsOK, Grows
<1>2. PICK S : S = rowsOf(f)
  OBVIOUS
<1>3. PICK T : T = rowsOf(f)'
  OBVIOUS
<1>4. S \subseteq T
  BY <1>1, <1>2, <1>3 DEF rowsOf, Grows
<1>5. PICK n \in Nat : T \subseteq 1 .. n
  <2>1. Len(rule') \in Nat /\ DOMAIN rule' = 1 .. Len(rule')
    BY DEF Grows
  <2> QED
    BY <1>3, <2>1 DEF rowsOf
<1>6. IsFiniteSet(T)
  <2>1. IsFiniteSet(1 .. n)
    BY FS_Interval
  <2> QED
    BY <1>5, <2>1, FS_Subset
<1>7. Cardinality(S) <= Cardinality(T) /\ Cardinality(T) \in Nat
  BY <1>4, <1>6, FS_Subset, FS_CardinalityType
<1> QED
  BY <1>2, <1>3, <1>4, <1>6, <1>7

\* A request keeps what it may do, unless a rule it has not found is activated.
LEMMA EditKept ==
  ASSUME IInv, Grows, NEW e, EditOK(e),
         e.step = "switch" =>
            \A r \in DOMAIN rule' :
               rule'[r].zone = ruleZone(e) /\ rule'[r].status = "ACTIVE"
                 => r \in activeRules(ruleZone(e))
  PROVE  EditOK(e)'
<1>1. DOMAIN rule \subseteq DOMAIN rule' /\ DOMAIN zone \subseteq DOMAIN zone'
  BY DEF IInv, RowsOK, Grows
<1>2. ASSUME e.step = "create"
      PROVE  e.version <= Cardinality(rowsOf(e.family)') + 1
  <2>1. PICK f : f = e.family
    OBVIOUS
  <2>2. /\ Cardinality(rowsOf(f)) <= Cardinality(rowsOf(f)')
        /\ Cardinality(rowsOf(f)') \in Nat /\ Cardinality(rowsOf(f)) \in Nat
    BY FamiliesGrow, RuleCounts
  <2>3. e.version <= Cardinality(rowsOf(f)) + 1 /\ e.version \in Nat
    BY <1>2, <2>1, BoundAssumption DEF EditOK
  <2> QED
    BY <2>1, <2>2, <2>3
<1>3. ASSUME e.step = "switch"
      PROVE  activeRules(ruleZone(e))' \subseteq e.found \cup {e.rule}
  <2>1. PICK r : r = e.rule /\ r \in DOMAIN rule
    BY <1>3 DEF EditOK, EditStep
  <2>2. rule'[r].zone = rule[r].zone
    BY <2>1 DEF Grows
  <2>3. activeRules(ruleZone(e))' \subseteq activeRules(ruleZone(e))
    BY <1>3, <2>1, <2>2 DEF activeRules, ruleZone
  <2> QED
    BY <1>3, <2>3 DEF EditOK
<1>4. /\ e \in Edit' /\ e.error # "failed"
      /\ e.step = "create" => e.family \in Family /\ e.zone \in DOMAIN zone'
                               /\ e.version \in 1 .. MaxRules
      /\ e.step = "write" => e.zone \in DOMAIN zone' /\ e.version < MaxVersion
      /\ e.step \in EditStep \ {"idle", "create", "write"} => e.rule \in DOMAIN rule'
      /\ e.found \subseteq DOMAIN rule'
  BY <1>1 DEF EditOK
<1> QED
  BY <1>2, <1>3, <1>4 DEF EditOK

\* Beside a's request, no activation loses sight of a rule of its zone.
NothingStartsBeside(a) ==
    \A b \in Admin \ {a} : edit[b].step = "switch" =>
       \A r \in DOMAIN rule' :
          rule'[r].zone = ruleZone(edit[b]) /\ rule'[r].status = "ACTIVE"
            => r \in activeRules(ruleZone(edit[b]))

LEMMA QuotesKept ==
  ASSUME IInv, Grows, UNCHANGED <<quote, offer>>
  PROVE  QuotesOK' /\ OffersOK'
<1>1. quote' = quote /\ offer' = offer
  OBVIOUS
<1>2. QuotesOK /\ OffersOK
  BY DEF IInv
<1>3. ASSUME NEW q \in DOMAIN quote PROVE QuoteOK(quote[q])'
  <2>1. PICK row : row = quote[q]
    OBVIOUS
  <2>2. QuoteOK(row)
    BY <1>2, <2>1 DEF QuotesOK
  <2>3. QuoteOK(row)'
    BY <2>2, OffersKept
  <2> QED
    BY <1>1, <2>1, <2>3
<1>4. ASSUME NEW m \in Merchant PROVE OfferOK(offer[m])'
  <2>1. PICK o : o = offer[m]
    OBVIOUS
  <2>2. OfferOK(o)
    BY <1>2, <2>1 DEF OffersOK
  <2>3. OfferOK(o)'
    BY <2>2, OffersKept
  <2> QED
    BY <1>1, <2>1, <2>3
<1> QED
  BY <1>1, <1>2, <1>3, <1>4 DEF QuotesOK, OffersOK

\* A request that another one's step leaves alone.
LEMMA OtherKept ==
  ASSUME IInv, Grows, NEW a, NothingStartsBeside(a), NEW b \in Admin \ {a}
  PROVE  /\ \A e : e = edit[b] => EditOK(e)'
         /\ edit[b].step = "switch" => edit[b].rule \in DOMAIN rule
<1>1. PICK e : e = edit[b]
  OBVIOUS
<1>2. EditOK(e)
  BY <1>1 DEF IInv, EditsOK
<1>3. e.step = "switch" =>
         \A r \in DOMAIN rule' :
            rule'[r].zone = ruleZone(e) /\ rule'[r].status = "ACTIVE"
              => r \in activeRules(ruleZone(e))
  BY <1>1 DEF NothingStartsBeside
<1>4. EditOK(e)'
  BY <1>2, <1>3, EditKept
<1> QED
  BY <1>1, <1>2, <1>4 DEF EditOK, EditStep

\* The step of one request.
LEMMA RequestMoves ==
  ASSUME IInv, Grows, NEW a \in Admin, NEW e, edit' = [edit EXCEPT ![a] = e],
         EditOK(e)',
         e.step = "switch" => e.rule \in DOMAIN rule /\ unlocked(rule[e.rule].zone),
         NothingStartsBeside(a), RowsOK', OneActive', VersionsOK',
         UNCHANGED <<quote, offer>>
  PROVE  IInv'
<1>1. EditsOK /\ OneAtATime
  BY DEF IInv
<1>2. \A b \in Admin : edit'[b] = IF b = a THEN e ELSE edit[b]
  BY <1>1 DEF EditsOK
<1>3. EditsOK'
  <2>1. edit' = [b \in Admin |-> edit'[b]]
    BY <1>1 DEF EditsOK
  <2>2. ASSUME NEW b \in Admin PROVE EditOK(edit[b])'
    <3>1. PICK d : d = edit'[b]
      OBVIOUS
    <3>2. EditOK(d)'
      BY <1>2, <3>1, OtherKept
    <3> QED
      BY <3>1, <3>2
  <2> QED
    BY <2>1, <2>2 DEF EditsOK
<1>4. OneAtATime'
  <2> SUFFICES ASSUME NEW b \in Admin, NEW c \in Admin, b # c,
                      edit'[b].step = "switch", edit'[c].step = "switch",
                      ruleZone(edit[b])' = ruleZone(edit[c])'
               PROVE  FALSE
    BY DEF OneAtATime
  <2>1. edit'[b].rule \in DOMAIN rule /\ edit'[c].rule \in DOMAIN rule
    BY <1>2, OtherKept
  <2>2. rule[edit'[b].rule].zone = rule[edit'[c].rule].zone
    BY <2>1 DEF ruleZone, Grows
  <2>3. CASE b # a /\ c # a
    BY <1>1, <1>2, <2>2, <2>3 DEF OneAtATime, ruleZone
  <2>4. CASE b = a
    BY <1>2, <2>2, <2>4 DEF unlocked
  <2>5. CASE c = a
    BY <1>2, <2>2, <2>5 DEF unlocked
  <2> QED
    BY <2>3, <2>4, <2>5
<1> QED
  BY <1>3, <1>4, QuotesKept DEF IInv

\* The step of a request that leaves the rules alone.
LEMMA RequestReads ==
  ASSUME IInv, NEW a \in Admin, NEW e, edit' = [edit EXCEPT ![a] = e], EditOK(e),
         e.step = "switch" => e.rule \in DOMAIN rule /\ unlocked(rule[e.rule].zone),
         UNCHANGED <<zone, rule, quote, offer>>
  PROVE  IInv'
<1>1. zone' = zone /\ rule' = rule
  OBVIOUS
<1>2. RowsOK' /\ Grows
  BY <1>1 DEF IInv, RowsOK, Grows
<1>3. EditOK(e)'
  <2>1. \A f : rowsOf(f)' = rowsOf(f)
    BY <1>1 DEF rowsOf
  <2>2. activeRules(ruleZone(e))' = activeRules(ruleZone(e))
    BY <1>1 DEF activeRules, ruleZone
  <2>3. /\ e \in Edit' /\ e.error # "failed"
        /\ e.step = "create" => e.family \in Family /\ e.zone \in DOMAIN zone'
                                 /\ e.version \in 1 .. MaxRules
        /\ e.step = "create" => e.version <= Cardinality(rowsOf(e.family)') + 1
        /\ e.step = "write" => e.zone \in DOMAIN zone' /\ e.version < MaxVersion
        /\ e.step \in EditStep \ {"idle", "create", "write"} => e.rule \in DOMAIN rule'
        /\ e.found \subseteq DOMAIN rule'
    BY <1>1, <2>1 DEF EditOK
  <2>4. e.step = "switch" => activeRules(ruleZone(e))' \subseteq e.found \cup {e.rule}
    BY <2>2 DEF EditOK
  <2> QED
    BY <2>3, <2>4 DEF EditOK
<1>4. OneActive' /\ VersionsOK'
  <2>1. OneActive /\ VersionsOK
    BY DEF IInv
  <2>2. OneActive'
    BY <1>1, <2>1 DEF OneActive
  <2>3. \A f : rowsOf(f)' = rowsOf(f)
    BY <1>1 DEF rowsOf
  <2>4. VersionsOK'
    BY <1>1, <2>1, <2>3 DEF VersionsOK
  <2> QED
    BY <2>2, <2>4
<1>5. NothingStartsBeside(a)
  BY <1>1 DEF NothingStartsBeside, activeRules
<1> QED
  BY <1>2, <1>3, <1>4, <1>5, RequestMoves

\* A request that is over may do nothing, whatever there is.
LEMMA OverIsOK ==
  ASSUME NEW error \in Error \ {"failed"}
  PROVE  /\ EditOK([Idle EXCEPT !.error = error])
         /\ EditOK([Idle EXCEPT !.error = error])'
         /\ EditOK(Idle) /\ EditOK(Idle)'
         /\ [Idle EXCEPT !.error = error].step = "idle" /\ Idle.step = "idle"
<1> USE DEF Idle, None, Error
<1>1. Idle \in Edit /\ [Idle EXCEPT !.error = error] \in Edit
  BY DEF Edit, EditStep, ZoneColumns, Circle
<1>2. PICK e : e = [Idle EXCEPT !.error = error]
  OBVIOUS
<1>3. e \in Edit /\ e.step = "idle" /\ e.found = {} /\ e.error # "failed"
  BY <1>1, <1>2
<1>4. EditOK(e) /\ EditOK(e)'
  BY <1>3 DEF EditOK
<1>5. EditOK(Idle) /\ EditOK(Idle)'
  BY <1>1 DEF EditOK
<1> QED
  BY <1>2, <1>3, <1>4, <1>5

LEMMA ReplyStep ==
  ASSUME IInv, NEW a \in Admin, Reply(a), UNCHANGED <<zone, rule, quote, offer>>
  PROVE  IInv'
<1>1. PICK e : e = Idle
  OBVIOUS
<1>2. EditOK(e) /\ e.step = "idle"
  <2>1. "none" \in Error \ {"failed"}
    BY DEF Error
  <2>2. EditOK(Idle) /\ Idle.step = "idle"
    BY <2>1, OverIsOK
  <2> QED
    BY <1>1, <2>2
<1>3. edit' = [edit EXCEPT ![a] = e]
  BY <1>1 DEF Reply
<1> QED
  BY <1>2, <1>3, RequestReads

LEMMA FailStep ==
  ASSUME IInv, NEW a \in Admin, NEW error \in Error \ {"failed"}, Fail(a, error),
         UNCHANGED <<zone, rule, quote, offer>>
  PROVE  IInv'
<1>1. PICK e : e = [Idle EXCEPT !.error = error]
  OBVIOUS
<1>2. EditOK(e) /\ e.step = "idle"
  BY <1>1, OverIsOK
<1>3. edit' = [edit EXCEPT ![a] = e]
  BY <1>1 DEF Fail
<1> QED
  BY <1>2, <1>3, RequestReads

-----------------------------------------------------------------------------
(* The actions.                                                            *)

LEMMA LookUpFamilyStep ==
  ASSUME IInv, NEW a \in Admin, LookUpFamily(a)
  PROVE  IInv'
<1>1. PICK f \in Family, z \in DOMAIN zone :
        edit' = [edit EXCEPT ![a] = [Idle EXCEPT !.step = "create", !.family = f,
                                       !.zone = z, !.version = latest(f) + 1]]
  BY DEF LookUpFamily
<1>2. PICK n \in Nat : n = Cardinality(rowsOf(f))
  BY RuleCounts
<1>3. latest(f) = n /\ n <= Len(rule) /\ Len(rule) < MaxRules /\ Len(rule) \in Nat
  BY <1>2, LatestIsLast, RuleCounts DEF LookUpFamily, IInv, RowsOK
<1>4. n + 1 \in 1 .. MaxRules
  <2>1. MaxRules \in Nat
    BY BoundAssumption
  <2> QED
    BY <1>3, <2>1
<1>5. PICK e : e = [Idle EXCEPT !.step = "create", !.family = f, !.zone = z,
                                !.version = n + 1]
  OBVIOUS
<1>6. edit' = [edit EXCEPT ![a] = e]
  BY <1>1, <1>3, <1>5
<1>7. /\ e.step = "create" /\ e.family = f /\ e.zone = z /\ e.version = n + 1
      /\ e.found = {} /\ e.error = "none" /\ e.rule = None /\ e.written = Idle.written
      /\ e = [step |-> "create", rule |-> None, family |-> f, version |-> n + 1,
              zone |-> z, found |-> {}, written |-> Idle.written, error |-> "none"]
  BY <1>5 DEF Idle
<1>8. e \in Edit
  <2>1. z \in Nat
    BY DEF IInv, RowsOK
  <2>2. Idle.written \in ZoneColumns
    BY DEF Idle, ZoneColumns, Circle
  <2> QED
    BY <1>7, <2>1, <2>2 DEF Edit, EditStep, Error, None
<1>9. EditOK(e)
  BY <1>2, <1>4, <1>7, <1>8 DEF EditOK
<1> QED
  BY <1>6, <1>7, <1>9, RequestReads DEF LookUpFamily

\* A request about a rule takes its next step.
LEMMA RuleRequest ==
  ASSUME IInv, NEW r \in DOMAIN rule, NEW step \in {"lock", "deactivate", "find",
                                                     "archive", "delete"}
  PROVE  /\ EditOK([Idle EXCEPT !.step = step, !.rule = r])
         /\ [Idle EXCEPT !.step = step, !.rule = r].step = step
<1>1. PICK e : e = [Idle EXCEPT !.step = step, !.rule = r]
  OBVIOUS
<1>2. e = [step |-> step, rule |-> r, family |-> None, version |-> 0, zone |-> None,
           found |-> {}, written |-> Idle.written, error |-> "none"]
  BY <1>1 DEF Idle
<1>3. Idle.written \in ZoneColumns
  BY DEF Idle, ZoneColumns, Circle
<1>4. e \in Edit
  BY <1>2, <1>3, RuleTyped DEF Edit, EditStep, Error, None
<1>5. e.step = step /\ e.rule = r /\ e.found = {} /\ e.error = "none"
  BY <1>2
<1>6. EditOK(e)
  BY <1>4, <1>5 DEF EditOK
<1> QED
  BY <1>1, <1>5, <1>6

LEMMA FindRuleStep ==
  ASSUME IInv, NEW a \in Admin, FindRule(a)
  PROVE  IInv'
<1>1. PICK r \in DOMAIN rule, kind \in DOMAIN next(1) :
        IF next(r)[kind] = "conflict" THEN Reply(a)
        ELSE edit' = [edit EXCEPT ![a] = [Idle EXCEPT !.step = next(r)[kind],
                                                      !.rule = r]]
  BY DEF FindRule
<1>2. CASE next(r)[kind] = "conflict"
  BY <1>1, <1>2, ReplyStep DEF FindRule
<1>3. CASE next(r)[kind] # "conflict"
  <2>1. PICK step : step = next(r)[kind]
    OBVIOUS
  <2>2. step \in {"lock", "deactivate", "find", "archive", "delete"}
    BY <1>3, <2>1 DEF next
  <2>3. PICK e : e = [Idle EXCEPT !.step = step, !.rule = r]
    OBVIOUS
  <2>4. EditOK(e) /\ e.step # "switch"
    BY <2>2, <2>3, RuleRequest
  <2>5. edit' = [edit EXCEPT ![a] = e]
    BY <1>1, <1>3, <2>1, <2>3
  <2> QED
    BY <2>4, <2>5, RequestReads DEF FindRule
<1> QED
  BY <1>2, <1>3

\* A request goes on about its rule.
LEMMA RequestGoesOn ==
  ASSUME IInv, NEW a \in Admin, edit[a].rule \in DOMAIN rule,
         NEW step \in {"switch", "archive"}, NEW found,
         found \subseteq DOMAIN rule,
         step = "switch" => activeRules(rule[edit[a].rule].zone)
                              \subseteq found \cup {edit[a].rule}
  PROVE  /\ EditOK([edit[a] EXCEPT !.step = step, !.found = found])
         /\ [edit[a] EXCEPT !.step = step, !.found = found].step = step
         /\ [edit[a] EXCEPT !.step = step, !.found = found].rule = edit[a].rule
<1>1. PICK d : d = edit[a]
  OBVIOUS
<1>2. EditOK(d) /\ d \in Edit
  BY <1>1 DEF IInv, EditsOK, EditOK
<1>3. PICK e : e = [d EXCEPT !.step = step, !.found = found]
  OBVIOUS
<1>4. found \in SUBSET Nat
  BY RuleTyped
<1>5. e = [step |-> step, rule |-> d.rule, family |-> d.family, version |-> d.version,
           zone |-> d.zone, found |-> found, written |-> d.written, error |-> d.error]
  BY <1>2, <1>3 DEF Edit
<1>6. e \in Edit
  BY <1>2, <1>4, <1>5 DEF Edit, EditStep
<1>7. e.step = step /\ e.rule = d.rule /\ e.found = found /\ e.error = d.error
  BY <1>5
<1>8. EditOK(e)
  BY <1>1, <1>2, <1>6, <1>7 DEF EditOK, ruleZone
<1> QED
  BY <1>1, <1>3, <1>7, <1>8

\* A request that is about a rule.
LEMMA AboutRule ==
  ASSUME IInv, NEW a \in Admin, edit[a].step \in EditStep \ {"idle", "create", "write"}
  PROVE  edit[a].rule \in DOMAIN rule /\ edit[a].rule \in Nat
<1>1. EditOK(edit[a])
  BY DEF IInv, EditsOK
<1> QED
  BY <1>1, RuleTyped DEF EditOK

LEMMA LockZoneStep ==
  ASSUME IInv, NEW a \in Admin, LockZone(a)
  PROVE  IInv'
<1>1. PICK r : r = edit[a].rule
  OBVIOUS
<1>2. r \in DOMAIN rule
  BY <1>1, AboutRule DEF LockZone, EditStep
<1>3. PICK found : found = activeRules(rule[r].zone) \ {r}
  OBVIOUS
<1>4. found \subseteq DOMAIN rule /\ activeRules(rule[r].zone) \subseteq found \cup {r}
  BY <1>3 DEF activeRules
<1>5. PICK e : e = [edit[a] EXCEPT !.step = "switch", !.found = found]
  OBVIOUS
<1>6. EditOK(e) /\ e.rule = r
  BY <1>1, <1>2, <1>4, <1>5, RequestGoesOn
<1>7. edit' = [edit EXCEPT ![a] = e]
  BY <1>1, <1>3, <1>5 DEF LockZone, IInv, EditsOK
<1>8. unlocked(rule[r].zone)
  BY <1>1 DEF LockZone
<1> QED
  BY <1>2, <1>6, <1>7, <1>8, RequestReads DEF LockZone

LEMMA FindArchivedStep ==
  ASSUME IInv, NEW a \in Admin, FindArchived(a)
  PROVE  IInv'
<1>1. CASE Reply(a)
  BY <1>1, ReplyStep DEF FindArchived
<1>2. CASE Goto(a, "archive")
  <2>1. edit[a].rule \in DOMAIN rule
    BY AboutRule DEF FindArchived, EditStep
  <2>2. edit[a] \in Edit /\ edit[a].found \subseteq DOMAIN rule
    BY DEF IInv, EditsOK, EditOK
  <2>3. PICK e : e = [edit[a] EXCEPT !.step = "archive", !.found = edit[a].found]
    OBVIOUS
  <2>4. EditOK(e) /\ e.step = "archive"
    BY <2>1, <2>2, <2>3, RequestGoesOn
  <2>5. e = [edit[a] EXCEPT !.step = "archive"]
    BY <2>2, <2>3 DEF Edit
  <2>6. edit' = [edit EXCEPT ![a] = e]
    BY <1>2, <2>5 DEF Goto, IInv, EditsOK
  <2> QED
    BY <2>4, <2>6, RequestReads DEF FindArchived
<1> QED
  BY <1>1, <1>2 DEF FindArchived

LEMMA DeleteRuleStep ==
  ASSUME IInv, NEW a \in Admin, DeleteRule(a)
  PROVE  IInv'
<1>1. CASE Reply(a)
  BY <1>1, ReplyStep DEF DeleteRule
<1>2. CASE Fail(a, "immutable")
  BY <1>2, FailStep DEF DeleteRule, Error
<1> QED
  BY <1>1, <1>2 DEF DeleteRule

\* What an update is going to write, once it has read the row.
LEMMA PrepareStep ==
  ASSUME IInv, NEW a \in Admin, NEW z \in DOMAIN zone, zone[z].version < MaxVersion,
         NEW given \in Given, Prepare(a, z, given),
         UNCHANGED <<zone, rule, quote, offer>>
  PROVE  IInv'
<1>1. CASE Reply(a)
  BY <1>1, ReplyStep
<1>2. CASE edit' = [edit EXCEPT ![a] = [Idle EXCEPT !.step = "write", !.zone = z,
                      !.version = zone[z].version, !.written = written(z, given)]]
  <2>1. zone[z] \in Zone /\ z \in Nat
    BY DEF IInv, RowsOK
  <2>2. zone[z].circle \in Circle /\ zone[z].status \in {"ACTIVE", "INACTIVE"}
        /\ zone[z].version \in Nat
    BY <2>1, BoundAssumption DEF Zone
  <2>3. PICK columns : columns = written(z, given)
    OBVIOUS
  <2>4. columns \in ZoneColumns
    BY <2>2, <2>3 DEF written, ZoneColumns, Given
  <2>5. PICK e : e = [Idle EXCEPT !.step = "write", !.zone = z,
                        !.version = zone[z].version, !.written = columns]
    OBVIOUS
  <2>6. e = [step |-> "write", rule |-> None, family |-> None,
             version |-> zone[z].version, zone |-> z, found |-> {},
             written |-> columns, error |-> "none"]
    BY <2>5 DEF Idle
  <2>7. e \in Edit
    BY <2>1, <2>2, <2>4, <2>6 DEF Edit, EditStep, Error, None
  <2>8. EditOK(e) /\ e.step = "write"
    BY <2>6, <2>7 DEF EditOK
  <2>9. edit' = [edit EXCEPT ![a] = e]
    BY <1>2, <2>3, <2>5
  <2> QED
    BY <2>8, <2>9, RequestReads
<1> QED
  BY <1>1, <1>2 DEF Prepare

LEMMA ReadZoneStep ==
  ASSUME IInv, NEW a \in Admin, ReadZone(a)
  PROVE  IInv'
BY PrepareStep DEF ReadZone

LEMMA ReadZoneStatusStep ==
  ASSUME IInv, NEW a \in Admin, ReadZoneStatus(a)
  PROVE  IInv'
<1>1. PICK z \in DOMAIN zone, s \in {"ACTIVE", "INACTIVE"} :
        \/ Reply(a)
        \/ /\ zone[z].version < MaxVersion
           /\ Prepare(a, z, [circle |-> Same, status |-> s])
  BY DEF ReadZoneStatus
<1>2. PICK given : given = [circle |-> Same, status |-> s]
  OBVIOUS
<1>3. given \in Given
  BY <1>2 DEF Given
<1>4. CASE Reply(a)
  BY <1>4, ReplyStep DEF ReadZoneStatus
<1>5. CASE zone[z].version < MaxVersion /\ Prepare(a, z, given)
  BY <1>3, <1>5, PrepareStep DEF ReadZoneStatus
<1> QED
  BY <1>1, <1>2, <1>4, <1>5

\* When the rules stay as they are, so does what is known of them.
LEMMA RulesStay ==
  ASSUME IInv, rule' = rule, zone' \in Seq(Zone), Len(zone') >= Len(zone),
         Len(zone') <= MaxZones
  PROVE  /\ Grows /\ RowsOK' /\ OneActive' /\ VersionsOK'
         /\ \A a : NothingStartsBeside(a)
<1>1. RowsOK /\ OneActive /\ VersionsOK
  BY DEF IInv
<1>2. Grows
  BY <1>1 DEF RowsOK, Grows
<1>3. Len(zone') \in 1 .. MaxZones
  <2>1. Len(zone') \in Nat /\ Len(zone) \in Nat /\ MaxZones \in Nat /\ Len(zone) >= 1
    BY <1>1, BoundAssumption DEF RowsOK
  <2> QED
    BY <2>1
<1>4. RowsOK'
  BY <1>1, <1>3 DEF RowsOK
<1>5. OneActive'
  BY <1>1 DEF OneActive
<1>6. \A f : rowsOf(f)' = rowsOf(f)
  BY DEF rowsOf
<1>7. VersionsOK'
  BY <1>1, <1>6 DEF VersionsOK
<1>8. \A a : NothingStartsBeside(a)
  BY DEF NothingStartsBeside, activeRules
<1> QED
  BY <1>2, <1>4, <1>5, <1>7, <1>8

\* A request that has written is over.
LEMMA Replies ==
  ASSUME IInv, Grows, NEW a \in Admin, Reply(a), NothingStartsBeside(a),
         RowsOK', OneActive', VersionsOK', UNCHANGED <<quote, offer>>
  PROVE  IInv'
<1>1. PICK e : e = Idle
  OBVIOUS
<1>2. EditOK(e)' /\ e.step = "idle"
  <2>1. "none" \in Error \ {"failed"}
    BY DEF Error
  <2>2. EditOK(Idle)' /\ Idle.step = "idle"
    BY <2>1, OverIsOK
  <2> QED
    BY <1>1, <2>2
<1>3. edit' = [edit EXCEPT ![a] = e]
  BY <1>1 DEF Reply
<1> QED
  BY <1>2, <1>3, RequestMoves

LEMMA WriteZoneStep ==
  ASSUME IInv, NEW a \in Admin, WriteZone(a)
  PROVE  IInv'
<1>1. CASE zone' = zone
  BY <1>1, ReplyStep DEF WriteZone
<1>2. CASE zone' # zone
  <2>1. PICK z : z = edit[a].zone
    OBVIOUS
  <2>2. EditOK(edit[a]) /\ edit[a] \in Edit
    BY DEF IInv, EditsOK, EditOK
  <2>3. z \in DOMAIN zone /\ edit[a].written \in ZoneColumns
    BY <2>1, <2>2 DEF EditOK, Edit, WriteZone
  <2>4. stillAsSeen(a) /\ zone[z] \in Zone
    BY <1>2, <2>1, <2>3 DEF WriteZone, IInv, RowsOK
  <2>5. PICK row : row = [circle |-> edit[a].written.circle,
                          status |-> edit[a].written.status,
                          version |-> zone[z].version + 1]
    OBVIOUS
  <2>6. zone' = [zone EXCEPT ![z] = row]
    BY <1>2, <2>1, <2>3, <2>5 DEF WriteZone
  <2>7. row \in Zone
    <3>1. zone[z].version \in 1 .. MaxVersion /\ zone[z].version < MaxVersion
      BY <2>1, <2>2, <2>4 DEF EditOK, WriteZone, stillAsSeen, Zone
    <3>2. zone[z].version + 1 \in 1 .. MaxVersion
      BY <3>1, BoundAssumption
    <3> QED
      BY <2>3, <2>5, <3>2 DEF Zone, ZoneColumns
  <2>8. zone' \in Seq(Zone) /\ Len(zone') = Len(zone) /\ Len(zone) \in 1 .. MaxZones
    BY <2>3, <2>6, <2>7, ExceptSeq DEF IInv, RowsOK
  <2>9. Len(zone') >= Len(zone) /\ Len(zone') <= MaxZones
    BY <2>8, BoundAssumption
  <2>10. Reply(a) /\ rule' = rule
    BY <1>2 DEF WriteZone
  <2>11. /\ Grows /\ RowsOK' /\ OneActive' /\ VersionsOK' /\ NothingStartsBeside(a)
    BY <2>8, <2>9, <2>10, RulesStay
  <2> QED
    BY <2>10, <2>11, Replies DEF WriteZone
<1> QED
  BY <1>1, <1>2

LEMMA CreateZoneStep ==
  ASSUME IInv, CreateZone
  PROVE  IInv'
<1>1. PICK row : zone' = Append(zone, row) /\ row \in Zone
  BY BoundAssumption DEF CreateZone, Zone
<1>2. rule' = rule /\ quote' = quote /\ edit' = edit /\ offer' = offer
  BY DEF CreateZone
<1>3. zone \in Seq(Zone) /\ Len(zone) \in Nat
  BY DEF IInv, RowsOK
<1>4. zone' \in Seq(Zone) /\ Len(zone') = Len(zone) + 1
  BY <1>1, <1>3, AppendProperties
<1>5. Len(zone') >= Len(zone) /\ Len(zone') <= MaxZones
  BY <1>3, <1>4, BoundAssumption DEF CreateZone
<1>6. /\ Grows /\ RowsOK' /\ OneActive' /\ VersionsOK'
      /\ \A a : NothingStartsBeside(a)
  BY <1>2, <1>4, <1>5, RulesStay
<1>7. EditsOK'
  <2>1. EditsOK
    BY DEF IInv
  <2>2. ASSUME NEW a \in Admin PROVE EditOK(edit[a])'
    <3>1. PICK e : e = edit[a]
      OBVIOUS
    <3>2. EditOK(e)
      BY <2>1, <3>1 DEF EditsOK
    <3>3. e.step = "switch" =>
            \A r \in DOMAIN rule' :
               rule'[r].zone = ruleZone(e) /\ rule'[r].status = "ACTIVE"
                 => r \in activeRules(ruleZone(e))
      BY <1>2 DEF activeRules
    <3>4. EditOK(e)'
      BY <1>6, <3>2, <3>3, EditKept
    <3> QED
      BY <1>2, <3>1, <3>4
  <2> QED
    BY <1>2, <2>1, <2>2 DEF EditsOK
<1>8. OneAtATime'
  BY <1>2 DEF IInv, OneAtATime, ruleZone
<1> QED
  BY <1>2, <1>6, <1>7, <1>8, QuotesKept DEF IInv

\* Only the status of rules changes.
StatusesChange ==
    /\ zone' = zone /\ rule' \in Seq(Rule) /\ Len(rule') = Len(rule)
    /\ \A r \in DOMAIN rule :
          /\ rule'[r].zone = rule[r].zone /\ rule'[r].family = rule[r].family
          /\ rule'[r].version = rule[r].version

LEMMA OnlyStatuses ==
  ASSUME IInv, StatusesChange
  PROVE  Grows /\ RowsOK' /\ VersionsOK' /\ DOMAIN rule' = DOMAIN rule
<1>1. RowsOK /\ VersionsOK
  BY DEF IInv
<1>2. DOMAIN rule' = DOMAIN rule /\ Len(rule) \in Nat /\ Len(zone) \in 1 .. MaxZones
      /\ MaxZones \in Nat
  BY <1>1, BoundAssumption DEF RowsOK, StatusesChange
<1>3. Grows
  BY <1>1, <1>2 DEF RowsOK, StatusesChange, Grows
<1>4. RowsOK'
  BY <1>1, <1>2 DEF RowsOK, StatusesChange
<1>5. ASSUME NEW f \in Family
      PROVE  {rule[r].version : r \in rowsOf(f)}' = 1 .. Cardinality(rowsOf(f)')
  <2>1. rowsOf(f)' = rowsOf(f)
    BY <1>2 DEF rowsOf, StatusesChange
  <2>2. \A r \in rowsOf(f) : rule'[r].version = rule[r].version
    BY DEF rowsOf, StatusesChange
  <2>3. {rule'[r].version : r \in rowsOf(f)} = {rule[r].version : r \in rowsOf(f)}
    BY <2>2
  <2>4. {rule[r].version : r \in rowsOf(f)} = 1 .. Cardinality(rowsOf(f))
    BY <1>1 DEF VersionsOK
  <2> QED
    BY <2>1, <2>3, <2>4
<1>6. VersionsOK'
  BY <1>5 DEF VersionsOK
<1> QED
  BY <1>2, <1>3, <1>4, <1>6

\* One rule is stopped: it is written whatever it has become.
LEMMA StopStep ==
  ASSUME IInv, NEW a \in Admin, NEW r \in DOMAIN rule,
         NEW status \in {"INACTIVE", "RETIRED"},
         rule' = [rule EXCEPT ![r].status = status], Reply(a),
         UNCHANGED <<zone, quote, offer>>
  PROVE  IInv'
<1>1. RowsOK /\ OneActive
  BY DEF IInv
<1>2. PICK row : row = [rule[r] EXCEPT !.status = status]
  OBVIOUS
<1>3. /\ row \in Rule /\ row.status = status /\ row.zone = rule[r].zone
      /\ row.family = rule[r].family /\ row.version = rule[r].version
  BY <1>2, RuleTyped DEF Rule
<1>4. rule' = [rule EXCEPT ![r] = row]
  BY <1>2
<1>5. /\ rule' \in Seq(Rule) /\ Len(rule') = Len(rule)
      /\ \A s \in DOMAIN rule : rule'[s] = IF s = r THEN row ELSE rule[s]
  <2>1. rule \in Seq(Rule) /\ r \in 1 .. Len(rule) /\ DOMAIN rule = 1 .. Len(rule)
    BY <1>1 DEF RowsOK
  <2>2. PICK rows : rows = [rule EXCEPT ![r] = row]
    OBVIOUS
  <2>3. /\ rows \in Seq(Rule) /\ Len(rows) = Len(rule)
        /\ \A s \in 1 .. Len(rule) : rows[s] = IF s = r THEN row ELSE rule[s]
    BY <1>3, <2>1, <2>2, ExceptSeq
  <2> QED
    BY <1>4, <2>1, <2>2, <2>3
<1>6. StatusesChange
  BY <1>3, <1>5 DEF StatusesChange
<1>7. Grows /\ RowsOK' /\ VersionsOK' /\ DOMAIN rule' = DOMAIN rule
  BY <1>6, OnlyStatuses
<1>8. \A s \in DOMAIN rule : rule'[s].status = "ACTIVE" => rule[s].status = "ACTIVE"
  BY <1>3, <1>5
<1>9. OneActive'
  BY <1>1, <1>6, <1>7, <1>8 DEF OneActive, StatusesChange
<1>10. NothingStartsBeside(a)
  BY <1>6, <1>7, <1>8 DEF NothingStartsBeside, activeRules, StatusesChange
<1> QED
  BY <1>7, <1>9, <1>10, Replies

LEMMA SetInactiveStep ==
  ASSUME IInv, NEW a \in Admin, SetInactive(a)
  PROVE  IInv'
<1>1. PICK r : r = edit[a].rule /\ r \in DOMAIN rule
  BY AboutRule DEF SetInactive, EditStep
<1> QED
  BY <1>1, StopStep DEF SetInactive

LEMMA ArchiveRuleStep ==
  ASSUME IInv, NEW a \in Admin, ArchiveRule(a)
  PROVE  IInv'
<1>1. PICK r : r = edit[a].rule /\ r \in DOMAIN rule
  BY AboutRule DEF ArchiveRule, EditStep
<1> QED
  BY <1>1, StopStep DEF ArchiveRule

\* An activation finds no other rule that is active, hence never fails.
LEMMA SetActiveStep ==
  ASSUME IInv, NEW a \in Admin, SetActive(a)
  PROVE  IInv'
<1>1. PICK r : r = edit[a].rule /\ r \in DOMAIN rule
  BY AboutRule DEF SetActive, EditStep
<1>2. PICK found : found = edit[a].found
  OBVIOUS
<1>3. activeRules(rule[r].zone) \subseteq found \cup {r}
  BY <1>1, <1>2 DEF IInv, EditsOK, EditOK, SetActive, ruleZone
<1>4. mayBeActive(r, found)
  BY <1>3 DEF mayBeActive
<1>5. /\ rule' = [s \in DOMAIN rule |->
                    [rule[s] EXCEPT !.status = CASE s = r -> "ACTIVE"
                                                 [] s \in found -> "INACTIVE"
                                                 [] OTHER -> @]]
      /\ Reply(a) /\ UNCHANGED <<zone, quote, offer>>
  BY <1>1, <1>2, <1>4 DEF SetActive
<1>6. RowsOK /\ OneActive /\ OneAtATime
  BY DEF IInv
<1>7. ASSUME NEW s \in DOMAIN rule
      PROVE  /\ rule'[s] \in Rule /\ rule'[s].zone = rule[s].zone
             /\ rule'[s].family = rule[s].family /\ rule'[s].version = rule[s].version
             /\ rule'[s].status = "ACTIVE"
                  => s = r \/ (rule[s].status = "ACTIVE" /\ s \notin found)
  <2>1. PICK status : status = CASE s = r -> "ACTIVE"
                                 [] s \in found -> "INACTIVE"
                                 [] OTHER -> rule[s].status
    OBVIOUS
  <2>2. rule'[s] = [rule[s] EXCEPT !.status = status]
    BY <1>5, <2>1
  <2>3. rule[s] \in Rule
    BY RuleTyped
  <2>4. /\ status \in {"DRAFT", "ACTIVE", "INACTIVE", "RETIRED"}
        /\ status = "ACTIVE" => s = r \/ (rule[s].status = "ACTIVE" /\ s \notin found)
    BY <2>1, <2>3 DEF Rule
  <2> QED
    BY <2>2, <2>3, <2>4 DEF Rule
<1>8. rule' \in Seq(Rule) /\ Len(rule') = Len(rule)
  <2>1. PICK n \in Nat : n = Len(rule) /\ DOMAIN rule = 1 .. n
    BY <1>6 DEF RowsOK
  <2>2. DOMAIN rule' = 1 .. n /\ rule' = [s \in 1 .. n |-> rule'[s]]
    BY <1>5, <2>1
  <2> QED
    BY <1>7, <2>1, <2>2
<1>9. StatusesChange
  BY <1>5, <1>7, <1>8 DEF StatusesChange
<1>10. Grows /\ RowsOK' /\ VersionsOK' /\ DOMAIN rule' = DOMAIN rule
  BY <1>9, OnlyStatuses
<1>11. ASSUME NEW s \in DOMAIN rule, s # r, rule'[s].status = "ACTIVE"
       PROVE  rule[s].status = "ACTIVE" /\ rule[s].zone # rule[r].zone
  BY <1>3, <1>7, <1>11 DEF activeRules
<1>12. OneActive'
  BY <1>1, <1>6, <1>7, <1>10, <1>11 DEF OneActive
<1>13. NothingStartsBeside(a)
  <2> SUFFICES ASSUME NEW b \in Admin \ {a}, edit[b].step = "switch",
                      NEW s \in DOMAIN rule',
                      rule'[s].zone = ruleZone(edit[b]), rule'[s].status = "ACTIVE"
               PROVE  s \in activeRules(ruleZone(edit[b]))
    BY DEF NothingStartsBeside
  <2>1. ruleZone(edit[b]) # rule[r].zone
    BY <1>1, <1>6 DEF OneAtATime, ruleZone, SetActive
  <2>2. s \in DOMAIN rule /\ s # r
    BY <1>1, <1>7, <1>10, <2>1
  <2> QED
    BY <1>7, <1>11, <2>2 DEF activeRules
<1> QED
  BY <1>5, <1>10, <1>12, <1>13, Replies

\* A version that is not taken is the next one.
LEMMA CreateRuleStep ==
  ASSUME IInv, NEW a \in Admin, CreateRule(a)
  PROVE  IInv'
<1>1. CASE ~versionIsFree(edit[a].family, edit[a].version)
  BY <1>1, FailStep DEF CreateRule, Error
<1>2. CASE versionIsFree(edit[a].family, edit[a].version)
  <2>1. PICK f : f = edit[a].family
    OBVIOUS
  <2>2. PICK v : v = edit[a].version
    OBVIOUS
  <2>3. PICK row : row = [zone |-> edit[a].zone, family |-> f, version |-> v,
                          status |-> "DRAFT"]
    OBVIOUS
  <2>4. rule' = Append(rule, row) /\ Reply(a) /\ UNCHANGED <<zone, quote, offer>>
    BY <1>2, <2>1, <2>2, <2>3 DEF CreateRule
  <2>5. PICK k \in Nat : k = Cardinality(rowsOf(f))
    BY RuleCounts
  <2>6. f \in Family /\ edit[a].zone \in DOMAIN zone /\ v \in 1 .. MaxRules /\ v <= k + 1
    BY <2>1, <2>2, <2>5 DEF IInv, EditsOK, EditOK, CreateRule
  <2>7. RowsOK /\ OneActive /\ VersionsOK
    BY DEF IInv
  <2>8. row \in Rule
    <3>1. edit[a].zone \in 0 .. MaxZones
      BY <2>6, <2>7, BoundAssumption DEF RowsOK
    <3> QED
      BY <2>3, <2>6, <3>1 DEF Rule
  <2>9. PICK n \in Nat : n = Len(rule) /\ DOMAIN rule = 1 .. n
    BY <2>7 DEF RowsOK
  <2>10. /\ rule' \in Seq(Rule) /\ Len(rule') = n + 1 /\ DOMAIN rule' = 1 .. n + 1
         /\ \A r \in 1 .. n : rule'[r] = rule[r]
         /\ rule'[n + 1] = row
    BY <2>4, <2>7, <2>8, <2>9, AppendProperties DEF RowsOK
  <2>11. Grows
    BY <2>4, <2>7, <2>9, <2>10 DEF Grows, RowsOK
  <2>12. RowsOK'
    BY <2>4, <2>7, <2>10 DEF RowsOK
  <2>13. \A r \in DOMAIN rule' : rule'[r].status = "ACTIVE"
                                   => r \in DOMAIN rule /\ rule'[r] = rule[r]
    BY <2>3, <2>9, <2>10
  <2>14. OneActive'
    BY <2>7, <2>13 DEF OneActive
  <2>15. NothingStartsBeside(a)
    BY <2>13 DEF NothingStartsBeside, activeRules
  <2>16. v = k + 1
    <3>1. {rule[r].version : r \in rowsOf(f)} = 1 .. k
      BY <2>5, <2>6, <2>7 DEF VersionsOK
    <3>2. v \notin 1 .. k
      BY <1>2, <2>1, <2>2, <3>1 DEF versionIsFree, rowsOf
    <3> QED
      BY <2>6, <3>2, BoundAssumption
  <2>17. ASSUME NEW g \in Family
         PROVE  {rule[r].version : r \in rowsOf(g)}' = 1 .. Cardinality(rowsOf(g)')
    <3>1. {rule[r].version : r \in rowsOf(g)} = 1 .. Cardinality(rowsOf(g))
      BY <2>7 DEF VersionsOK
    <3>2. CASE g # f
      <4>1. rowsOf(g)' = rowsOf(g)
        BY <2>3, <2>9, <2>10, <3>2 DEF rowsOf
      <4>2. \A r \in rowsOf(g) : rule'[r].version = rule[r].version
        BY <2>9, <2>10 DEF rowsOf
      <4>3. {rule'[r].version : r \in rowsOf(g)} = {rule[r].version : r \in rowsOf(g)}
        BY <4>2
      <4> QED
        BY <3>1, <4>1, <4>3
    <3>3. CASE g = f
      <4>1. PICK S : S = rowsOf(f)
        OBVIOUS
      <4>2. rowsOf(f)' = S \cup {n + 1} /\ n + 1 \notin S
        BY <2>3, <2>9, <2>10, <4>1 DEF rowsOf
      <4>3. IsFiniteSet(S) /\ Cardinality(S) = k
        BY <2>5, <4>1, RuleCounts
      <4>4. Cardinality(S \cup {n + 1}) = k + 1
        BY <4>2, <4>3, FS_AddElement
      <4>5. \A r \in S : rule'[r].version = rule[r].version
        BY <2>9, <2>10, <4>1 DEF rowsOf
      <4>6. rule'[n + 1].version = k + 1
        BY <2>3, <2>10, <2>16
      <4>7. {rule[r].version : r \in S} = 1 .. k
        BY <2>5, <3>1, <3>3, <4>1
      <4>8. {rule'[r].version : r \in S \cup {n + 1}} = (1 .. k) \cup {k + 1}
        BY <4>5, <4>6, <4>7
      <4>9. (1 .. k) \cup {k + 1} = 1 .. k + 1
        OBVIOUS
      <4> QED
        BY <3>3, <4>2, <4>4, <4>8, <4>9
    <3> QED
      BY <3>2, <3>3
  <2>18. VersionsOK'
    BY <2>17 DEF VersionsOK
  <2> QED
    BY <2>4, <2>11, <2>12, <2>14, <2>15, <2>18, Replies
<1> QED
  BY <1>1, <1>2

\* The rules and the requests about them stay when a quote is asked for.
LEMMA AdminsRest ==
  ASSUME IInv, UNCHANGED <<zone, rule, edit>>
  PROVE  RowsOK' /\ EditsOK' /\ OneAtATime' /\ OneActive' /\ VersionsOK'
<1>1. zone' = zone /\ rule' = rule /\ edit' = edit
  OBVIOUS
<1>2. zone \in Seq(Zone) /\ Len(zone) \in Nat /\ Len(zone) <= MaxZones
  BY BoundAssumption DEF IInv, RowsOK
<1>3. Grows /\ RowsOK' /\ OneActive' /\ VersionsOK'
  BY <1>1, <1>2, RulesStay
<1>4. EditsOK
  BY DEF IInv
<1>5. ASSUME NEW a \in Admin PROVE EditOK(edit[a])'
  <2>1. PICK e : e = edit[a]
    OBVIOUS
  <2>2. EditOK(e)
    BY <1>4, <2>1 DEF EditsOK
  <2>3. e.step = "switch" =>
          \A r \in DOMAIN rule' :
             rule'[r].zone = ruleZone(e) /\ rule'[r].status = "ACTIVE"
               => r \in activeRules(ruleZone(e))
    BY <1>1 DEF activeRules
  <2>4. EditOK(e)'
    BY <1>3, <2>2, <2>3, EditKept
  <2> QED
    BY <1>1, <2>1, <2>4
<1>6. EditsOK'
  BY <1>1, <1>4, <1>5 DEF EditsOK
<1>7. OneAtATime'
  BY <1>1 DEF IInv, OneAtATime, ruleZone
<1> QED
  BY <1>3, <1>6, <1>7

LEMMA ResolvePriceStep ==
  ASSUME IInv, NEW m \in Merchant, ResolvePrice(m)
  PROVE  IInv'
<1>1. zone' = zone /\ rule' = rule /\ edit' = edit /\ quote' = quote
  BY DEF ResolvePrice
<1>2. PICK parcel \in Parcel :
        /\ candidates(parcel) # {}
        /\ \E r \in resolve(Min(candidates(parcel))) :
              offer' = [offer EXCEPT ![m] = [zone |-> Min(candidates(parcel)),
                                             rule |-> r, parcel |-> parcel]]
  BY DEF ResolvePrice
<1>3. PICK z : z = Min(candidates(parcel))
  OBVIOUS
<1>4. PICK r \in resolve(z) :
        offer' = [offer EXCEPT ![m] = [zone |-> z, rule |-> r, parcel |-> parcel]]
  BY <1>2, <1>3
<1>5. z \in DOMAIN zone
  <2>1. candidates(parcel) \in SUBSET Nat
    BY DEF candidates, IInv, RowsOK
  <2>2. z \in candidates(parcel)
    BY <1>2, <1>3, <2>1, MinExists
  <2> QED
    BY <2>2 DEF candidates
<1>6. r \in DOMAIN rule
  BY DEF resolve, activeRules
<1>7. PICK new : new = [zone |-> z, rule |-> r, parcel |-> parcel]
  OBVIOUS
<1>8. OfferOK(new)
  BY <1>5, <1>6, <1>7 DEF OfferOK
<1>9. QuotesOK /\ OffersOK
  BY DEF IInv
<1>10. \A n \in Merchant : offer'[n] = IF n = m THEN new ELSE offer[n]
  BY <1>4, <1>7, <1>9 DEF OffersOK
<1>11. \A o : OfferOK(o)' = OfferOK(o)
  BY <1>1 DEF OfferOK
<1>12. OffersOK'
  <2>1. offer' = [n \in Merchant |-> offer'[n]]
    BY <1>4, <1>9 DEF OffersOK
  <2>2. ASSUME NEW n \in Merchant PROVE OfferOK(offer[n])'
    <3>1. PICK o : o = offer'[n]
      OBVIOUS
    <3>2. OfferOK(o)
      BY <1>8, <1>9, <1>10, <3>1 DEF OffersOK
    <3> QED
      BY <1>11, <3>1, <3>2
  <2> QED
    BY <2>1, <2>2 DEF OffersOK
<1>13. QuotesOK'
  BY <1>1, <1>9 DEF QuotesOK, QuoteOK, terms
<1> QED
  BY <1>1, <1>12, <1>13, AdminsRest DEF IInv

LEMMA CreateQuoteStep ==
  ASSUME IInv, NEW m \in Merchant, CreateQuote(m)
  PROVE  IInv'
<1>1. zone' = zone /\ rule' = rule /\ edit' = edit
  BY DEF CreateQuote
<1>2. QuotesOK /\ OffersOK
  BY DEF IInv
<1>3. PICK o : o = offer[m]
  OBVIOUS
<1>4. o.rule \in DOMAIN rule /\ o.parcel \in Parcel
  BY <1>2, <1>3 DEF OffersOK, OfferOK, CreateQuote
<1>5. PICK row : row = [rule |-> o.rule, parcel |-> o.parcel, price |-> price(o)]
  OBVIOUS
<1>6. QuoteOK(row)
  BY <1>4, <1>5 DEF QuoteOK, price
<1>7. row \in Quote
  <2>1. terms(o.rule) \in RuleTerms /\ o.rule \in Nat
    BY <1>4, RuleTyped
  <2>2. price(o) \in {calculatePrice(t, p, Commission) : t \in RuleTerms, p \in Parcel}
    BY <1>4, <2>1 DEF price
  <2> QED
    BY <1>4, <1>5, <2>1, <2>2 DEF Quote
<1>8. quote' = Append(quote, row) /\ offer' = [offer EXCEPT ![m] = NoOffer]
      /\ Len(quote) < MaxQuotes
  BY <1>3, <1>5 DEF CreateQuote
<1>9. PICK n \in Nat : n = Len(quote) /\ DOMAIN quote = 1 .. n
  BY <1>2 DEF QuotesOK
<1>10. /\ quote' \in Seq(Quote) /\ Len(quote') = n + 1 /\ DOMAIN quote' = 1 .. n + 1
       /\ \A q \in 1 .. n : quote'[q] = quote[q]
       /\ quote'[n + 1] = row
  BY <1>2, <1>7, <1>8, <1>9, AppendProperties DEF QuotesOK
<1>11. \A d : QuoteOK(d)' = QuoteOK(d)
  BY <1>1 DEF QuoteOK, terms
<1>12. QuotesOK'
  <2>1. ASSUME NEW q \in DOMAIN quote' PROVE QuoteOK(quote[q])'
    <3>1. PICK d : d = quote'[q]
      OBVIOUS
    <3>2. QuoteOK(d)
      BY <1>2, <1>6, <1>9, <1>10, <3>1 DEF QuotesOK
    <3> QED
      BY <1>11, <3>1, <3>2
  <2>2. Len(quote') <= MaxQuotes
    BY <1>8, <1>9, <1>10, BoundAssumption
  <2> QED
    BY <1>10, <2>1, <2>2 DEF QuotesOK
<1>13. \A d : OfferOK(d)' = OfferOK(d)
  BY <1>1 DEF OfferOK
<1>14. OffersOK'
  <2>1. offer' = [k \in Merchant |-> offer'[k]]
    BY <1>2, <1>8 DEF OffersOK
  <2>2. ASSUME NEW k \in Merchant PROVE OfferOK(offer[k])'
    <3>1. PICK d : d = offer'[k]
      OBVIOUS
    <3>2. d = NoOffer \/ d = offer[k]
      BY <1>2, <1>8, <3>1 DEF OffersOK
    <3>3. OfferOK(d)
      BY <1>2, <3>2 DEF OffersOK, OfferOK
    <3> QED
      BY <1>13, <3>1, <3>3
  <2> QED
    BY <2>1, <2>2 DEF OffersOK
<1> QED
  BY <1>1, <1>12, <1>14, AdminsRest DEF IInv

-----------------------------------------------------------------------------
(* The invariant and the theorems.                                         *)

LEMMA InitIsOK == Init => IInv
<1> SUFFICES ASSUME Init PROVE IInv
  OBVIOUS
<1>1. PICK f \in Family, z \in {None, 1} :
        rule = <<[zone |-> z, family |-> f, version |-> 1, status |-> "ACTIVE"]>>
  BY DEF Init
<1>2. zone = <<[circle |-> "wide", status |-> "ACTIVE", version |-> 1]>>
  BY DEF Init
<1>b. /\ MaxZones \in Nat /\ MaxZones >= 1 /\ MaxRules \in Nat /\ MaxRules >= 1
      /\ MaxVersion \in Nat /\ MaxVersion >= 1 /\ MaxQuotes \in Nat
  BY BoundAssumption
<1>3. RowsOK
  <2>1. [circle |-> "wide", status |-> "ACTIVE", version |-> 1] \in Zone
    BY <1>b DEF Zone, Circle
  <2>2. [zone |-> z, family |-> f, version |-> 1, status |-> "ACTIVE"] \in Rule
    BY <1>b DEF Rule, None
  <2>3. zone \in Seq(Zone) /\ Len(zone) = 1
    BY <1>2, <2>1
  <2>4. rule \in Seq(Rule) /\ rule # <<>>
    BY <1>1, <2>2
  <2> QED
    BY <1>b, <2>3, <2>4 DEF RowsOK
<1>4. DOMAIN rule = {1} /\ rule[1].family = f /\ rule[1].version = 1
  BY <1>1
<1>5. OneActive
  BY <1>4 DEF OneActive
<1>6. VersionsOK
  <2>1. ASSUME NEW g \in Family
        PROVE  {rule[r].version : r \in rowsOf(g)} = 1 .. Cardinality(rowsOf(g))
    <3>1. CASE g = f
      <4>1. rowsOf(g) = {1}
        BY <1>4, <3>1 DEF rowsOf
      <4>2. Cardinality({1}) = 1
        BY FS_Singleton
      <4> QED
        BY <1>4, <4>1, <4>2
    <3>2. CASE g # f
      <4>1. rowsOf(g) = {}
        BY <1>4, <3>2 DEF rowsOf
      <4>2. Cardinality({}) = 0
        BY FS_EmptySet
      <4> QED
        BY <4>1, <4>2
    <3> QED
      BY <3>1, <3>2
  <2> QED
    BY <2>1 DEF VersionsOK
<1>7. QuotesOK
  BY <1>b DEF Init, QuotesOK
<1>8. OffersOK
  BY DEF Init, OffersOK, OfferOK
<1>9. EditsOK /\ OneAtATime
  <2>1. "none" \in Error \ {"failed"}
    BY DEF Error
  <2>2. EditOK(Idle) /\ Idle.step = "idle"
    BY <2>1, OverIsOK
  <2>3. edit = [a \in Admin |-> Idle]
    BY DEF Init
  <2> QED
    BY <2>2, <2>3 DEF EditsOK, OneAtATime
<1> QED
  BY <1>3, <1>5, <1>6, <1>7, <1>8, <1>9 DEF IInv

LEMMA StepKeepsOK == IInv /\ [Next]_vars => IInv'
<1> SUFFICES ASSUME IInv, [Next]_vars PROVE IInv'
  OBVIOUS
<1>1. CASE CreateZone
  BY <1>1, CreateZoneStep
<1>2. ASSUME NEW a \in Admin, LookUpFamily(a) \/ CreateRule(a) \/ FindRule(a)
      PROVE  IInv'
  BY <1>2, LookUpFamilyStep, CreateRuleStep, FindRuleStep
<1>3. ASSUME NEW a \in Admin, LockZone(a) \/ SetActive(a) \/ SetInactive(a)
      PROVE  IInv'
  BY <1>3, LockZoneStep, SetActiveStep, SetInactiveStep
<1>4. ASSUME NEW a \in Admin, FindArchived(a) \/ ArchiveRule(a) \/ DeleteRule(a)
      PROVE  IInv'
  BY <1>4, FindArchivedStep, ArchiveRuleStep, DeleteRuleStep
<1>5. ASSUME NEW a \in Admin, ReadZone(a) \/ ReadZoneStatus(a) \/ WriteZone(a)
      PROVE  IInv'
  BY <1>5, ReadZoneStep, ReadZoneStatusStep, WriteZoneStep
<1>6. ASSUME NEW m \in Merchant, ResolvePrice(m) \/ CreateQuote(m)
      PROVE  IInv'
  BY <1>6, ResolvePriceStep, CreateQuoteStep
<1>7. CASE UNCHANGED vars
  <2>1. IInv /\ zone' = zone /\ rule' = rule /\ edit' = edit
        /\ quote' = quote /\ offer' = offer
    BY <1>7 DEF vars
  <2>2. QuotesOK' /\ OffersOK'
    BY <2>1 DEF IInv, QuotesOK, QuoteOK, OffersOK, OfferOK, terms
  <2> QED
    BY <2>1, <2>2, AdminsRest DEF IInv
<1> QED
  BY <1>1, <1>2, <1>3, <1>4, <1>5, <1>6, <1>7 DEF Next

THEOREM Orderly == Spec => []IInv
BY InitIsOK, StepKeepsOK, PTL DEF Spec

\* Rows and requests hold what the database and the handlers can hold.
THEOREM TypeCorrect == Spec => []TypeOK
<1>1. IInv => TypeOK
  <2> SUFFICES ASSUME IInv PROVE TypeOK
    OBVIOUS
  <2>1. ASSUME NEW a \in Admin
        PROVE  /\ edit[a].step \in EditStep /\ edit[a].error \in Error
               /\ edit[a].step = "write" =>
                     edit[a].zone \in DOMAIN zone /\ edit[a].written \in ZoneColumns
               /\ edit[a].step \in EditStep \ {"idle", "create", "write"} =>
                     edit[a].rule \in DOMAIN rule
               /\ edit[a].found \subseteq DOMAIN rule
    <3>1. EditOK(edit[a]) /\ edit[a] \in Edit
      BY DEF IInv, EditsOK, EditOK
    <3> QED
      BY <3>1 DEF EditOK, Edit
  <2>2. RowsOK /\ QuotesOK /\ OffersOK
    BY DEF IInv
  <2> QED
    BY <2>1, <2>2 DEF TypeOK, RowsOK, QuotesOK, QuoteOK, OffersOK, OfferOK
<1> QED
  BY <1>1, Orderly, PTL

\* However administrators interleave, a zone never has two active rules, no
\* activation runs into the unique index, and a family's versions have neither
\* gap nor double.
THEOREM RulesAreOrderlyHolds == Spec => []RulesAreOrderly
<1>1. IInv => RulesAreOrderly
  <2> SUFFICES ASSUME IInv PROVE RulesAreOrderly
    OBVIOUS
  <2>1. ASSUME NEW z \in DOMAIN zone PROVE Cardinality(activeRules(z)) <= 1
    <3>1. z # None
      BY DEF IInv, RowsOK, None
    <3>2. \A r, s \in activeRules(z) : r = s
      BY <3>1 DEF IInv, OneActive, activeRules
    <3>3. CASE activeRules(z) = {}
      <4>1. Cardinality({}) = 0
        BY FS_EmptySet
      <4> QED
        BY <3>3, <4>1
    <3>4. ASSUME NEW r \in activeRules(z) PROVE Cardinality(activeRules(z)) <= 1
      <4>1. activeRules(z) = {r}
        BY <3>2
      <4>2. Cardinality({r}) = 1
        BY FS_Singleton
      <4> QED
        BY <4>1, <4>2
    <3> QED
      BY <3>3, <3>4
  <2>2. \A a \in Admin : edit[a].error # "failed"
    BY DEF IInv, EditsOK, EditOK
  <2>3. ASSUME NEW f \in Family
        PROVE  LET rows == {r \in DOMAIN rule : rule[r].family = f}
               IN  {rule[r].version : r \in rows} = 1 .. Cardinality(rows)
    BY DEF IInv, VersionsOK, rowsOf
  <2> QED
    BY <2>1, <2>2, <2>3 DEF RulesAreOrderly
<1> QED
  BY <1>1, Orderly, PTL

\* Whatever the terms of a rule and the parcel, a quote's price is split
\* without loss, rounded to the nearest, and is what the administrators' own
\* arithmetic makes of the same terms.
THEOREM PricesAddUpHolds == Spec => []PricesAddUp
<1>1. IInv => PricesAddUp
  <2> SUFFICES ASSUME IInv, NEW q \in DOMAIN quote
               PROVE  LET amount == quote[q].price
                          row == terms(quote[q].rule)
                          total == amount.merchantTotalMinor
                          untaxed == total - amount.taxMinor
                      IN  /\ total = amount.estimatedCourierEarningMinor
                                        + amount.platformCommissionMinor
                          /\ amount.estimatedCourierEarningMinor \in 0 .. total
                          /\ near(amount.platformCommissionMinor, total * Commission,
                                  whole)
                          /\ near(amount.taxMinor, untaxed * row.taxBasisPoints, whole)
                          /\ amount.estimatedReturnTripPriceMinor =
                                returnTripPriceMinor(total,
                                   row.returnTripPercentageBasisPoints)
                          /\ untaxed =
                                Max({row.minimumFeeMinor,
                                     coreDeliveryPriceMinor(row,
                                        quote[q].parcel.distanceMeters)
                                        + amount.extrasMinor})
    BY Zenon DEF PricesAddUp
  <2>1. PICK row : row = terms(quote[q].rule)
    OBVIOUS
  <2>2. PICK parcel : parcel = quote[q].parcel
    OBVIOUS
  <2>3. QuoteOK(quote[q])
    BY DEF IInv, QuotesOK
  <2>4. quote[q].price = calculatePrice(row, parcel, Commission)
    BY <2>1, <2>2, <2>3 DEF QuoteOK
  <2>5. row \in RuleTerms
    BY <2>1, <2>3, RuleTyped DEF QuoteOK
  <2>6. parcel \in Deliveries
    BY <2>2, <2>3, ParcelAssumption DEF QuoteOK, Deliveries
  <2> QED
    BY <2>1, <2>2, <2>4, <2>5, <2>6, PriceAddsUp, Zenon
<1> QED
  BY <1>1, Orderly, PTL

(* The forms of places.                                                    *)

\* A link that is looked up is one.
LinksOK ==
    \A c \in Merchant :
        call[c].step # "idle" /\ call[c].kind = "link" => call[c].link \in Link

\* A confirmed place is one the API has told the form about.
Reviewed ==
    draft.confirmed =>
        \E i \in DOMAIN review :
           /\ review[i].done /\ review[i].answer = draft.eligibility
           /\ SixDecimals[review[i].point] = draft.point
           /\ form = "order" => review[i].link = draft.link

PlaceInv == Place!TypeOK /\ LinksOK /\ Reviewed

PlaceCall == [step: {"idle", "sent", "answered"},
              kind: {"device", "link", "submit", "confirm"},
              link: Place!MaybeLink, spare: Place!MaybePoint, answer: Place!MaybePoint]
PlaceMap == [open: BOOLEAN, initial: Place!MaybePoint, marker: Place!MaybePoint,
             touched: BOOLEAN, link: Place!MaybeLink, asked: 0 .. Len(review)]
PlaceDraft == [point: Place!MaybePoint, confirmed: BOOLEAN,
               eligibility: {"UNVALIDATED", "INSIDE", "OUTSIDE"}, link: Place!MaybeLink]
Stages(f) == IF f = "order" THEN {"form", "quote", "created"} ELSE {"form"}

LEMMA PlaceTyped ==
  Place!TypeOK <=> /\ form \in Place!Form
                   /\ stage \in Stages(form)
                   /\ draft \in PlaceDraft
                   /\ map \in PlaceMap
                   /\ busy \in BOOLEAN
                   /\ call \in [Merchant -> PlaceCall]
                   /\ review \in Seq(Place!Row) /\ Len(review) <= MaxReviews
BY DEF Place!TypeOK, Place!order, PlaceCall, PlaceMap, PlaceDraft, Stages

\* The page a short link ends at is one of its pages.
LEMMA PageFound ==
  ASSUME NEW l \in Link
  PROVE  Place!resolveGoogleMapsLink(l).point \in Place!MaybePoint
<1>1. Place!Assumptions
  BY PlaceAssumption
<1> DEFINE trail == Trail[l]
           ends == {i \in DOMAIN trail : trail[i].point # NoPoint
                                           \/ ~Place!followable(trail, i)}
<1>2. trail \in Seq(Place!Page) /\ trail # <<>>
  BY <1>1 DEF Place!Assumptions
<1>3. Len(trail) \in DOMAIN trail /\ 1 \in DOMAIN trail
  BY <1>2
<1>4. ~Place!followable(trail, Len(trail))
  <2>1. trail[Len(trail)].answer = "redirect" =>
           Len(trail) > Place!maximumRedirects \/ Len(trail) < Len(trail)
    BY <1>1, <1>3 DEF Place!Assumptions
  <2> QED
    BY <1>2, <2>1 DEF Place!followable, Place!maximumRedirects
<1>5. ends \in SUBSET Nat /\ ends # {}
  BY <1>2, <1>3, <1>4
<1>6. Min(ends) \in ends
  <2> HIDE DEF ends
  <2> QED
    BY <1>5, MinExists
<1>7. Place!settling(trail) \in DOMAIN trail
  BY <1>6 DEF Place!settling, Place!Min, Min
<1>8. \A i \in DOMAIN trail : trail[i].point \in Place!MaybePoint
  <2>1. \A i \in DOMAIN trail : trail[i] \in Place!Page
    BY <1>2
  <2> QED
    BY <2>1 DEF Place!Page, Place!MaybePoint
<1> HIDE DEF trail
<1>9. Place!resolveGoogleMapsLink(l).point =
         trail[IF trail[1].host = "short" THEN Place!settling(trail) ELSE 1].point
  BY DEF Place!resolveGoogleMapsLink, trail
<1> QED
  BY <1>3, <1>7, <1>8, <1>9

LEMMA SendKept ==
  ASSUME call \in [Merchant -> PlaceCall], LinksOK, NEW c \in Merchant,
         NEW kind \in {"device", "link", "submit", "confirm"},
         NEW link \in Place!MaybeLink, NEW spare \in Place!MaybePoint,
         kind = "link" => link \in Link, Place!Send(c, kind, link, spare)
  PROVE  call' \in [Merchant -> PlaceCall] /\ LinksOK'
<1>1. PICK row : row = [Place!Idle EXCEPT !.step = "sent", !.kind = kind,
                                            !.link = link, !.spare = spare]
  OBVIOUS
<1>2. row = [step |-> "sent", kind |-> kind, link |-> link, spare |-> spare,
              answer |-> NoPoint]
  BY <1>1 DEF Place!Idle
<1>3. row \in PlaceCall
  BY <1>2 DEF PlaceCall, Place!MaybePoint
<1>4. call' = [call EXCEPT ![c] = row]
  BY <1>1 DEF Place!Send
<1> QED
  BY <1>2, <1>3, <1>4 DEF LinksOK

LEMMA DoneKept ==
  ASSUME call \in [Merchant -> PlaceCall], LinksOK, NEW c \in Merchant, Place!Done(c)
  PROVE  call' \in [Merchant -> PlaceCall] /\ LinksOK'
<1>1. Place!Idle \in PlaceCall /\ Place!Idle.step = "idle"
  BY DEF PlaceCall, Place!Idle, Place!MaybePoint, Place!MaybeLink
<1>2. call' = [call EXCEPT ![c] = Place!Idle]
  BY DEF Place!Done
<1> QED
  BY <1>1, <1>2 DEF LinksOK

LEMMA OpenMapTyped ==
  ASSUME map \in PlaceMap, NEW point \in Place!MaybePoint, NEW link \in Place!MaybeLink,
         Place!openMap(point, link)
  PROVE  map' \in PlaceMap
<1>1. PICK row : row = [map EXCEPT !.open = TRUE, !.initial = point, !.link = link,
                             !.marker = IF map.touched THEN @ ELSE point]
  OBVIOUS
<1>2. map' = row
  BY <1>1 DEF Place!openMap
<1>3. row = [open |-> TRUE, initial |-> point,
              marker |-> IF map.touched THEN map.marker ELSE point,
              touched |-> map.touched, link |-> link, asked |-> map.asked]
  BY <1>1 DEF PlaceMap
<1> QED
  BY <1>2, <1>3 DEF PlaceMap

\* What is not typed by its own action is kept.
LEMMA PlaceKept ==
  ASSUME form' \in Place!Form, stage' \in Stages(form'), draft' \in PlaceDraft,
         map' \in PlaceMap', busy' \in BOOLEAN, call' \in [Merchant -> PlaceCall],
         review' \in Seq(Place!Row), Len(review') <= MaxReviews, LinksOK', Reviewed'
  PROVE  PlaceInv'
BY DEF PlaceInv, Place!TypeOK, Place!order, PlaceCall, PlaceMap, PlaceDraft, Stages

LEMMA ReviewedStays ==
  ASSUME Reviewed, form' = form, draft' = draft, DOMAIN review \subseteq DOMAIN review',
         \A i \in DOMAIN review : review[i].done => review'[i] = review[i]
  PROVE  Reviewed'
BY DEF Reviewed

LEMMA ReviewAdds ==
  ASSUME Place!TypeOK, NEW point \in Point, NEW link \in Place!MaybeLink,
         Place!Review(point, link)
  PROVE  /\ review' \in Seq(Place!Row) /\ Len(review') <= MaxReviews
         /\ Len(review') = Len(review) + 1 /\ busy' \in BOOLEAN
         /\ DOMAIN review \subseteq DOMAIN review'
         /\ \A i \in DOMAIN review : review'[i] = review[i]
<1>1. PICK row : row = [point |-> point, link |-> link, answer |-> "UNVALIDATED",
                        done |-> FALSE]
  OBVIOUS
<1>2. row \in Place!Row
  BY <1>1 DEF Place!Row
<1>3. review' = Append(review, row) /\ Len(review) < MaxReviews
  BY <1>1 DEF Place!Review
<1>4. review \in Seq(Place!Row) /\ MaxReviews \in Nat
  BY PlaceTyped, PlaceAssumption DEF Place!Assumptions
<1>5. busy' \in BOOLEAN
  BY PlaceTyped DEF Place!Review
<1> QED
  BY <1>2, <1>3, <1>4, <1>5

LEMMA ReviewChanges ==
  ASSUME review \in Seq(Place!Row), NEW i \in DOMAIN review, NEW row \in Place!Row,
         review' = [review EXCEPT ![i] = row]
  PROVE  /\ review' \in Seq(Place!Row) /\ Len(review') = Len(review)
         /\ DOMAIN review' = DOMAIN review /\ review'[i] = row
         /\ \A j \in DOMAIN review : j # i => review'[j] = review[j]
OBVIOUS

LEMMA PlaceInitIsOK == Place!Init => PlaceInv
<1> SUFFICES ASSUME Place!Init PROVE PlaceInv
  OBVIOUS
<1>1. SixDecimals[Fallback] \in Point /\ MaxReviews \in Nat
  BY PlaceAssumption DEF Place!Assumptions
<1>2. draft \in PlaceDraft /\ ~draft.confirmed
  BY <1>1 DEF Place!Init, Place!Unplaced, PlaceDraft, Place!MaybePoint, Place!MaybeLink
<1>3. review = <<>> /\ form \in Place!Form /\ stage = "form" /\ busy = FALSE
  BY DEF Place!Init
<1>4. map \in PlaceMap
  BY <1>3 DEF Place!Init, Place!NoMap, PlaceMap, Place!MaybePoint, Place!MaybeLink
<1>5. Place!Idle \in PlaceCall /\ Place!Idle.step = "idle"
  BY DEF PlaceCall, Place!Idle, Place!MaybePoint, Place!MaybeLink
<1>6. call \in [Merchant -> PlaceCall] /\ LinksOK
  BY <1>5 DEF Place!Init, LinksOK
<1>7. review \in Seq(Place!Row) /\ Len(review) <= MaxReviews
  BY <1>1, <1>3
<1>8. stage \in Stages(form) /\ busy \in BOOLEAN
  BY <1>3 DEF Stages
<1>9. Place!TypeOK
  BY <1>2, <1>3, <1>4, <1>6, <1>7, <1>8, PlaceTyped
<1> QED
  BY <1>2, <1>6, <1>9 DEF PlaceInv, Reviewed

\* Actions that work on the map or the screen only.
LEMMA MapStep ==
  ASSUME PlaceInv, form' = form, draft' = draft, review' = review, call' = call,
         stage' \in Stages(form), map' \in PlaceMap, busy' \in BOOLEAN
  PROVE  PlaceInv'
<1>1. Place!TypeOK /\ LinksOK /\ Reviewed
  BY DEF PlaceInv
<1>2. LinksOK' /\ map' \in PlaceMap'
  BY <1>1 DEF LinksOK, PlaceMap
<1>3. Reviewed'
  BY <1>1, ReviewedStays
<1> QED
  BY <1>1, <1>2, <1>3, PlaceTyped, PlaceKept

\* Calls that leave the places alone.
LEMMA CallStep ==
  ASSUME PlaceInv, form' = form, draft' = draft, review' = review,
         call' \in [Merchant -> PlaceCall], LinksOK',
         stage' \in Stages(form), map' \in PlaceMap, busy' \in BOOLEAN
  PROVE  PlaceInv'
<1>1. Place!TypeOK /\ LinksOK /\ Reviewed
  BY DEF PlaceInv
<1>2. map' \in PlaceMap'
  BY DEF PlaceMap
<1>3. Reviewed'
  BY <1>1, ReviewedStays
<1> QED
  BY <1>1, <1>2, <1>3, PlaceTyped, PlaceKept

\* Edits after which nothing is confirmed, or for which that is as it was.
LEMMA DraftStep ==
  ASSUME PlaceInv, form' = form, stage' = stage, map' = map, busy' = busy,
         call' = call, review' = review, draft' \in PlaceDraft,
         \/ ~draft'.confirmed
         \/ /\ form # "order" /\ draft'.confirmed = draft.confirmed
            /\ draft'.eligibility = draft.eligibility /\ draft'.point = draft.point
  PROVE  PlaceInv'
<1>1. Place!TypeOK /\ LinksOK /\ Reviewed
  BY DEF PlaceInv
<1>2. LinksOK' /\ map' \in PlaceMap'
  BY <1>1, PlaceTyped DEF LinksOK, PlaceMap
<1>3. Reviewed'
  BY <1>1 DEF Reviewed
<1> QED
  BY <1>1, <1>2, <1>3, PlaceTyped, PlaceKept

LEMMA NobodyPlaced ==
  ASSUME NEW f \in Place!Form
  PROVE  Place!Unplaced(f) \in PlaceDraft /\ ~Place!Unplaced(f).confirmed
BY PlaceAssumption
   DEF Place!Assumptions, Place!Unplaced, PlaceDraft, Place!MaybePoint, Place!MaybeLink

LEMMA PointsTyped ==
  ASSUME Place!TypeOK
  PROVE  /\ Place!selectedPoint \in Place!MaybePoint
         /\ \A p \in Place!MaybePoint : Place!OrFallback(p) \in Point
         /\ NoLink \in Place!MaybeLink /\ NoPoint \in Place!MaybePoint
         /\ Point \subseteq Place!MaybePoint /\ Link \subseteq Place!MaybeLink
BY PlaceTyped, PlaceAssumption
   DEF Place!selectedPoint, Place!OrFallback, Place!MaybePoint, Place!MaybeLink,
       PlaceDraft, Place!Assumptions

\* The calls that open the map, or ask what it opens at.
LEMMA AskStep ==
  ASSUME PlaceInv, NEW c \in Merchant,
         \/ Place!UseCurrentLocation(c) \/ Place!resolveMapsLink(c)
         \/ Place!Submit(c) \/ Place!ConfirmOrder(c)
  PROVE  PlaceInv'
<1>1. Place!TypeOK /\ LinksOK
  BY DEF PlaceInv
<1>2. \E kind \in {"device", "link", "submit", "confirm"}, link \in Place!MaybeLink,
        spare \in Place!MaybePoint :
           (kind = "link" => link \in Link) /\ Place!Send(c, kind, link, spare)
  <2>1. CASE Place!UseCurrentLocation(c) \/ Place!Submit(c) \/ Place!ConfirmOrder(c)
    <3>1. \E kind \in {"device", "submit", "confirm"} :
             Place!Send(c, kind, NoLink, NoPoint)
      BY <2>1 DEF Place!UseCurrentLocation, Place!Submit, Place!ConfirmOrder
    <3> QED
      BY <1>1, <3>1, PointsTyped
  <2>2. CASE Place!resolveMapsLink(c)
    <3>1. PICK spare \in Place!MaybePoint : Place!Send(c, "link", draft.link, spare)
      BY <1>1, <2>2, PointsTyped DEF Place!resolveMapsLink
    <3>2. draft.link \in Link
      BY <1>1, <2>2, PlaceTyped DEF Place!resolveMapsLink, PlaceDraft, Place!MaybeLink
    <3> QED
      BY <1>1, <3>1, <3>2, PointsTyped
  <2> QED
    BY <2>1, <2>2
<1>3. call' \in [Merchant -> PlaceCall] /\ LinksOK'
  BY <1>1, <1>2, PlaceTyped, SendKept
<1>4. /\ form' = form /\ draft' = draft /\ review' = review /\ stage' = stage
      /\ map' = map /\ busy' \in BOOLEAN
  BY <1>1, PlaceTyped DEF Place!UseCurrentLocation, Place!resolveMapsLink, Place!Submit,
     Place!ConfirmOrder
<1> QED
  BY <1>1, <1>3, <1>4, PlaceTyped, CallStep

\* The answers to those calls.
LEMMA TakeStep ==
  ASSUME PlaceInv, NEW c \in Merchant,
         \/ Place!TakeCurrentLocation(c) \/ Place!TakeLink(c)
         \/ Place!TakeQuote(c) \/ Place!TakeOrder(c) \/ Place!Fail(c)
  PROVE  PlaceInv'
<1>1. Place!TypeOK /\ LinksOK
  BY DEF PlaceInv
<1>2. Place!Done(c) /\ form' = form /\ draft' = draft /\ review' = review
  BY DEF Place!TakeCurrentLocation, Place!TakeLink, Place!TakeQuote, Place!TakeOrder,
     Place!Fail
<1>3. call' \in [Merchant -> PlaceCall] /\ LinksOK'
  BY <1>1, <1>2, PlaceTyped, DoneKept
<1>4. busy' \in BOOLEAN
  BY <1>1, PlaceTyped DEF Place!TakeCurrentLocation, Place!TakeLink, Place!TakeQuote,
     Place!TakeOrder, Place!Fail
<1>5. stage' \in Stages(form)
  BY <1>1, PlaceTyped DEF Place!TakeCurrentLocation, Place!TakeLink, Place!TakeQuote,
     Place!TakeOrder, Place!Fail, Stages, Place!order
<1>6. map' \in PlaceMap
  <2>1. CASE Place!TakeCurrentLocation(c)
    BY <1>1, <2>1, PlaceTyped, PointsTyped, OpenMapTyped DEF Place!TakeCurrentLocation
  <2>2. CASE Place!TakeLink(c)
    <3>1. call[c] \in PlaceCall
      BY <1>1, PlaceTyped
    <3>2. PICK point \in Place!MaybePoint, link \in Place!MaybeLink :
             Place!openMap(point, link)
      BY <1>1, <2>2, <3>1, PointsTyped DEF Place!TakeLink, PlaceCall
    <3> QED
      BY <1>1, <3>2, PlaceTyped, OpenMapTyped
  <2>3. CASE Place!TakeQuote(c) \/ Place!TakeOrder(c)
    <3>1. map \in PlaceMap
      BY <1>1, PlaceTyped
    <3>2. map' = [map EXCEPT !.marker = map.initial, !.touched = FALSE, !.asked = 0]
      BY <2>3 DEF Place!TakeQuote, Place!TakeOrder
    <3>3. map' = [open |-> map.open, initial |-> map.initial, marker |-> map.initial,
                  touched |-> FALSE, link |-> map.link, asked |-> 0]
      BY <3>1, <3>2 DEF PlaceMap
    <3> QED
      BY <3>1, <3>3 DEF PlaceMap
  <2>4. CASE Place!Fail(c)
    BY <1>1, <2>4, PlaceTyped DEF Place!Fail
  <2> QED
    BY <2>1, <2>2, <2>3, <2>4
<1> QED
  BY <1>2, <1>3, <1>4, <1>5, <1>6, CallStep

LEMMA ServeLinkStep ==
  ASSUME PlaceInv, NEW c \in Merchant, Place!ServeLink(c)
  PROVE  PlaceInv'
<1>1. Place!TypeOK /\ LinksOK
  BY DEF PlaceInv
<1>2. call[c] \in PlaceCall /\ call \in [Merchant -> PlaceCall]
  BY <1>1, PlaceTyped
<1>3. call[c].link \in Link /\ call[c].kind = "link"
  BY <1>1 DEF Place!ServeLink, LinksOK
<1>4. PICK point : point = Place!resolveGoogleMapsLink(call[c].link).point
  OBVIOUS
<1>5. point \in Place!MaybePoint
  BY <1>3, <1>4, PageFound
<1>6. PICK row : row = [call[c] EXCEPT !.step = "answered", !.answer = point]
  OBVIOUS
<1>7. row = [step |-> "answered", kind |-> call[c].kind, link |-> call[c].link,
             spare |-> call[c].spare, answer |-> point]
  BY <1>2, <1>6 DEF PlaceCall
<1>8. row \in PlaceCall
  BY <1>2, <1>5, <1>7 DEF PlaceCall
<1>9. call' = [call EXCEPT ![c].step = "answered", ![c].answer = point]
  BY <1>4 DEF Place!ServeLink
<1>10. call' = [call EXCEPT ![c] = row]
  BY <1>2, <1>6, <1>9
<1>11. call' \in [Merchant -> PlaceCall] /\ LinksOK'
  BY <1>1, <1>2, <1>3, <1>7, <1>8, <1>10 DEF LinksOK
<1>12. /\ form' = form /\ stage' = stage /\ draft' = draft /\ map' = map
       /\ busy' = busy /\ review' = review
  BY DEF Place!ServeLink
<1> QED
  BY <1>1, <1>11, <1>12, PlaceTyped, CallStep

\* A point is given to the API.
LEMMA ReviewStep ==
  ASSUME PlaceInv, Place!ConfirmMarker \/ Place!validateManualCoordinates
  PROVE  PlaceInv'
<1>1. Place!TypeOK /\ LinksOK /\ Reviewed
  BY DEF PlaceInv
<1>2. map \in PlaceMap /\ Len(review) \in Nat
  BY <1>1, PlaceTyped
<1>3. PICK point \in Point, link \in Place!MaybeLink : Place!Review(point, link)
  <2>1. CASE Place!ConfirmMarker
    BY <1>2, <2>1 DEF Place!ConfirmMarker, PlaceMap, Place!MaybePoint
  <2>2. CASE Place!validateManualCoordinates
    BY <1>1, <2>2, PointsTyped DEF Place!validateManualCoordinates, Place!MaybePoint
  <2> QED
    BY <2>1, <2>2
<1>4. /\ review' \in Seq(Place!Row) /\ Len(review') <= MaxReviews
      /\ Len(review') = Len(review) + 1 /\ busy' \in BOOLEAN
      /\ DOMAIN review \subseteq DOMAIN review'
      /\ \A i \in DOMAIN review : review'[i] = review[i]
  BY <1>1, <1>3, ReviewAdds
<1>5. form' = form /\ stage' = stage /\ draft' = draft /\ call' = call
  BY DEF Place!ConfirmMarker, Place!validateManualCoordinates
<1>6. map' = [map EXCEPT !.asked = Len(review) + 1] \/ map' = map
  BY DEF Place!ConfirmMarker, Place!validateManualCoordinates
<1>7. map' \in PlaceMap'
  <2>1. PlaceMap' = [open: BOOLEAN, initial: Place!MaybePoint, marker: Place!MaybePoint,
                     touched: BOOLEAN, link: Place!MaybeLink, asked: 0 .. Len(review')]
    BY DEF PlaceMap
  <2> QED
    BY <1>2, <1>4, <1>6, <2>1 DEF PlaceMap
<1>8. Reviewed' /\ LinksOK'
  BY <1>1, <1>4, <1>5, ReviewedStays DEF LinksOK
<1> QED
  BY <1>1, <1>4, <1>5, <1>7, <1>8, PlaceTyped, PlaceKept

\* The API looks at a point, or fails to.
LEMMA ServedStep ==
  ASSUME PlaceInv, NEW i \in DOMAIN review,
         Place!ServeValidation(i) \/ Place!ValidationFails(i)
  PROVE  PlaceInv'
<1>1. Place!TypeOK /\ LinksOK /\ Reviewed
  BY DEF PlaceInv
<1>2. review \in Seq(Place!Row) /\ review[i] \in Place!Row /\ ~review[i].done
  <2>1. review \in Seq(Place!Row)
    BY <1>1, PlaceTyped
  <2>2. ~review[i].done
    BY DEF Place!ServeValidation, Place!ValidationFails
  <2> QED
    BY <2>1, <2>2
<1>3. PICK row \in Place!Row : review' = [review EXCEPT ![i] = row]
  <2>1. CASE Place!ServeValidation(i)
    <3>1. PICK answer \in {"INSIDE", "OUTSIDE"} :
             review' = [review EXCEPT ![i].answer = answer]
      BY <2>1 DEF Place!ServeValidation
    <3>2. [review[i] EXCEPT !.answer = answer] \in Place!Row
      BY <1>2, <3>1 DEF Place!Row
    <3> QED
      BY <3>1, <3>2
  <2>2. CASE Place!ValidationFails(i)
    <3>1. PICK row : row = [review[i] EXCEPT !.answer = "UNVALIDATED", !.done = TRUE]
      OBVIOUS
    <3>2. row = [point |-> review[i].point, link |-> review[i].link,
                 answer |-> "UNVALIDATED", done |-> TRUE]
      BY <1>2, <3>1 DEF Place!Row
    <3>3. row \in Place!Row
      BY <1>2, <3>2 DEF Place!Row
    <3>4. review' = [review EXCEPT ![i] = row]
      BY <2>2, <3>1 DEF Place!ValidationFails
    <3> QED
      BY <3>3, <3>4
  <2> QED
    BY <2>1, <2>2
<1>4. /\ review' \in Seq(Place!Row) /\ Len(review') = Len(review)
      /\ DOMAIN review' = DOMAIN review
      /\ \A j \in DOMAIN review : j # i => review'[j] = review[j]
  BY <1>2, <1>3, ReviewChanges
<1>5. form' = form /\ stage' = stage /\ draft' = draft /\ call' = call /\ busy' \in BOOLEAN
  BY <1>1, PlaceTyped DEF Place!ServeValidation, Place!ValidationFails
<1>6. map' = [map EXCEPT !.asked = 0] \/ map' = map
  BY DEF Place!ServeValidation, Place!ValidationFails
<1>7. map' \in PlaceMap'
  <2>1. map \in PlaceMap /\ Len(review) \in Nat
    BY <1>1, PlaceTyped
  <2>2. [map EXCEPT !.asked = 0] =
           [open |-> map.open, initial |-> map.initial, marker |-> map.marker,
            touched |-> map.touched, link |-> map.link, asked |-> 0]
    BY <2>1 DEF PlaceMap
  <2>3. [map EXCEPT !.asked = 0] \in PlaceMap
    BY <2>1, <2>2 DEF PlaceMap
  <2>4. map' \in PlaceMap
    BY <1>6, <2>1, <2>3
  <2>5. PlaceMap' = PlaceMap
    BY <1>4 DEF PlaceMap
  <2> QED
    BY <2>4, <2>5
<1>8. Reviewed' /\ LinksOK'
  BY <1>1, <1>2, <1>4, <1>5, ReviewedStays DEF LinksOK
<1>9. Len(review') <= MaxReviews
  BY <1>1, <1>4, PlaceTyped
<1> QED
  BY <1>1, <1>4, <1>5, <1>7, <1>8, <1>9, PlaceTyped, PlaceKept

\* The place is the one that was asked about, and the row says so from now on.
LEMMA ConfirmStep ==
  ASSUME PlaceInv, NEW i \in DOMAIN review, Place!confirmLocation(i)
  PROVE  PlaceInv'
<1>1. Place!TypeOK /\ LinksOK /\ Reviewed
  BY DEF PlaceInv
<1>2. review \in Seq(Place!Row) /\ review[i] \in Place!Row
  BY <1>1, PlaceTyped
<1>3. PICK row : row = [review[i] EXCEPT !.done = TRUE]
  OBVIOUS
<1>4. row = [point |-> review[i].point, link |-> review[i].link,
             answer |-> review[i].answer, done |-> TRUE]
  BY <1>2, <1>3 DEF Place!Row
<1>5. row \in Place!Row
  BY <1>2, <1>4 DEF Place!Row
<1>6. review' = [review EXCEPT ![i] = row]
  BY <1>3 DEF Place!confirmLocation
<1>7. /\ review' \in Seq(Place!Row) /\ Len(review') = Len(review)
      /\ DOMAIN review' = DOMAIN review /\ review'[i] = row
  BY <1>2, <1>5, <1>6, ReviewChanges
<1>8. draft' = [point |-> SixDecimals[review[i].point], confirmed |-> TRUE,
                eligibility |-> review[i].answer,
                link |-> IF form = "order" THEN review[i].link ELSE draft.link]
  BY DEF Place!confirmLocation, Place!order
<1>9. draft' \in PlaceDraft
  <2>1. SixDecimals[review[i].point] \in Point
    BY <1>2, PlaceAssumption DEF Place!Row, Place!Assumptions
  <2>2. draft.link \in Place!MaybeLink /\ review[i].link \in Place!MaybeLink
        /\ review[i].answer \in {"UNVALIDATED", "INSIDE", "OUTSIDE"}
    BY <1>1, <1>2, PlaceTyped DEF Place!Row, PlaceDraft
  <2> QED
    BY <1>8, <2>1, <2>2 DEF PlaceDraft, Place!MaybePoint
<1>10. form' = form /\ call' = call /\ map' = Place!NoMap /\ busy' \in BOOLEAN
  BY <1>1, PlaceTyped DEF Place!confirmLocation
<1>11. stage' \in Stages(form)
  BY <1>1, PlaceTyped DEF Place!confirmLocation, Stages
<1>12. map' \in PlaceMap'
  <2>1. Len(review') \in Nat
    BY <1>7
  <2> QED
    BY <1>10, <2>1 DEF PlaceMap, Place!NoMap, Place!MaybePoint, Place!MaybeLink
<1>13. Reviewed' /\ LinksOK'
  BY <1>1, <1>4, <1>7, <1>8, <1>10 DEF Reviewed, LinksOK
<1>14. Len(review') <= MaxReviews
  BY <1>1, <1>7, PlaceTyped
<1> QED
  BY <1>1, <1>7, <1>9, <1>10, <1>11, <1>12, <1>13, <1>14, PlaceTyped, PlaceKept

\* The merchant works on the map.
LEMMA MarkerStep ==
  ASSUME PlaceInv,
         \/ Place!OpenMap \/ Place!MoveMarker \/ Place!Navigate \/ Place!ClearMarker
         \/ Place!CancelMap \/ Place!InvalidateQuote
  PROVE  PlaceInv'
<1>1. Place!TypeOK
  BY DEF PlaceInv
<1>2. map \in PlaceMap /\ Len(review) \in Nat
  BY <1>1, PlaceTyped
<1>3. /\ form' = form /\ draft' = draft /\ review' = review /\ call' = call
      /\ busy' = busy /\ stage' \in Stages(form)
  BY <1>1, PlaceTyped DEF Place!OpenMap, Place!MoveMarker, Place!Navigate,
     Place!ClearMarker, Place!CancelMap, Place!InvalidateQuote, Stages
<1>4. map' \in PlaceMap
  <2>1. CASE Place!OpenMap
    BY <1>1, <1>2, <2>1, PointsTyped, OpenMapTyped DEF Place!OpenMap
  <2>2. CASE Place!MoveMarker \/ Place!ClearMarker
    <3>1. PICK point \in Place!MaybePoint :
             map' = [map EXCEPT !.marker = point, !.touched = TRUE]
      BY <1>1, <2>2, PointsTyped, Zenon DEF Place!MoveMarker, Place!ClearMarker
    <3>2. map' = [open |-> map.open, initial |-> map.initial, marker |-> point,
                  touched |-> TRUE, link |-> map.link, asked |-> map.asked]
      BY <1>2, <3>1 DEF PlaceMap
    <3> QED
      BY <1>2, <3>2 DEF PlaceMap
  <2>3. CASE Place!Navigate
    BY <1>2, <2>3 DEF Place!Navigate, PlaceMap
  <2>4. CASE Place!CancelMap
    BY <1>2, <2>4 DEF Place!CancelMap, Place!NoMap, PlaceMap, Place!MaybePoint,
       Place!MaybeLink
  <2>5. CASE Place!InvalidateQuote
    BY <1>2, <2>5 DEF Place!InvalidateQuote
  <2> QED
    BY <2>1, <2>2, <2>3, <2>4, <2>5
<1> QED
  BY <1>1, <1>3, <1>4, PlaceTyped, MapStep

\* The merchant works on the form.
LEMMA FormStep ==
  ASSUME PlaceInv, Place!EditLink \/ Place!EditCoordinates \/ Place!ClearLocation
  PROVE  PlaceInv'
<1>1. Place!TypeOK
  BY DEF PlaceInv
<1>2. draft \in PlaceDraft /\ form \in Place!Form
  BY <1>1, PlaceTyped
<1>3. /\ form' = form /\ stage' = stage /\ map' = map /\ busy' = busy /\ call' = call
      /\ review' = review
  BY Zenon DEF Place!EditLink, Place!EditCoordinates, Place!ClearLocation
<1>4. /\ draft' \in PlaceDraft
      /\ \/ ~draft'.confirmed
         \/ /\ form # "order" /\ draft'.confirmed = draft.confirmed
            /\ draft'.eligibility = draft.eligibility /\ draft'.point = draft.point
  <2>1. CASE Place!EditLink
    <3>1. PICK link \in Place!MaybeLink :
             draft' = IF form = "order"
                      THEN [draft EXCEPT !.link = link, !.confirmed = FALSE,
                                         !.eligibility = "UNVALIDATED"]
                      ELSE [draft EXCEPT !.link = link]
      BY <2>1, Zenon DEF Place!EditLink, Place!order
    <3>2. CASE form = "order"
      <4>1. draft' = [point |-> draft.point, confirmed |-> FALSE,
                      eligibility |-> "UNVALIDATED", link |-> link]
        BY <1>2, <3>1, <3>2 DEF PlaceDraft
      <4> QED
        BY <1>2, <4>1 DEF PlaceDraft
    <3>3. CASE form # "order"
      BY <1>2, <3>1, <3>3 DEF PlaceDraft
    <3> QED
      BY <3>2, <3>3
  <2>2. CASE Place!EditCoordinates
    <3>1. PICK point \in Place!MaybePoint :
             draft' = [draft EXCEPT !.point = point, !.confirmed = FALSE,
                                    !.eligibility = "UNVALIDATED"]
      BY <2>2, Zenon DEF Place!EditCoordinates
    <3>2. draft' = [point |-> point, confirmed |-> FALSE,
                    eligibility |-> "UNVALIDATED", link |-> draft.link]
      BY <1>2, <3>1 DEF PlaceDraft
    <3> QED
      BY <1>2, <3>2 DEF PlaceDraft
  <2>3. CASE Place!ClearLocation
    BY <1>2, <2>3, NobodyPlaced DEF Place!ClearLocation
  <2> QED
    BY <2>1, <2>2, <2>3
<1> QED
  BY <1>3, <1>4, DraftStep

\* Another order, or the form is left.
LEMMA EmptyStep ==
  ASSUME PlaceInv, Place!resetForAnotherOrder \/ Place!Leave
  PROVE  PlaceInv'
<1>1. Place!TypeOK /\ LinksOK
  BY DEF PlaceInv
<1>2. form \in Place!Form /\ form' = form /\ draft' = Place!Unplaced(form)
  BY <1>1, PlaceTyped DEF Place!resetForAnotherOrder, Place!Leave
<1>3. draft' \in PlaceDraft /\ Reviewed'
  BY <1>2, NobodyPlaced DEF Reviewed
<1>4. stage' \in Stages(form)
  BY <1>1, PlaceTyped DEF Place!resetForAnotherOrder, Place!Leave, Stages
<1>5. CASE Place!resetForAnotherOrder
  <2>1. review' = review /\ call' = call /\ map' = map /\ busy' = busy
    BY <1>5 DEF Place!resetForAnotherOrder
  <2>2. map' \in PlaceMap' /\ LinksOK'
    BY <1>1, <2>1, PlaceTyped DEF PlaceMap, LinksOK
  <2> QED
    BY <1>1, <1>2, <1>3, <1>4, <2>1, <2>2, PlaceTyped, PlaceKept
<1>6. CASE Place!Leave
  <2>1. /\ review' = <<>> /\ map' = Place!NoMap /\ busy' = FALSE
        /\ call' = [c \in Merchant |->
                      IF Place!order /\ call[c].kind \in {"submit", "confirm"}
                      THEN call[c] ELSE Place!Idle]
    BY <1>6 DEF Place!Leave
  <2>2. Place!Idle \in PlaceCall /\ Place!Idle.step = "idle"
    BY DEF PlaceCall, Place!Idle, Place!MaybePoint, Place!MaybeLink
  <2>3. call' \in [Merchant -> PlaceCall] /\ LinksOK'
    BY <1>1, <2>1, <2>2, PlaceTyped DEF LinksOK
  <2>4. review' \in Seq(Place!Row) /\ Len(review') <= MaxReviews /\ Len(review') = 0
    BY <2>1, PlaceAssumption DEF Place!Assumptions
  <2>5. map' \in PlaceMap'
    BY <2>1, <2>4 DEF PlaceMap, Place!NoMap, Place!MaybePoint, Place!MaybeLink
  <2> QED
    BY <1>2, <1>3, <1>4, <2>1, <2>3, <2>4, <2>5, PlaceKept
<1> QED
  BY <1>5, <1>6

LEMMA PlaceStepKeeps == PlaceInv /\ [Place!Next]_(Place!vars) => PlaceInv'
<1> SUFFICES ASSUME PlaceInv, [Place!Next]_(Place!vars) PROVE PlaceInv'
  OBVIOUS
<1>1. CASE UNCHANGED Place!vars
  <2>1. /\ form' = form /\ stage' = stage /\ draft' = draft /\ map' = map
        /\ busy' = busy /\ call' = call /\ review' = review
    BY <1>1 DEF Place!vars
  <2> QED
    BY <2>1, MapStep, PlaceTyped DEF PlaceInv
<1>2. CASE \/ Place!OpenMap \/ Place!MoveMarker \/ Place!Navigate \/ Place!ClearMarker
           \/ Place!CancelMap \/ Place!InvalidateQuote
  BY <1>2, MarkerStep
<1>3. CASE Place!EditLink \/ Place!EditCoordinates \/ Place!ClearLocation
  BY <1>3, FormStep
<1>4. CASE Place!resetForAnotherOrder \/ Place!Leave
  BY <1>4, EmptyStep
<1>5. CASE Place!ConfirmMarker \/ Place!validateManualCoordinates
  BY <1>5, ReviewStep
<1>6. ASSUME NEW i \in DOMAIN review,
             Place!ServeValidation(i) \/ Place!confirmLocation(i) \/ Place!ValidationFails(i)
      PROVE  PlaceInv'
  BY <1>6, ServedStep, ConfirmStep
<1>7. ASSUME NEW c \in Merchant,
             \/ Place!UseCurrentLocation(c) \/ Place!TakeCurrentLocation(c)
             \/ Place!resolveMapsLink(c) \/ Place!ServeLink(c) \/ Place!TakeLink(c)
             \/ Place!Submit(c) \/ Place!TakeQuote(c) \/ Place!ConfirmOrder(c)
             \/ Place!TakeOrder(c) \/ Place!Fail(c)
      PROVE  PlaceInv'
  BY <1>7, AskStep, TakeStep, ServeLinkStep
<1> QED
  BY <1>1, <1>2, <1>3, <1>4, <1>5, <1>6, <1>7 DEF Place!Next

\* Whatever is late, lost or edited meanwhile, a place that a form would send was
\* confirmed on the map and then found served, with the link it shows.
THEOREM FormsSendReviewedPlaces ==
  Place!Spec => []Place!TypeOK /\ []Place!PlacesAreReviewed
<1>1. PlaceInv => Place!TypeOK /\ Place!PlacesAreReviewed
  BY DEF PlaceInv, Reviewed, Place!PlacesAreReviewed, Place!canRequestQuote, Place!order
<1> QED
  BY <1>1, PlaceInitIsOK, PlaceStepKeeps, PTL DEF Place!Spec

(* Both kinds of edits, as the run has them.                               *)

LEMMA EditedIsEither ==
  EditedSpec => Spec /\ Place!Spec
<1>1. EditedInit => Init /\ Place!Init
  BY DEF EditedInit
<1>2. [EditedNext]_<<edited, vars, placeVars>> => [Next]_vars /\ [Place!Next]_(Place!vars)
  BY DEF EditedNext, placeVars, Place!vars
<1> QED
  BY <1>1, <1>2, PTL DEF EditedSpec, Spec, Place!Spec

\* Zones, rules, quotes, requests and the forms of places are well typed.
THEOREM EditedTypeCorrect == EditedSpec => []EditedTypeOK
BY EditedIsEither, TypeCorrect, FormsSendReviewedPlaces, PTL DEF EditedTypeOK

\* The same of a zone's rules, however administrators interleave.
THEOREM EditedRulesAreOrderly == EditedSpec => []RulesAreOrderly
BY EditedIsEither, RulesAreOrderlyHolds, PTL

\* The same of the prices that are quoted.
THEOREM EditedPricesAddUp == EditedSpec => []PricesAddUp
BY EditedIsEither, PricesAddUpHolds, PTL

\* A place that a form would send was confirmed on the map and found served.
THEOREM PlacesAreReviewedHolds == EditedSpec => []PlacesAreReviewed
BY EditedIsEither, FormsSendReviewedPlaces, PTL DEF PlacesAreReviewed
=============================================================================
