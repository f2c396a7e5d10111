------------------------------ MODULE ZonePricing ------------------------------
(***************************************************************************)
(* Service zones and the versions of their pricing rules, as super         *)
(* administrators edit them (phase-two-admin.service.ts), and the quotes   *)
(* that merchants request meanwhile (orders.service.ts: createQuote).      *)
(*                                                                         *)
(* Every administrator's request reads first and writes in a transaction   *)
(* of its own: only the version of a zone, the lock of a zone and the      *)
(* partial unique indexes stand between two of them.  A quote is priced    *)
(* from one snapshot and committed later.  The circles of zones are "near" *)
(* and "wide", the trips "short" and "long"; one city has all the zones,   *)
(* which are numbered by priority and name.                                *)
(***************************************************************************)
EXTENDS Pricing, FiniteSets

CONSTANTS Admin,      \* requests of administrators served at a time
          Merchant,   \* quote requests served at a time
          Family,     \* rule families
          Parcel,     \* what a quote can be asked for: parcel and route
          Terms(_, _), \* what an administrator enters for a rule: its prices
          Commission, \* the default commission of the financial settings
          MaxZones,   \* bound on the zones
          MaxRules,   \* the rules after which no request begins to add one
          MaxVersion, \* bound on the version of a zone
          MaxQuotes   \* bound on the quotes

ASSUME BoundAssumption ==
    {MaxZones, MaxRules, MaxVersion} \subseteq Nat \ {0} /\ MaxQuotes \in Nat
ASSUME CommissionAssumption == Commission \in 0 .. whole
ASSUME TermsAssumption == \A f \in Family, v \in 1 .. MaxRules : Terms(f, v) \in RuleTerms
ASSUME ParcelAssumption ==
    Parcel \subseteq [near: BOOLEAN, distanceMeters: Nat, size: Size, weightGrams: Nat,
                     fragile: BOOLEAN, requiresThermalBag: BOOLEAN]

VARIABLES zone,  \* ServiceZone rows; a row's index is its id and its rank
          rule,  \* PricingRule rows; a row's index is its id
          quote, \* PriceQuote rows
          edit,  \* what each administrator's request has come to
          offer  \* what each quote request has come to

vars == <<zone, rule, quote, edit, offer>>

None == 0

\* A route fits a circle when both its ends lie in it, and a wide one has room
\* for every route.
Circle == {"near", "wide"}
covers(circle, parcel) == circle = "wide" \/ parcel.near

ZoneColumns == [circle: Circle, status: {"ACTIVE", "INACTIVE"}]
Zone == [circle: Circle, status: {"ACTIVE", "INACTIVE"}, version: 1 .. MaxVersion]

\* A rule without a zone is for the whole city: an old one, from before every
\* rule had to have a zone.  Family and version stand for its terms; only the
\* status of a row ever changes (PricingRule_version_immutable).
Rule == [zone: 0 .. MaxZones, family: Family, version: 1 .. MaxRules,
         status: {"DRAFT", "ACTIVE", "INACTIVE", "RETIRED"}]

EditStep == {"idle", "create", "lock", "switch", "deactivate", "find", "archive",
             "delete", "write"}

\* What the database raised against a request that no check had refused.
Error == {"none", "taken", "failed", "immutable"}
Same == "same"

\* The rule, or the family and version; the rules to stop; the zone as it was
\* read, and the columns that an update will write.
Idle == [step |-> "idle", rule |-> None, family |-> None, version |-> 0,
         zone |-> None, found |-> {},
         written |-> [circle |-> "wide", status |-> "INACTIVE"],
         error |-> "none"]
NoOffer == [zone |-> None, rule |-> None, parcel |-> None]

Init ==
    /\ zone = <<[circle |-> "wide", status |-> "ACTIVE", version |-> 1]>>
    /\ \E f \in Family, z \in {None, 1} :
          rule = <<[zone |-> z, family |-> f, version |-> 1, status |-> "ACTIVE"]>>
    /\ quote = <<>>
    /\ edit = [a \in Admin |-> Idle]
    /\ offer = [m \in Merchant |-> NoOffer]

Goto(a, step) == edit' = [edit EXCEPT ![a].step = step]

\* A request ends: it is done, or refused with a conflict; or it fails.
Reply(a) == edit' = [edit EXCEPT ![a] = Idle]
Fail(a, error) == edit' = [edit EXCEPT ![a] = [Idle EXCEPT !.error = error]]

activeRules(z) == {r \in DOMAIN rule : rule[r].zone = z /\ rule[r].status = "ACTIVE"}
used(r) == \E q \in DOMAIN quote : quote[q].rule = r

\* Mistake: an activation does not lock its zone.
unlocked_Always(z) == TRUE

\* No activation is under way in the zone, whose row it locks: whoever writes
\* the row, or a row that refers to it, waits.
unlocked(z) ==
    \A b \in Admin : ~(edit[b].step = "switch" /\ rule[edit[b].rule].zone = z)

-----------------------------------------------------------------------------
(* Pricing rules.                                                          *)

latest(f) == Max({0} \cup {rule[r].version : r \in {s \in DOMAIN rule :
                                                      rule[s].family = f}})

\* createPricingRule and newPricingRuleVersion look up the latest version.
LookUpFamily(a) ==
    /\ edit[a].step = "idle"
    /\ Len(rule) < MaxRules
    /\ \E f \in Family, z \in DOMAIN zone :
          edit' = [edit EXCEPT ![a] = [Idle EXCEPT !.step = "create",
                     !.family = f, !.zone = z, !.version = latest(f) + 1]]
    /\ UNCHANGED <<zone, rule, quote, offer>>

\* Mistake: PricingRule_ruleFamilyKey_version_key is missing.
versionIsFree_Always(f, v) == TRUE
versionIsFree(f, v) ==
    \A r \in DOMAIN rule : ~(rule[r].family = f /\ rule[r].version = v)

CreateRule(a) ==
    /\ edit[a].step = "create"
    /\ unlocked(edit[a].zone)
    /\ IF versionIsFree(edit[a].family, edit[a].version)
       THEN /\ rule' = Append(rule, [zone |-> edit[a].zone,
                                     family |-> edit[a].family,
                                     version |-> edit[a].version,
                                     status |-> "DRAFT"])
            /\ Reply(a)
       ELSE Fail(a, "taken") /\ UNCHANGED rule
    /\ UNCHANGED <<zone, quote, offer>>

\* What a request about a rule does once it has read the rule's row.
next(r) ==
    [activate   |-> IF rule[r].zone = None THEN "conflict" ELSE "lock",
     deactivate |-> "deactivate",
     archive    |-> IF rule[r].status = "ACTIVE" THEN "conflict" ELSE "archive",
     delete     |-> IF rule[r].status = "ACTIVE" THEN "conflict"
                    ELSE IF used(r) THEN "find" ELSE "delete"]

FindRule(a) ==
    /\ edit[a].step = "idle"
    /\ \E r \in DOMAIN rule, kind \in DOMAIN next(1) :
          IF next(r)[kind] = "conflict" THEN Reply(a)
          ELSE edit' = [edit EXCEPT ![a] = [Idle EXCEPT !.step = next(r)[kind],
                                                        !.rule = r]]
    /\ UNCHANGED <<zone, rule, quote, offer>>

LockZone(a) ==
    LET r == edit[a].rule IN
    /\ edit[a].step = "lock"
    /\ unlocked(rule[r].zone)
    /\ edit' = [edit EXCEPT ![a].step = "switch",
                            ![a].found = activeRules(rule[r].zone) \ {r}]
    /\ UNCHANGED <<zone, rule, quote, offer>>

\* PricingRule_one_active_rule_per_zone.
mayBeActive(r, others) == activeRules(rule[r].zone) \ (others \cup {r}) = {}

\* setPricingStatus stops the rules it has found and starts this one.
SetActive(a) ==
    LET r == edit[a].rule
        found == edit[a].found
    IN
    /\ edit[a].step = "switch"
    /\ IF mayBeActive(r, found)
       THEN /\ rule' = [s \in DOMAIN rule |->
                          [rule[s] EXCEPT !.status =
                             CASE s = r -> "ACTIVE"
                               [] s \in found -> "INACTIVE"
                               [] OTHER -> @]]
            /\ Reply(a)
       ELSE Fail(a, "failed") /\ UNCHANGED rule
    /\ UNCHANGED <<zone, quote, offer>>

SetInactive(a) ==
    /\ edit[a].step = "deactivate"
    /\ rule' = [rule EXCEPT ![edit[a].rule].status = "INACTIVE"]
    /\ Reply(a)
    /\ UNCHANGED <<zone, quote, offer>>

\* A rule that cannot be deleted is archived: its row is read once more.
FindArchived(a) ==
    /\ edit[a].step = "find"
    /\ IF rule[edit[a].rule].status = "ACTIVE" THEN Reply(a)
       ELSE Goto(a, "archive")
    /\ UNCHANGED <<zone, rule, quote, offer>>

ArchiveRule(a) ==
    /\ edit[a].step = "archive"
    /\ rule' = [rule EXCEPT ![edit[a].rule].status = "RETIRED"]
    /\ Reply(a)
    /\ UNCHANGED <<zone, quote, offer>>

\* The database lets no row of a rule be deleted
\* (prevent_phase2_snapshot_mutation); an active one is not even selected.
DeleteRule(a) ==
    /\ edit[a].step = "delete"
    /\ IF rule[edit[a].rule].status = "ACTIVE" THEN Reply(a)
       ELSE Fail(a, "immutable")
    /\ UNCHANGED <<zone, rule, quote, offer>>

-----------------------------------------------------------------------------
(* Zones.  None is ever deleted: an inactive one has its history in the    *)
(* audit log, for which deleteServiceZone refuses.                         *)

CreateZone ==
    /\ Len(zone) < MaxZones
    /\ \E c \in Circle :
          zone' = Append(zone, [circle |-> c, status |-> "INACTIVE", version |-> 1])
    /\ UNCHANGED <<rule, quote, edit, offer>>

\* Zones of one name, as two drafts of one: the same circle may be active once
\* (assertNoDuplicateActiveZone, ServiceZone_active_name_center_radius_key).
duplicate(z, columns) ==
    /\ columns.status = "ACTIVE"
    /\ \E y \in DOMAIN zone \ {z} :
          zone[y].status = "ACTIVE" /\ zone[y].circle = columns.circle

\* Mistake: what is not given is written as it was not given.
written_AsGiven(z, given) == given

\* What an update makes of a row that it has read.
written(z, given) ==
    [circle |-> IF given.circle = Same THEN zone[z].circle ELSE given.circle,
     status |-> IF given.status = Same THEN zone[z].status ELSE given.status]

\* An update of a zone, once it has been read: every column is going to be
\* written, those that are not given as they were read.
Prepare(a, z, given) ==
    IF duplicate(z, written(z, given)) THEN Reply(a)
    ELSE edit' = [edit EXCEPT ![a] = [Idle EXCEPT !.step = "write", !.zone = z,
                    !.version = zone[z].version, !.written = written(z, given)]]

\* What an update can give; a form that gives both gives each of them so.
Given == [circle: Circle, status: {Same}] \cup [circle: {Same}, status: {"ACTIVE", "INACTIVE"}]

\* updateServiceZone, from a screen that shows the version that is read: one
\* that shows an older version is refused whatever comes.
ReadZone(a) ==
    /\ edit[a].step = "idle"
    /\ \E z \in DOMAIN zone, given \in Given :
          zone[z].version < MaxVersion /\ Prepare(a, z, given)
    /\ UNCHANGED <<zone, rule, quote, offer>>

\* setServiceZoneStatus, with the version that it has read.
ReadZoneStatus(a) ==
    /\ edit[a].step = "idle"
    /\ \E z \in DOMAIN zone, s \in {"ACTIVE", "INACTIVE"} :
          IF s = zone[z].status THEN Reply(a)
          ELSE /\ zone[z].version < MaxVersion
               /\ Prepare(a, z, [circle |-> Same, status |-> s])
    /\ UNCHANGED <<zone, rule, quote, offer>>

stillAsSeen(a) == zone[edit[a].zone].version = edit[a].version

WriteZone(a) ==
    LET z == edit[a].zone IN
    /\ edit[a].step = "write"
    /\ unlocked(z)
    /\ IF stillAsSeen(a) /\ ~duplicate(z, edit[a].written)
       THEN /\ zone' = [zone EXCEPT ![z] =
                          [circle |-> edit[a].written.circle,
                           status |-> edit[a].written.status,
                           version |-> @.version + 1]]
            /\ Reply(a)
       ELSE Reply(a) /\ UNCHANGED zone
    /\ UNCHANGED <<rule, quote, offer>>

-----------------------------------------------------------------------------
(* Quotes: createQuote reads zone, route and rule from one snapshot and    *)
(* inserts the quote later.                                                *)

pricing(z) == activeRules(z) \cup activeRules(None)

\* resolveZone takes the first zone that covers the route and has a price.
candidates(parcel) ==
    {z \in DOMAIN zone : zone[z].status = "ACTIVE" /\ covers(zone[z].circle, parcel)
                            /\ pricing(z) # {}}

\* resolvePricingRule prefers a rule of the zone to one of the city.
resolve(z) == IF activeRules(z) # {} THEN activeRules(z) ELSE activeRules(None)

ResolvePrice(m) ==
    /\ offer[m] = NoOffer
    /\ Len(quote) < MaxQuotes
    /\ \E parcel \in Parcel :
          /\ candidates(parcel) # {}
          /\ \E r \in resolve(Min(candidates(parcel))) :
                offer' = [offer EXCEPT ![m] = [zone |-> Min(candidates(parcel)),
                                               rule |-> r, parcel |-> parcel]]
    /\ UNCHANGED <<zone, rule, quote, edit>>

terms(r) == Terms(rule[r].family, rule[r].version)
price(o) == calculatePrice(terms(o.rule), o.parcel, Commission)

CreateQuote(m) ==
    /\ offer[m] # NoOffer
    /\ unlocked(offer[m].zone)
    /\ Len(quote) < MaxQuotes
    /\ quote' = Append(quote, [rule |-> offer[m].rule, parcel |-> offer[m].parcel,
                                price |-> price(offer[m])])
    /\ offer' = [offer EXCEPT ![m] = NoOffer]
    /\ UNCHANGED <<zone, rule, edit>>

-----------------------------------------------------------------------------
Next ==
    \/ CreateZone
    \/ \E a \in Admin :
          \/ LookUpFamily(a) \/ CreateRule(a)
          \/ FindRule(a) \/ LockZone(a) \/ SetActive(a) \/ SetInactive(a)
          \/ FindArchived(a) \/ ArchiveRule(a) \/ DeleteRule(a)
          \/ ReadZone(a) \/ ReadZoneStatus(a) \/ WriteZone(a)
    \/ \E m \in Merchant : ResolvePrice(m) \/ CreateQuote(m)

Spec == Init /\ [][Next]_vars

-----------------------------------------------------------------------------
(* Properties.                                                             *)

\* Rows and requests hold what the database and the handlers can hold.
TypeOK ==
    /\ zone \in Seq(Zone) /\ Len(zone) \in 1 .. MaxZones
    /\ rule \in Seq(Rule) /\ rule # <<>>
    /\ Len(quote) <= MaxQuotes
    /\ \A q \in DOMAIN quote : quote[q].rule \in DOMAIN rule
    /\ \A m \in Merchant : offer[m] # NoOffer =>
          offer[m] \in [zone: DOMAIN zone, rule: DOMAIN rule, parcel: Parcel]
    /\ \A a \in Admin :
          /\ edit[a].step \in EditStep /\ edit[a].error \in Error
          /\ edit[a].step = "write" =>
                edit[a].zone \in DOMAIN zone /\ edit[a].written \in ZoneColumns
          /\ edit[a].step \in EditStep \ {"idle", "create", "write"} =>
                edit[a].rule \in DOMAIN rule
          /\ edit[a].found \subseteq DOMAIN rule

\* "When a new rule is activated, the service zone is locked inside a
\* transaction, and the previous rule is stopped"
\* (docs/admin-operations-updates-1-to-4-report.md): a zone never has two
\* prices to choose from, whoever activates, stops and archives at once, and
\* no activation runs into the unique index.  "Historical versions are never
\* overwritten; edits create a draft version"
\* (docs/architecture/service-zones-pricing.md): the versions of a family are
\* counted without gap or double, although the latest is looked up before the
\* transaction that adds one.
RulesAreOrderly ==
    /\ \A z \in DOMAIN zone : Cardinality(activeRules(z)) <= 1
    /\ \A a \in Admin : edit[a].error # "failed"
    /\ \A f \in Family :
          LET rows == {r \in DOMAIN rule : rule[r].family = f}
          IN  {rule[r].version : r \in rows} = 1 .. Cardinality(rows)

near(ratio, dividend, divisor) ==
    2 * (dividend - ratio * divisor) \in -divisor .. divisor

\* "Percentage calculations use deterministic half-up integer rounding"
\* (docs/architecture/service-zones-pricing.md): what a merchant pays is split
\* between courier and platform without loss, no share is off by more than
\* half a unit, and the price agrees with the administrators' own arithmetic.
PricesAddUp ==
    \A q \in DOMAIN quote :
       LET amount == quote[q].price
           row == terms(quote[q].rule)
           total == amount.merchantTotalMinor
           untaxed == total - amount.taxMinor
       IN  /\ total = amount.estimatedCourierEarningMinor
                         + amount.platformCommissionMinor
           /\ amount.estimatedCourierEarningMinor \in 0 .. total
           /\ near(amount.platformCommissionMinor, total * Commission, whole)
           /\ near(amount.taxMinor, untaxed * row.taxBasisPoints, whole)
           /\ amount.estimatedReturnTripPriceMinor =
                 returnTripPriceMinor(total, row.returnTripPercentageBasisPoints)
           /\ untaxed =
                 Max({row.minimumFeeMinor,
                      coreDeliveryPriceMinor(row, quote[q].parcel.distanceMeters)
                         + amount.extrasMinor})
=============================================================================
