-------------------------------- MODULE Reports --------------------------------
(***************************************************************************)
(* What finance staff and couriers are shown of the account (the reports   *)
(* of finance.service.ts): its summary, a period's sheet, and the zones'   *)
(* dues and payments.  Reports only read; each adds up rows of its own     *)
(* choice, some the ledger's, some the periods' stored totals.             *)
(*                                                                         *)
(* The zone of an order is fixed by its quote; here it is any.  A payment  *)
(* is not made for an order, so what a period has been paid is divided     *)
(* among the zones of its orders (attributePaymentsToZones).               *)
(***************************************************************************)
EXTENDS Settlement

CONSTANTS Zone,     \* service zones: numbers, for the order of their ids
          MaxZones, \* bounds on the zones and the dues for which the
          MaxDue    \* division is checked

ASSUME ZoneAssumption == IsFiniteSet(Zone) /\ Zone \subseteq Nat
ASSUME DivisionAssumption == MaxZones \in Nat /\ MaxDue \in Nat

-----------------------------------------------------------------------------
(* The account.                                                            *)

entriesOf(types) == {i \in DOMAIN ledger : ledger[i].type \in types}

\* Reversals of adjustments carry the kind "admin_adjustment"; those of payments
\* do not.
adminReversals ==
    entriesOf({"REVERSAL"}) \ {payment[p].entry : p \in DOMAIN payment}

\* Mistake: the reversals of payments are adjustments as well.
adjusted_AllReversals ==
    sumOf(ledger, entriesOf({"ADJUSTMENT_DEBIT", "ADJUSTMENT_CREDIT", "REVERSAL"}))
adjusted ==
    sumOf(ledger, entriesOf({"ADJUSTMENT_DEBIT", "ADJUSTMENT_CREDIT"})
                    \cup adminReversals)

accountSummary ==
    [totalCommissionDue |-> sumOf(ledger, entriesOf({"COMMISSION_DUE"})),
     totalRecordedPayments |->
        SumFunction([p \in activePayments(payment) |-> payment[p].amount]),
     totalAdjustments |-> adjusted,
     totalWaived |-> -sumOf(ledger, entriesOf({"WAIVER"})),
     remainingAmount |-> clamp(ledgerBalance)]

-----------------------------------------------------------------------------
(* A period's sheet.                                                       *)

linesOf(start) == {l \in line : l.period = start}
allocationsOf(p, start) == {a \in payment[p].allocations : a.period = start}

\* settlementCsv: the rows of one record type, with their amounts.
ledgerRows(start) ==
    {[type |-> ledger[l.entry].type, id |-> l.entry,
      amount |-> ledger[l.entry].amount] : l \in linesOf(start)}

paymentRows(start) ==
    UNION {{[type |-> IF payment[p].reverses = None THEN "PAYMENT" ELSE "REVERSAL",
             id |-> p, amount |-> a.amount] : a \in allocationsOf(p, start)}
           : p \in DOMAIN payment}

amounts(records) == SumFunction([r \in records |-> r.amount])

\* What a reader of the sheet makes of it.  A payment's own ledger entry, which
\* closing a period may put on a line, says nothing about that period.
sheetBalance(start) ==
    amounts({r \in ledgerRows(start) : r.type # "EXTERNAL_PAYMENT"})
    - amounts({r \in paymentRows(start) : r.type = "PAYMENT"})
    + amounts({r \in paymentRows(start) : r.type = "REVERSAL"})

-----------------------------------------------------------------------------
(* The zones.                                                              *)

\* The adjustments that name an order; it decides their zone.
named == {i \in DOMAIN ledger : ledger[i].type # "COMMISSION_DUE"
                                /\ ledger[i].orders # {}}

\* What a period's lines ask of a zone's orders.
dueOf(start, zone, zoneOf) ==
    sumOf(ledger, {l.entry : l \in {m \in linesOf(start) :
                       \E o \in ledger[m.entry].orders : zoneOf[o] = zone}})

\* The largest remainder: every zone with a positive due gets its share rounded
\* down, and what is left goes, one by one, to those that lost the most.
positive(due) == {z \in DOMAIN due : due[z] > 0}
totalDue(due) == SumFunctionOnSet(due, positive(due))
roundedDown(amount, due, z) == (amount * due[z]) \div totalDue(due)
remainder(amount, due, z) == (amount * due[z]) % totalDue(due)

leftOver(amount, due) ==
    amount - SumFunction([z \in positive(due) |-> roundedDown(amount, due, z)])

\* The zones before z in the order in which the rest is given away.
before(amount, due, z) ==
    {y \in positive(due) :
        \/ remainder(amount, due, y) > remainder(amount, due, z)
        \/ remainder(amount, due, y) = remainder(amount, due, z) /\ y < z}

\* Mistake: every share is rounded to the nearest piastre.
attributed_Rounded(amount, due, z) ==
    (2 * amount * due[z] + totalDue(due)) \div (2 * totalDue(due))

attributed(amount, due, z) ==
    roundedDown(amount, due, z)
    + (IF Cardinality(before(amount, due, z)) < leftOver(amount, due) THEN 1 ELSE 0)

\* attributePaymentsToZones: nothing is divided where no zone is owed anything.
zoneShares(p, a, due) ==
    {[payment |-> p, period |-> a.period, zone |-> z,
      amount |-> attributed(a.amount, due, z)] : z \in positive(due)}

duesOf(start, zoneOf) == [z \in Zone |-> dueOf(start, z, zoneOf)]

sharesOf(p, zoneOf) ==
    UNION {zoneShares(p, a, duesOf(a.period, zoneOf)) : a \in payment[p].allocations}

attributePaymentsToZones(zoneOf) ==
    UNION {sharesOf(p, zoneOf) : p \in activePayments(payment)}

\* zoneFinanceData, of which dashboard and detail show parts.
billed(zone, zoneOf) ==
    {s \in DOMAIN period : \E l \in linesOf(s) :
        \E o \in ledger[l.entry].orders : zoneOf[o] = zone}

zoneDue(zone, zoneOf) ==
    SumFunction([s \in billed(zone, zoneOf) |-> dueOf(s, zone, zoneOf)])

zoneFinance(zoneOf) ==
    LET shares == attributePaymentsToZones(zoneOf) IN
    [z \in Zone |->
        LET due == zoneDue(z, zoneOf)
            paid == amounts({x \in shares : x.zone = z})
        IN  [due |-> due, paid |-> paid, outstanding |-> clamp(due - paid),
             open |-> {s \in billed(z, zoneOf) : period[s].status = "OPEN"},
             overdue |-> {s \in billed(z, zoneOf) : period[s].status = "OVERDUE"}]]

-----------------------------------------------------------------------------
(* Properties.                                                             *)

\* Dividing keeps "every cent accounted for" (admin-operations-domain.ts), and no
\* zone gets a piastre more or less than its share.
DividesExactly ==
    \A due \in [1 .. MaxZones -> -1 .. MaxDue] : \A amount \in 1 .. MaxDue :
        positive(due) # {} =>
            /\ SumFunction([z \in positive(due) |-> attributed(amount, due, z)])
                 = amount
            /\ \A z \in positive(due) :
                  attributed(amount, due, z) - roundedDown(amount, due, z) \in {0, 1}

\* The parts of the summary make up what remains.
SummaryAddsUp ==
    LET s == accountSummary IN
    s.remainingAmount = clamp(s.totalCommissionDue + s.totalAdjustments
                              - s.totalWaived - s.totalRecordedPayments)

\* A sheet's rows make up the stored balance of its period.
SheetsAddUp == \A start \in DOMAIN period : sheetBalance(start) = net(period[start])

\* The zones together are asked for the stored commissions and for the adjustments
\* that name an order, and credited with what the periods were paid in which any
\* zone owes something, wherever the orders lie.
ZonesAddUp ==
    \A zoneOf \in [Order -> Zone] : \A f \in {zoneFinance(zoneOf)} :
        /\ SumFunction([z \in Zone |-> f[z].due])
             = SumFunction([s \in DOMAIN period |-> period[s].commission])
               + sumOf(ledger, named)
        /\ SumFunction([z \in Zone |-> f[z].paid])
             = SumFunction([s \in {t \in DOMAIN period :
                                     \E z \in Zone : dueOf(t, z, zoneOf) > 0}
                              |-> period[s].payments])

\* The reports tell one story, although payments are reversed, weeks overlap,
\* shares are rounded and every report adds up other rows.
ReportsAgree == DividesExactly /\ SummaryAddsUp /\ SheetsAddUp /\ ZonesAddUp
=============================================================================
