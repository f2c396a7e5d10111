------------------------------- MODULE Settlement -------------------------------
(***************************************************************************)
(* What one courier owes the platform: the append-only ledger, the weekly  *)
(* settlement periods that bill its entries, the payments that finance     *)
(* staff record, and the projections (totals and status) stored with each  *)
(* period.  No transaction touches two couriers' rows.                     *)
(*                                                                         *)
(* Orders are completed by the API (OrderFinalizationService) and by the   *)
(* worker (completeDeliveredOrders), which compute the week and the        *)
(* projection in code of their own.  The worker's job reads the clock once *)
(* and then completes its candidates one transaction at a time; when one   *)
(* throws, the job ends.  Time counts days.                                *)
(***************************************************************************)
EXTENDS Integers, Sequences, FiniteSets, Functions

CONSTANTS Order,
          Commission,  \* platformCommissionMinor of every order
          Amount,      \* amounts of payments and adjustments
          Week,        \* length of a settlement week
          WorkerShift, \* the worker's week starts this much before the API's
          Grace,       \* gracePeriodDays
          MaxTime,     \* bound on the clock
          MaxEntries,  \* bound on the ledger's length
          MaxNamed     \* the same for adjustments that name an order

ASSUME AmountAssumption == Commission \in Nat \ {0} /\ Amount \subseteq Nat \ {0}
ASSUME WeekAssumption ==
    Week \in Nat \ {0} /\ WorkerShift \in 0 .. Week - 1 /\ Grace \in Nat
ASSUME BoundAssumption ==
    MaxTime \in Nat /\ MaxEntries \in Nat /\ MaxNamed \in Nat

VARIABLES now,
          ledger,  \* CourierLedgerEntry rows; a row's index is its id
          line,    \* SettlementLine rows
          period,  \* SettlementPeriod rows, by their start
          payment, \* ExternalPaymentRecord rows with their allocations
          job      \* the worker's completion job

vars == <<now, ledger, line, period, payment, job>>

None == 0
NoJob == [at |-> 0, todo |-> {}]

\* Statuses as far as money depends on them: UNPAID stands for NOT_DUE,
\* DUE_SOON, PARTIALLY_PAID and ADJUSTED, PAID also for WAIVED.
Status == {"OPEN", "UNPAID", "OVERDUE", "PAID"}

EntryType == {"COMMISSION_DUE", "ADJUSTMENT_DEBIT", "ADJUSTMENT_CREDIT",
              "WAIVER", "EXTERNAL_PAYMENT", "REVERSAL"}

Entry == [type: EntryType, amount: Int, at: Nat, orders: SUBSET Order,
          reverses: Nat]

Row == [status: Status, commission: Int, adjustments: Int, waived: Nat,
        payments: Nat, remaining: Nat]

\* A payment's ledger entry is found again by its source key.
Payment == [amount: Nat, allocations: SUBSET [period: Int, amount: Nat],
            reverses: Nat, entry: Nat]

Init ==
    /\ now = 0
    /\ ledger = <<>>
    /\ line = {}
    /\ period = [start \in {} |-> 0]
    /\ payment = <<>>
    /\ job = NoJob

-----------------------------------------------------------------------------
(* Weeks and projections.                                                  *)

\* weeklySettlementBounds: Monday to Monday.
apiWeek(t) == t - (t % Week)

\* The worker's weeklyBounds: Saturday to Saturday.
workerWeek(t) == t - ((t + WorkerShift) % Week)

endOf(start) == start + Week
dueAt(start) == endOf(start) + Grace

within(start, t) == start <= t /\ t < endOf(start)

\* Mistake: a credit balance makes the remaining amount negative.
unclamped(n) == n

clamp(n) == IF n < 0 THEN 0 ELSE n

entryAmounts(entries) == [i \in DOMAIN entries |-> entries[i].amount]

sumOf(entries, ids) == SumFunctionOnSet(entryAmounts(entries), ids)

\* Mistake: a reversed payment still counts.
originalPayments(payments) ==
    {i \in DOMAIN payments : payments[i].reverses = None}

\* A payment counts until it is reversed, and a reversal never does.
activePayments(payments) ==
    {i \in DOMAIN payments :
        /\ payments[i].reverses = None
        /\ \A j \in DOMAIN payments : payments[j].reverses # i}

totalAllocated(allocations) == SumFunction([a \in allocations |-> a.amount])

paidTo(start, p) == totalAllocated({a \in p.allocations : a.period = start})

allocatedTo(start, payments) ==
    SumFunctionOnSet([i \in DOMAIN payments |-> paidTo(start, payments[i])],
                     activePayments(payments))

\* settlementProjection over the period's lines and active allocations.
projection(start, entries, lines, payments) ==
    LET ids(types) == {l.entry : l \in {m \in lines : m.period = start
                                        /\ entries[m.entry].type \in types}}
        commission == sumOf(entries, ids({"COMMISSION_DUE"}))
        adjustments == sumOf(entries, ids({"ADJUSTMENT_DEBIT",
                                           "ADJUSTMENT_CREDIT", "REVERSAL"}))
        waived == -sumOf(entries, ids({"WAIVER"}))
        paid == allocatedTo(start, payments)
    IN  [commission |-> commission, adjustments |-> adjustments,
         waived |-> waived, payments |-> paid,
         remaining |-> clamp(commission + adjustments - waived - paid)]

settlementStatus(open, remaining, start, at) ==
    IF open THEN "OPEN"
    ELSE IF remaining = 0 THEN "PAID"
    ELSE IF at > dueAt(start) THEN "OVERDUE" ELSE "UNPAID"

withStatus(totals, status) ==
    [status |-> status, commission |-> totals.commission,
     adjustments |-> totals.adjustments, waived |-> totals.waived,
     payments |-> totals.payments, remaining |-> totals.remaining]

\* refreshSettlementProjection, over the entries, lines and payments as the
\* transaction leaves them.
refreshed(start, open, entries, lines, payments) ==
    LET totals == projection(start, entries, lines, payments) IN
    withStatus(totals,
               settlementStatus(open, totals.remaining, start, now))

isOpen(start) == start \notin DOMAIN period \/ period[start].status = "OPEN"

Store(rows) ==
    period' = [start \in DOMAIN period \cup DOMAIN rows |->
                 IF start \in DOMAIN rows THEN rows[start] ELSE period[start]]

-----------------------------------------------------------------------------
(* Completing orders.                                                      *)

commissionOf(o) == {i \in DOMAIN ledger : ledger[i].type = "COMMISSION_DUE"
                                          /\ o \in ledger[i].orders}

\* The commission entry, on a line of the period that starts at start.
Bill(o, at, start) ==
    /\ commissionOf(o) = {}
    /\ Len(ledger) < MaxEntries
    /\ ledger' = Append(ledger, [type |-> "COMMISSION_DUE",
                                 amount |-> Commission, at |-> at,
                                 orders |-> {o}, reverses |-> None])
    /\ line' = line \cup {[entry |-> Len(ledger) + 1, period |-> start]}
    /\ UNCHANGED <<now, payment>>

\* finalizeInTransaction: a resolved dispute or a confirmed return.
Finalize(o) ==
    LET start == apiWeek(now) IN
    /\ Bill(o, now, start)
    /\ Store([s \in {start} |-> refreshed(s, isOpen(s), ledger', line', payment)])
    /\ UNCHANGED job

\* completeDeliveredOrders: which orders are due is OrderLifecycle's matter.
StartCompletion(todo) ==
    /\ job = NoJob
    /\ todo # {}
    /\ \A o \in todo : commissionOf(o) = {}
    /\ job' = [at |-> now, todo |-> todo]
    /\ UNCHANGED <<now, ledger, line, period, payment>>

Drop(o) == job' = IF job.todo = {o} THEN NoJob
                  ELSE [job EXCEPT !.todo = @ \ {o}]

\* The row the worker's upsert leaves: it adds to the stored totals and keeps
\* the status, whatever it is.
incremented(start) ==
    IF start \in DOMAIN period
    THEN [period[start] EXCEPT !.commission = @ + Commission,
                               !.remaining = @ + Commission]
    ELSE [status |-> "OPEN", commission |-> Commission, adjustments |-> 0,
          waived |-> 0, payments |-> 0, remaining |-> Commission]

\* Mistake: the database does not check what the worker's increments leave.
unchecked(row) == TRUE

\* SettlementPeriod_projection_check of the database.
projectionCheck(row) ==
    row.remaining =
        clamp(row.commission + row.adjustments - row.waived - row.payments)

WorkerComplete(o) ==
    LET start == workerWeek(job.at) IN
    /\ o \in job.todo
    /\ Bill(o, job.at, start)
    /\ projectionCheck(incremented(start))
    /\ Store([s \in {start} |-> incremented(s)])
    /\ Drop(o)

\* The order was completed meanwhile: nothing is written.
WorkerSkip(o) ==
    /\ o \in job.todo
    /\ commissionOf(o) # {}
    /\ Drop(o)
    /\ UNCHANGED <<now, ledger, line, period, payment>>

\* The check rejects the row, or the worker dies: the rest of the batch waits
\* for the next run.
WorkerFail ==
    /\ job # NoJob
    /\ job' = NoJob
    /\ UNCHANGED <<now, ledger, line, period, payment>>

-----------------------------------------------------------------------------
(* Closing periods, payments, adjustments.                                 *)

\* Mistake: an entry on a line of an overlapping week counts as missing.
missingHere(start) ==
    {i \in DOMAIN ledger : within(start, ledger[i].at)
                           /\ [entry |-> i, period |-> start] \notin line}

\* Entries of the period's week that are on no line yet, of any type.
missing(start) ==
    {i \in DOMAIN ledger : within(start, ledger[i].at)
                           /\ \A l \in line : l.entry # i}

\* closeSettlement of the API and closeEligibleSettlements of the worker add
\* the missing lines and recompute the totals and the status.
Close(start) ==
    /\ start \in DOMAIN period
    /\ period[start].status = "OPEN"
    /\ endOf(start) <= now
    /\ line' = line \cup {[entry |-> i, period |-> start] : i \in missing(start)}
    /\ Store([s \in {start} |-> refreshed(s, FALSE, ledger, line', payment)])
    /\ UNCHANGED <<now, ledger, payment, job>>

\* markOverdueSettlements: one update of all rows.
overdue(start) ==
    /\ period[start].status = "UNPAID"
    /\ period[start].remaining > 0
    /\ dueAt(start) < now

MarkOverdue ==
    /\ \E start \in DOMAIN period : overdue(start)
    /\ period' = [start \in DOMAIN period |->
                    IF overdue(start)
                    THEN [period[start] EXCEPT !.status = "OVERDUE"]
                    ELSE period[start]]
    /\ UNCHANGED <<now, ledger, line, payment, job>>

outstanding == {start \in DOMAIN period : period[start].status # "OPEN"
                                          /\ period[start].remaining > 0}

owedOn(starts) == SumFunction([s \in starts |-> period[s].remaining])

\* Mistake: every period gets its share of the whole amount.
allocationOfAll(amount, start) ==
    IF amount < period[start].remaining THEN amount ELSE period[start].remaining

\* Mistake: the newest periods are paid first.
allocationNewestFirst(amount, start) ==
    LET left == amount - owedOn({s \in outstanding : s > start}) IN
    IF left <= 0 THEN 0
    ELSE IF left < period[start].remaining THEN left
    ELSE period[start].remaining

\* allocateOldestSettlements: what is left after the older periods' share.
allocation(amount, start) ==
    LET left == amount - owedOn({s \in outstanding : s < start}) IN
    IF left <= 0 THEN 0
    ELSE IF left < period[start].remaining THEN left
    ELSE period[start].remaining

allocateOldestSettlements(amount) ==
    {[period |-> s, amount |-> allocation(amount, s)] :
        s \in {t \in outstanding : allocation(amount, t) > 0}}

touched(allocations) == {a.period : a \in allocations}

\* Refreshes every period of the allocations; none of them is open.
RefreshAllocated(allocations) ==
    Store([s \in touched(allocations) |->
             refreshed(s, FALSE, ledger', line, payment')])

\* recordExternalPaymentInTransaction: more than is outstanding is refused; the
\* administrator says when it was paid.
RecordPayment(amount, paidAt) ==
    LET allocations == allocateOldestSettlements(amount) IN
    /\ amount <= owedOn(outstanding)
    /\ Len(ledger) < MaxEntries
    /\ payment' = Append(payment, [amount |-> amount, reverses |-> None,
                                   allocations |-> allocations,
                                   entry |-> Len(ledger) + 1])
    /\ ledger' = Append(ledger, [type |-> "EXTERNAL_PAYMENT",
                                 amount |-> -amount, at |-> paidAt,
                                 orders |-> {}, reverses |-> None])
    /\ RefreshAllocated(allocations)
    /\ UNCHANGED <<now, line, job>>

\* The unique index on reversesEntryId: an entry is reversed at most once.
notReversed(i) == \A j \in DOMAIN ledger : ledger[j].reverses # i

\* reverseExternalPayment: gives the allocations back, and enters a REVERSAL
\* that is put on no line.
ReversePayment(p) ==
    /\ p \in activePayments(payment)
    /\ notReversed(payment[p].entry)
    /\ Len(ledger) < MaxEntries
    /\ payment' = Append(payment, [payment[p] EXCEPT !.reverses = p,
                                                  !.entry = Len(ledger) + 1])
    /\ ledger' = Append(ledger, [type |-> "REVERSAL",
                                 amount |-> payment[p].amount, at |-> now,
                                 orders |-> {}, reverses |-> payment[p].entry])
    /\ RefreshAllocated(payment[p].allocations)
    /\ UNCHANGED <<now, line, job>>

\* createAdjustment: an entry on a line of a period the administrator names,
\* or of the default one, which may be any; it may be for an order.
Adjust(type, amount, reverses, orders, start) ==
    /\ start \in DOMAIN period
    /\ orders = {} \/ Len(ledger) < MaxNamed
    /\ Len(ledger) < MaxEntries
    /\ ledger' = Append(ledger, [type |-> type, amount |-> amount, at |-> now,
                                 orders |-> orders, reverses |-> reverses])
    /\ line' = line \cup {[entry |-> Len(ledger) + 1, period |-> start]}
    /\ Store([s \in {start} |-> refreshed(s, isOpen(s), ledger', line', payment)])
    /\ UNCHANGED <<now, payment, job>>

CreateAdjustment(start) ==
    \E orders \in {{}} \cup {{o} : o \in Order} :
        \/ \E amount \in Amount :
              \/ Adjust("ADJUSTMENT_DEBIT", amount, None, orders, start)
              \/ Adjust("ADJUSTMENT_CREDIT", -amount, None, orders, start)
              \/ Adjust("WAIVER", -amount, None, orders, start)
        \/ \E i \in DOMAIN ledger :
              /\ notReversed(i)
              /\ Adjust("REVERSAL", -ledger[i].amount, i, orders, start)

Tick ==
    /\ now < MaxTime
    /\ now' = now + 1
    /\ UNCHANGED <<ledger, line, period, payment, job>>

Next ==
    \/ \E o \in Order : Finalize(o) \/ WorkerComplete(o) \/ WorkerSkip(o)
    \/ \E todo \in SUBSET Order : StartCompletion(todo)
    \/ WorkerFail
    \/ \E start \in DOMAIN period : Close(start) \/ CreateAdjustment(start)
    \/ MarkOverdue
    \/ \E amount \in Amount, paidAt \in 0 .. now : RecordPayment(amount, paidAt)
    \/ \E p \in DOMAIN payment : ReversePayment(p)
    \/ Tick

Spec == Init /\ [][Next]_vars

-----------------------------------------------------------------------------
(* What must hold of a courier's account.                                  *)

TypeOK ==
    /\ now \in Nat
    /\ ledger \in Seq(Entry)
    /\ line \subseteq [entry: 1 .. Len(ledger), period: DOMAIN period]
    /\ DOMAIN period \subseteq Int
    /\ \A start \in DOMAIN period : period[start] \in Row
    /\ payment \in Seq(Payment)
    /\ job \in [at: Nat, todo: SUBSET Order]

\* docs: "Settlement totals/status are rebuildable projections" (adr/0013).
\* The totals stored by six pieces of code, one of which adds to them instead
\* of recomputing them, are those refreshSettlementProjection would compute.
ProjectionIsRebuildable ==
    \A start \in DOMAIN period :
        LET totals == projection(start, ledger, line, payment) IN
        period[start] = withStatus(totals, period[start].status)

\* Entries of payment reversals that closing a period has put on its lines.
sweptReversals ==
    {payment[p].entry : p \in {q \in DOMAIN payment : payment[q].reverses # None}}
        \cap {l.entry : l \in line}

\* What the ledger says the courier owes (accountSummary) and what the
\* settlements do, before either is clamped at zero.
ledgerBalance == sumOf(ledger, DOMAIN ledger)

net(row) == row.commission + row.adjustments - row.waived - row.payments

settlementBalance == SumFunction([s \in DOMAIN period |-> net(period[s])])

\* API and worker race to complete orders, and closing periods sweep up
\* entries without a line: no order has two commissions, every commission is
\* billed, nothing is billed twice, and ledger and settlements drift apart by
\* nothing but payment reversals that closing a period billed again.
BilledOnce ==
    /\ \A o \in Order : Cardinality(commissionOf(o)) <= 1
    /\ \A i \in DOMAIN ledger :
           LET lines == {l \in line : l.entry = i} IN
           /\ Cardinality(lines) <= 1
           /\ ledger[i].type = "COMMISSION_DUE" => lines # {}
    /\ settlementBalance = ledgerBalance + sumOf(ledger, sweptReversals)

\* docs: "allocates the amount to the oldest closed outstanding settlements
\* first" (phase-3-marketplace-accounting.md:149).  A payment is allocated to the
\* last piastre; when it reaches a period, every older closed one is settled by
\* then, and no period is charged more than it owed.
OldestFirst ==
    [][Len(payment') > Len(payment) /\ payment'[Len(payment')].reverses = None =>
         LET new == payment'[Len(payment')] IN
         /\ totalAllocated(new.allocations) = new.amount
         /\ \A a \in new.allocations :
              /\ a.amount <= period[a.period].remaining
              /\ \A s \in DOMAIN period :
                    s < a.period /\ period'[s].status # "OPEN" =>
                        period'[s].remaining = 0]_vars

\* docs: "Courier account totals reconcile" (phase-2.md:1019).
Reconciles == settlementBalance = ledgerBalance
=============================================================================
