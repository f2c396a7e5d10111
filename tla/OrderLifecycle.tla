---------------------------- MODULE OrderLifecycle ----------------------------
(***************************************************************************)
(* The life of delivery orders: every API command and every worker job     *)
(* that writes a DeliveryOrder row, its DeliveryDispute row or its         *)
(* commission entry.  One action is one database transaction: the code     *)
(* locks the order row (SELECT ... FOR UPDATE), rechecks, and writes with  *)
(* a conditional update, so a transaction takes effect at one instant.     *)
(* What is not atomic in the code is not atomic here:                      *)
(*  - a client decides on the screen it loaded, which may be stale by the  *)
(*    time its command runs; the command carries the version it saw;       *)
(*  - a worker job reads the clock and its candidates once, then runs one  *)
(*    transaction per candidate with that old clock, and may crash between *)
(*    any two of them.                                                     *)
(* Which courier is eligible to accept is left open here (any courier may  *)
(* be); module CourierAcceptance models that check.                        *)
(***************************************************************************)
EXTENDS OrderDomain, Sequences, FiniteSets

CONSTANTS Order, Courier, NoCourier, Worker,
          AcceptanceWindow,  \* courierAcceptanceWindowMs
          Settings,          \* versions PlatformOperationalSetting may take
          MaxTime,           \* bound on the clock
          MaxVersion         \* bound on handing an accepted order back

ASSUME NoCourierAssumption == NoCourier \notin Courier
ASSUME WindowAssumption == AcceptanceWindow \in Nat \ {0}
ASSUME SettingsAssumption ==
    Settings \subseteq [disputeWindow: Nat \ {0}, returnTimeout: Nat \ {0}]
ASSUME BoundAssumption == MaxTime \in Nat /\ MaxVersion \in Nat

VARIABLES now,        \* the clock of API and worker
          setting,    \* the operational setting in force
          order,      \* DeliveryOrder rows
          dispute,    \* DeliveryDispute rows, one at most per order
          commission, \* COMMISSION_DUE entries of the courier ledger
          trail,      \* OrderEvent rows appended by the latest transaction
          screen,     \* what some client loaded last, per order
          job         \* what each worker is doing

vars == <<now, setting, order, dispute, commission, trail, screen, job>>

-----------------------------------------------------------------------------
Time == Nat \cup {NoTime}

OrderRow ==
    [status: OrderStatus \cup {"ABSENT"},
     courierId: Courier \cup {NoCourier},
     version: Nat,
     acceptanceExpiresAt: Time,
     dispatchAttemptCount: Nat,
     cancelledAfterPickup: BOOLEAN,
     deliveryDisputeDeadlineAt: Time,
     returnReportedAt: Time,
     financialFinalizedAt: Time]

DisputeRow ==
    [status: DisputeStatus, courierId: Courier \cup {NoCourier}, version: Nat]

Snapshot == [version: Nat, status: OrderStatus \cup {"ABSENT"},
             disputeVersion: Nat]

Event == [from: OrderStatus \cup {"ABSENT"}, to: OrderStatus]

Job == [kind: {"idle", "expire", "complete"}, now: Nat, todo: SUBSET Order]

Idle == [kind |-> "idle", now |-> 0, todo |-> {}]

absent ==
    [status |-> "ABSENT", courierId |-> NoCourier, version |-> 0,
     acceptanceExpiresAt |-> NoTime, dispatchAttemptCount |-> 0,
     cancelledAfterPickup |-> FALSE, deliveryDisputeDeadlineAt |-> NoTime,
     returnReportedAt |-> NoTime, financialFinalizedAt |-> NoTime]

SnapshotOf(o) == [version |-> order[o].version, status |-> order[o].status,
                  disputeVersion |-> dispute[o].version]

\* A command is sent from a screen loaded just now or from an older one.
Seen(o) == {SnapshotOf(o), screen[o]}

E(from, to) == [from |-> from, to |-> to]

Init ==
    /\ now = 0
    /\ setting \in Settings
    /\ order = [o \in Order |-> absent]
    /\ dispute = [o \in Order |->
                    [status |-> "NONE", courierId |-> NoCourier, version |-> 0]]
    /\ commission = {}
    /\ trail = [o \in Order |-> <<>>]
    /\ screen = [o \in Order |->
                   [version |-> 0, status |-> "ABSENT", disputeVersion |-> 0]]
    /\ job = [w \in Worker |-> Idle]

\* A transaction's write to an order row with the events it appends.
Put(o, row, events) ==
    /\ order' = [order EXCEPT ![o] = row]
    /\ trail' = [trail EXCEPT ![o] = events]

-----------------------------------------------------------------------------
(* Merchant, administrator and courier commands.                           *)

\* createOrder: the quote's one order; module Quotes models the quote.
CreateOrder(o) ==
    /\ order[o].status = "ABSENT"
    /\ Put(o, [order[o] EXCEPT !.status = "SEARCHING_COURIER",
                               !.version = 1,
                               !.acceptanceExpiresAt = now + AcceptanceWindow,
                               !.dispatchAttemptCount = 1],
              <<E("ABSENT", "DRAFT"), E("DRAFT", "QUOTED"),
                E("QUOTED", "SEARCHING_COURIER"),
                E("SEARCHING_COURIER", "SEARCHING_COURIER")>>)
    /\ UNCHANGED <<now, setting, dispute, commission, screen, job>>

\* accept: the first courier to commit wins.
Accept(c, o, seen) ==
    /\ order[o].status = "SEARCHING_COURIER"
    /\ order[o].courierId = NoCourier
    /\ ~acceptanceIsExpired(order[o].acceptanceExpiresAt, now)
    /\ order[o].version = seen.version
    /\ Put(o, [order[o] EXCEPT !.status = "COURIER_ASSIGNED",
                               !.courierId = c,
                               !.acceptanceExpiresAt = NoTime,
                               !.version = @ + 1],
              <<E("SEARCHING_COURIER", "COURIER_ASSIGNED")>>)
    /\ UNCHANGED <<now, setting, dispute, commission, screen, job>>

\* Mistake: a delivery starts no dispute window.
TransitionWithoutWindow(c, o, command, seen) ==
    /\ order[o].courierId = c
    /\ order[o].version = seen.version
    /\ order[o].status \in command.from
    /\ Put(o, [order[o] EXCEPT !.status = command.to, !.version = @ + 1],
              <<E(order[o].status, command.to)>>)
    /\ UNCHANGED <<now, setting, dispute, commission, screen, job>>

\* transition: the nine lifecycle commands of the assigned courier.
Transition(c, o, command, seen) ==
    /\ order[o].courierId = c
    /\ order[o].version = seen.version
    /\ order[o].status \in command.from
    /\ canTransitionInPhaseThree(order[o].status, command.to)
    /\ Put(o, [order[o] EXCEPT
                 !.status = command.to,
                 !.deliveryDisputeDeadlineAt =
                     IF command.to = "DELIVERED"
                     THEN now + setting.disputeWindow ELSE @,
                 !.returnReportedAt =
                     IF command.to = "RETURN_AWAITING_MERCHANT_CONFIRMATION"
                     THEN now ELSE @,
                 !.version = @ + 1],
              <<E(order[o].status, command.to)>>)
    /\ UNCHANGED <<now, setting, dispute, commission, screen, job>>

\* Mistake: the order handed back gets no new window.
HandBackWithoutWindow(c, o, seen) ==
    /\ order[o].courierId = c
    /\ order[o].version = seen.version
    /\ order[o].status \in courierCancellable
    /\ order[o].version < MaxVersion
    /\ Put(o, [order[o] EXCEPT !.status = "SEARCHING_COURIER",
                               !.courierId = NoCourier,
                               !.version = @ + 1],
              <<E(order[o].status, "SEARCHING_COURIER")>>)
    /\ UNCHANGED <<now, setting, dispute, commission, screen, job>>

\* Mistake: handing back uses up a search attempt.
HandBackCounted(c, o, seen) ==
    /\ order[o].courierId = c
    /\ order[o].version = seen.version
    /\ order[o].status \in courierCancellable
    /\ order[o].version < MaxVersion
    /\ Put(o, [order[o] EXCEPT !.status = "SEARCHING_COURIER",
                               !.courierId = NoCourier,
                               !.acceptanceExpiresAt = now + AcceptanceWindow,
                               !.dispatchAttemptCount = @ + 1,
                               !.version = @ + 1],
              <<E(order[o].status, "SEARCHING_COURIER")>>)
    /\ UNCHANGED <<now, setting, dispute, commission, screen, job>>

\* cancelBeforePickup: the courier hands the order back; it is published
\* again with a new window and the attempt it was on.
CancelBeforePickup(c, o, seen) ==
    /\ order[o].courierId = c
    /\ order[o].version = seen.version
    /\ order[o].status \in courierCancellable
    /\ order[o].version < MaxVersion
    /\ Put(o, [order[o] EXCEPT !.status = "SEARCHING_COURIER",
                               !.courierId = NoCourier,
                               !.acceptanceExpiresAt = now + AcceptanceWindow,
                               !.version = @ + 1],
              <<E(order[o].status, "SEARCHING_COURIER")>>)
    /\ UNCHANGED <<now, setting, dispute, commission, screen, job>>

\* The row and event of cancel, for the mistakes below.
CancelTo(o, target, courierId, eventTarget) ==
    /\ Put(o, [order[o] EXCEPT
                 !.status = target,
                 !.courierId = courierId,
                 !.acceptanceExpiresAt = NoTime,
                 !.cancelledAfterPickup = (target = "RETURNING_TO_STORE"),
                 !.version = @ + 1],
              <<E(order[o].status, eventTarget)>>)
    /\ UNCHANGED <<now, setting, dispute, commission, screen, job>>

\* Mistake: no check whether the status may be cancelled at all.
CancelAnything(o, seen) ==
    LET target == cancellationTarget(order[o].status) IN
    /\ order[o].status # "CANCELLED" /\ ~order[o].cancelledAfterPickup
    /\ order[o].version = seen.version
    /\ CancelTo(o, target, order[o].courierId, target)

\* Mistake: a cancelled order keeps its courier.
CancelKeepingCourier(o, seen) ==
    LET target == cancellationTarget(order[o].status) IN
    /\ order[o].status # "CANCELLED" /\ ~order[o].cancelledAfterPickup
    /\ target # "REFUSED"
    /\ order[o].version = seen.version
    /\ CancelTo(o, target, order[o].courierId, target)

\* Mistake: the version the client saw is not compared.
CancelUnversioned(o, seen) ==
    LET target == cancellationTarget(order[o].status)
        courierId == IF target = "CANCELLED" THEN NoCourier ELSE order[o].courierId
    IN
    /\ order[o].status # "CANCELLED" /\ ~order[o].cancelledAfterPickup
    /\ target # "REFUSED"
    /\ CancelTo(o, target, courierId, target)

\* Mistake: the event always says CANCELLED.
CancelEventFixed(o, seen) ==
    LET target == cancellationTarget(order[o].status)
        courierId == IF target = "CANCELLED" THEN NoCourier ELSE order[o].courierId
    IN
    /\ order[o].status # "CANCELLED" /\ ~order[o].cancelledAfterPickup
    /\ target # "REFUSED"
    /\ order[o].version = seen.version
    /\ CancelTo(o, target, courierId, "CANCELLED")

\* cancel: by the merchant or an administrator; an order already cancelled is
\* answered without a write.
Cancel(o, seen) ==
    LET target == cancellationTarget(order[o].status) IN
    /\ order[o].status # "CANCELLED" /\ ~order[o].cancelledAfterPickup
    /\ target # "REFUSED"
    /\ order[o].version = seen.version
    /\ Put(o, [order[o] EXCEPT
                 !.status = target,
                 !.courierId = IF target = "CANCELLED" THEN NoCourier ELSE @,
                 !.acceptanceExpiresAt = NoTime,
                 !.cancelledAfterPickup = (target = "RETURNING_TO_STORE"),
                 !.version = @ + 1],
              <<E(order[o].status, target)>>)
    /\ UNCHANGED <<now, setting, dispute, commission, screen, job>>

\* retryCourierSearch: the one republication a merchant may ask for.
RetryCourierSearch(o, seen) ==
    /\ order[o].status = "NO_COURIER_AVAILABLE"
    /\ order[o].dispatchAttemptCount = 1
    /\ order[o].courierId = NoCourier
    /\ order[o].version = seen.version
    /\ Put(o, [order[o] EXCEPT !.status = "SEARCHING_COURIER",
                               !.acceptanceExpiresAt = now + AcceptanceWindow,
                               !.dispatchAttemptCount = @ + 1,
                               !.version = @ + 1],
              <<E("NO_COURIER_AVAILABLE", "SEARCHING_COURIER")>>)
    /\ UNCHANGED <<now, setting, dispute, commission, screen, job>>

\* merchantDispute: the unique index on orderId allows one dispute per order.
MerchantDispute(o, seen) ==
    /\ order[o].version = seen.version
    /\ order[o].courierId # NoCourier
    /\ disputeWindowIsActive(order[o].status,
                             order[o].deliveryDisputeDeadlineAt, now)
    /\ dispute[o].status = "NONE"
    /\ dispute' = [dispute EXCEPT ![o] = [status |-> "OPEN",
                                          courierId |-> order[o].courierId,
                                          version |-> 1]]
    /\ Put(o, [order[o] EXCEPT !.status = "DELIVERY_DISPUTED",
                               !.version = @ + 1],
              <<E("DELIVERED", "DELIVERY_DISPUTED")>>)
    /\ UNCHANGED <<now, setting, commission, screen, job>>

\* courierRespond: writes the dispute row only, without locking the order; the
\* event's statuses are constants of the code.
CourierRespond(c, o, seen) ==
    /\ dispute[o].courierId = c
    /\ dispute[o].version = seen.disputeVersion
    /\ dispute[o].status = "OPEN"
    /\ dispute' = [dispute EXCEPT ![o].status = "COURIER_RESPONDED",
                                  ![o].version = @ + 1]
    /\ trail' = [trail EXCEPT
                   ![o] = <<E("DELIVERY_DISPUTED", "DELIVERY_DISPUTED")>>]
    /\ UNCHANGED <<now, setting, order, commission, screen, job>>

\* Mistake: a returned order is completed without a commission.
FinalizeDeliveriesOnly(o, row, expectedStatuses, events) ==
    /\ row.courierId # NoCourier
    /\ row.status \in expectedStatuses
    /\ row.financialFinalizedAt = NoTime
    /\ Put(o, [row EXCEPT !.status = "COMPLETED",
                          !.financialFinalizedAt = now,
                          !.version = @ + 1],
              Append(events, E(row.status, "COMPLETED")))
    /\ commission' = IF row.status = "RETURNED" THEN commission
                     ELSE commission \cup
                            {[orderId |-> o, courierId |-> row.courierId]}

\* finalizeInTransaction: completes the row as the transaction left it and
\* adds the commission; the ledger's unique index admits one per order.  Its
\* early return for a finalized order in an expected status is left out: the
\* database's scope check allows no such row.
FinalizeInTransaction(o, row, expectedStatuses, events) ==
    /\ row.courierId # NoCourier
    /\ row.status \in expectedStatuses
    /\ row.financialFinalizedAt = NoTime
    /\ \A entry \in commission : entry.orderId # o
    /\ Put(o, [row EXCEPT !.status = "COMPLETED",
                          !.financialFinalizedAt = now,
                          !.version = @ + 1],
              Append(events, E(row.status, "COMPLETED")))
    /\ commission' = commission \cup
                       {[orderId |-> o, courierId |-> row.courierId]}

\* resolveDispute: neither locks the order nor rechecks its status; unless it
\* confirms the delivery it sets the order's status unconditionally.
ResolveDispute(o, resolution, seen) ==
    /\ dispute[o].status \in unresolvedDispute
    /\ dispute[o].version = seen.disputeVersion
    /\ dispute' = [dispute EXCEPT ![o].status = resolution.dispute,
                                  ![o].version = @ + 1]
    /\ \/ /\ resolution.target = "COMPLETED"
          /\ FinalizeInTransaction(o, order[o], {"DELIVERY_DISPUTED"},
                 <<E("DELIVERY_DISPUTED", "DELIVERY_DISPUTED")>>)
       \/ /\ resolution.target # "COMPLETED"
          /\ Put(o, [order[o] EXCEPT !.status = resolution.target,
                                     !.version = @ + 1],
                    <<E("DELIVERY_DISPUTED", resolution.target)>>)
          /\ UNCHANGED commission
    /\ UNCHANGED <<now, setting, screen, job>>

\* When an administrator may confirm a return in the merchant's place: by the
\* setting in force now.
staleAt(o) == order[o].returnReportedAt + setting.returnTimeout

\* confirmReturn: RETURNED and COMPLETED in one transaction.
ConfirmReturn(o, isAdmin, seen) ==
    LET returned == [order[o] EXCEPT !.status = "RETURNED", !.version = @ + 1]
    IN
    /\ order[o].status = "RETURN_AWAITING_MERCHANT_CONFIRMATION"
    /\ order[o].version = seen.version
    /\ isAdmin => order[o].returnReportedAt # NoTime /\ staleAt(o) <= now
    /\ FinalizeInTransaction(o, returned, {"RETURNED"},
           <<E("RETURN_AWAITING_MERCHANT_CONFIRMATION", "RETURNED")>>)
    /\ UNCHANGED <<now, setting, dispute, screen, job>>

-----------------------------------------------------------------------------
(* The worker's jobs.                                                      *)

\* expireCourierAcceptanceWindows: the candidate query and the recheck.
ExpiryDue(o, at) ==
    /\ order[o].status = "SEARCHING_COURIER"
    /\ order[o].courierId = NoCourier
    /\ order[o].acceptanceExpiresAt # NoTime
    /\ order[o].acceptanceExpiresAt <= at

\* completeDeliveredOrders: the candidate query and the recheck.
CompletionDue(o, at) ==
    /\ order[o].status = "DELIVERED"
    /\ order[o].financialFinalizedAt = NoTime
    /\ order[o].deliveryDisputeDeadlineAt # NoTime
    /\ order[o].deliveryDisputeDeadlineAt <= at
    /\ dispute[o].status = "NONE"
    /\ order[o].courierId # NoCourier

StartExpiry(w) ==
    LET candidates == {o \in Order : ExpiryDue(o, now)} IN
    /\ job[w] = Idle
    /\ candidates # {}
    /\ job' = [job EXCEPT
                 ![w] = [kind |-> "expire", now |-> now, todo |-> candidates]]
    /\ UNCHANGED <<now, setting, order, dispute, commission, trail, screen>>

StartCompletion(w) ==
    LET candidates == {o \in Order : CompletionDue(o, now)} IN
    /\ job[w] = Idle
    /\ candidates # {}
    /\ job' = [job EXCEPT
                 ![w] = [kind |-> "complete", now |-> now, todo |-> candidates]]
    /\ UNCHANGED <<now, setting, order, dispute, commission, trail, screen>>

\* The worker takes candidate o from its list.
NextCandidate(w, o) ==
    /\ o \in job[w].todo
    /\ job' = [job EXCEPT ![w] = IF job[w].todo = {o} THEN Idle
                                 ELSE [job[w] EXCEPT !.todo = @ \ {o}]]

\* Mistake: no second look at the deadline under the row lock.
ExpireUnchecked(w, o) ==
    LET final == order[o].dispatchAttemptCount >= 2
        timedOut == IF final THEN "NO_COURIER_AVAILABLE_FINAL"
                    ELSE "NO_COURIER_AVAILABLE"
    IN
    /\ job[w].kind = "expire"
    /\ NextCandidate(w, o)
    /\ order[o].status = "SEARCHING_COURIER"
    /\ Put(o, [order[o] EXCEPT !.status = timedOut,
                               !.acceptanceExpiresAt = NoTime,
                               !.version = @ + 1],
              <<E("SEARCHING_COURIER", timedOut)>>)
    /\ UNCHANGED <<now, setting, dispute, commission, screen>>

ExpireCandidate(w, o) ==
    LET final == order[o].dispatchAttemptCount >= 2
        timedOut == IF final THEN "NO_COURIER_AVAILABLE_FINAL"
                    ELSE "NO_COURIER_AVAILABLE"
    IN
    /\ job[w].kind = "expire"
    /\ NextCandidate(w, o)
    /\ ExpiryDue(o, job[w].now)
    /\ Put(o, [order[o] EXCEPT !.status = timedOut,
                               !.acceptanceExpiresAt = NoTime,
                               !.version = @ + 1],
              <<E("SEARCHING_COURIER", timedOut)>>)
    /\ UNCHANGED <<now, setting, dispute, commission, screen>>

CompleteCandidate(w, o) ==
    /\ job[w].kind = "complete"
    /\ NextCandidate(w, o)
    /\ CompletionDue(o, job[w].now)
    /\ \A entry \in commission : entry.orderId # o
    /\ Put(o, [order[o] EXCEPT !.status = "COMPLETED",
                               !.financialFinalizedAt = job[w].now,
                               !.version = @ + 1],
              <<E("DELIVERED", "COMPLETED")>>)
    /\ commission' = commission \cup
                       {[orderId |-> o, courierId |-> order[o].courierId]}
    /\ UNCHANGED <<now, setting, dispute, screen>>

\* The recheck under the row lock fails: the transaction writes nothing.
SkipCandidate(w, o) ==
    /\ job[w].kind = "expire" => ~ExpiryDue(o, job[w].now)
    /\ job[w].kind = "complete" => ~CompletionDue(o, job[w].now)
    /\ NextCandidate(w, o)
    /\ UNCHANGED <<now, setting, order, dispute, commission, trail, screen>>

\* The worker dies with candidates left; its queue starts the job anew.
Crash(w) ==
    /\ job[w] # Idle
    /\ job' = [job EXCEPT ![w] = Idle]
    /\ UNCHANGED <<now, setting, order, dispute, commission, trail, screen>>

-----------------------------------------------------------------------------
(* The environment.                                                        *)

\* OperationalSettingsService.update: a new version in force at once.
UpdateSettings(s) ==
    /\ setting' = s
    /\ UNCHANGED <<now, order, dispute, commission, trail, screen, job>>

\* Some client loads the order again.
Load(o) ==
    /\ screen' = [screen EXCEPT ![o] = SnapshotOf(o)]
    /\ UNCHANGED <<now, setting, order, dispute, commission, trail, job>>

Tick ==
    /\ now < MaxTime
    /\ now' = now + 1
    /\ UNCHANGED <<setting, order, dispute, commission, trail, screen, job>>

\* A command on order o sent from the screen seen.
Command(o, seen) ==
    \/ \E c \in Courier : Accept(c, o, seen)
    \/ \E c \in Courier, command \in lifecycle : Transition(c, o, command, seen)
    \/ \E c \in Courier : CancelBeforePickup(c, o, seen)
    \/ Cancel(o, seen)
    \/ RetryCourierSearch(o, seen)
    \/ MerchantDispute(o, seen)
    \/ \E c \in Courier : CourierRespond(c, o, seen)
    \/ \E resolution \in resolutions : ResolveDispute(o, resolution, seen)
    \/ \E isAdmin \in BOOLEAN : ConfirmReturn(o, isAdmin, seen)

\* One transaction of a worker's job.
RunCandidate(w, o) ==
    \/ ExpireCandidate(w, o)
    \/ CompleteCandidate(w, o)
    \/ SkipCandidate(w, o)

Next ==
    \/ \E o \in Order : CreateOrder(o)
    \/ \E o \in Order : \E seen \in Seen(o) : Command(o, seen)
    \/ \E w \in Worker : StartExpiry(w) \/ StartCompletion(w) \/ Crash(w)
    \/ \E w \in Worker, o \in Order : RunCandidate(w, o)
    \/ \E s \in Settings : UpdateSettings(s)
    \/ \E o \in Order : Load(o)
    \/ Tick

Spec == Init /\ [][Next]_vars

\* The queue repeats each job for ever and the clock advances; a worker is not
\* killed each time between its query and its first transaction.
Fairness ==
    /\ WF_vars(Tick)
    /\ \A w \in Worker :
         /\ WF_vars(StartExpiry(w))
         /\ WF_vars(StartCompletion(w))
         /\ \A o \in Order : SF_vars(RunCandidate(w, o))

FairSpec == Spec /\ Fairness
-----------------------------------------------------------------------------
(* What must hold of every order.                                          *)

\* The rows, entries and jobs have the columns and value ranges of the schema.
TypeOK ==
    /\ now \in Nat
    /\ setting \in Settings
    /\ order \in [Order -> OrderRow]
    /\ dispute \in [Order -> DisputeRow]
    /\ commission \subseteq [orderId: Order, courierId: Courier]
    /\ trail \in [Order -> Seq(Event)]
    /\ screen \in [Order -> Snapshot]
    /\ job \in [Worker -> Job]

\* No handler ever runs into the database's scope check: an order has a
\* courier exactly in the statuses that need one, and is marked financially
\* final exactly when it is COMPLETED.
ScopeCheck ==
    \A o \in Order :
        /\ order[o].courierId = NoCourier <=>
             order[o].status \in unassignedStatuses \cup {"ABSENT"}
        /\ order[o].status = "COMPLETED" <=>
             order[o].financialFinalizedAt # NoTime

\* Only a searched order has an acceptance deadline, and every searched order
\* has one: without it no courier could accept it and no worker expire it.
SearchHasDeadline ==
    \A o \in Order :
        order[o].status = "SEARCHING_COURIER" <=>
            order[o].acceptanceExpiresAt # NoTime

\* The two search attempts are counted right whatever order of acceptances,
\* hand-backs and timeouts led here: an order that offers a retry has used one
\* attempt, an order that refuses it has used both.
AttemptAccounting ==
    \A o \in Order :
        /\ order[o].dispatchAttemptCount <= maximumDispatchAttempts
        /\ order[o].status = "ABSENT" <=> order[o].dispatchAttemptCount = 0
        /\ order[o].status = "NO_COURIER_AVAILABLE" =>
             order[o].dispatchAttemptCount = 1
        /\ order[o].status = "NO_COURIER_AVAILABLE_FINAL" =>
             order[o].dispatchAttemptCount = 2

\* resolveDispute and courierRespond trust the dispute row alone: a dispute is
\* unresolved exactly while its order is DELIVERY_DISPUTED, it names the
\* order's courier, an order still DELIVERED has no dispute yet, and one whose
\* dispute is resolved is completed or on its way back to the store.
DisputeMatchesOrder ==
    \A o \in Order :
        /\ dispute[o].status \in unresolvedDispute <=>
             order[o].status = "DELIVERY_DISPUTED"
        /\ dispute[o].status # "NONE" =>
             /\ dispute[o].courierId = order[o].courierId
             /\ order[o].status \in
                  {"DELIVERY_DISPUTED", "DELIVERY_FAILED", "RETURNING_TO_STORE",
                   "RETURN_AWAITING_MERCHANT_CONFIRMATION", "COMPLETED"}
        /\ order[o].status = "DELIVERED" =>
             order[o].deliveryDisputeDeadlineAt # NoTime

\* Worker, administrator and merchant all complete orders: a completed order
\* has exactly one commission, owed by the courier who delivered it, and no
\* other order has any (so the ledger's unique index never stops a completion).
CommissionMatchesCompletion ==
    \A o \in Order :
        {entry \in commission : entry.orderId = o} =
            IF order[o].status = "COMPLETED"
            THEN {[orderId |-> o, courierId |-> order[o].courierId]}
            ELSE {}

\* What three services and the worker keep of one order agrees, although no
\* handler locks all of it: the order's columns with each other, every search
\* with its deadline and count, the dispute and the commission with the order.
RowsAgree ==
    /\ ScopeCheck
    /\ SearchHasDeadline
    /\ AttemptAccounting
    /\ DisputeMatchesOrder
    /\ CommissionMatchesCompletion

\* Optimistic concurrency: a row never changes under an unchanged version, and a
\* command only takes effect on the status its sender was looking at: a merchant
\* shown a free cancellation is never charged for one, a late tap on an old
\* marketplace card never accepts a later publication.
DecidedOnWhatWasSeen ==
    [][\A o \in Order :
         /\ order'[o] # order[o] => order'[o].version > order[o].version
         /\ dispute'[o] # dispute[o] =>
              dispute'[o].version > dispute[o].version
         /\ \A seen \in Seen(o) :
              seen.status # order[o].status => ~Command(o, seen)]_vars

\* The deadlines decide races the same way for every actor: acceptance before
\* its deadline and timeout from it on, dispute before its deadline and
\* automatic completion from it on, although the worker runs on an old clock.
DeadlinesDecide ==
    [][\A o \in Order :
         LET from == order[o].status
             to == order'[o].status
         IN  /\ from = "SEARCHING_COURIER" /\ to = "COURIER_ASSIGNED" =>
                  now < order[o].acceptanceExpiresAt
             /\ /\ from = "SEARCHING_COURIER"
                /\ to \in {"NO_COURIER_AVAILABLE", "NO_COURIER_AVAILABLE_FINAL"}
                => now >= order[o].acceptanceExpiresAt
             /\ from = "DELIVERED" /\ to = "DELIVERY_DISPUTED" =>
                  now < order[o].deliveryDisputeDeadlineAt
             /\ from = "DELIVERED" /\ to = "COMPLETED" =>
                  now >= order[o].deliveryDisputeDeadlineAt]_vars

\* The events form one path through the statuses.
Connected(from, events, to) ==
    /\ events[1].from = from
    /\ \A i \in 1 .. Len(events) - 1 : events[i].to = events[i + 1].from
    /\ events[Len(events)].to = to

\* The event history explains every status: what a transaction appends leads
\* from the status it found to the status it leaves, also where the code
\* writes constants into the event.
EventsExplainStatus ==
    [][\A o \in Order :
         order'[o] # order[o] \/ dispute'[o] # dispute[o] =>
             Connected(order[o].status, trail'[o], order'[o].status)]_vars

\* A search whose window is over does not stay open: the worker times it out,
\* unless it is republished or leaves the search first.
ExpiredSearchEnds ==
    \A o \in Order :
        (order[o].status = "SEARCHING_COURIER"
            /\ order[o].acceptanceExpiresAt <= now)
        ~> (order[o].status # "SEARCHING_COURIER"
            \/ order[o].acceptanceExpiresAt > now)

\* A delivery nobody disputed in time is completed by the worker.
UndisputedDeliveryCompletes ==
    \A o \in Order :
        (order[o].status = "DELIVERED"
            /\ order[o].deliveryDisputeDeadlineAt <= now)
        ~> order[o].status = "COMPLETED"

\* The worker keeps both deadlines, although it may be killed between any two
\* candidates, and settings change under it.
WorkerKeepsDeadlines == ExpiredSearchEnds /\ UndisputedDeliveryCompletes

-----------------------------------------------------------------------------
(* The lifecycle implements the delivery contract.                         *)

stageOf(status) ==
    IF status = "ABSENT" THEN "none"
    ELSE IF status = "CANCELLED" THEN "free"
    ELSE IF status = "COMPLETED" THEN "closed"
    ELSE IF status \in unassignedStatuses THEN "open"
    ELSE IF status \in courierCancellable THEN "assigned"
    ELSE "carried"

Contract == INSTANCE DeliveryContract WITH
    stage <- [o \in Order |-> stageOf(order[o].status)],
    holder <- [o \in Order |-> order[o].courierId],
    paid <- commission

\* Every run of the lifecycle is a run of the contract: no courier leaves and
\* no cancellation is free once the package is picked up, and the courier who
\* carried it owes the one commission.
ImplementsContract == Contract!ContractSpec
=============================================================================
