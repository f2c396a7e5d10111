------------------------- MODULE OrderLifecycleProofs -------------------------
(***************************************************************************)
(* Proofs about OrderLifecycle, for any sets of orders, couriers and       *)
(* workers, any acceptance window and any operational settings.            *)
(*                                                                         *)
(* IInv is inductive: each transaction rewrites one order row, possibly    *)
(* its dispute row and the ledger, and RowInv says of one order and its    *)
(* dispute what the next transaction relies on.  SInv adds what stale      *)
(* screens and old worker clocks may claim: a version a client has seen    *)
(* names one content of the row, and a job's clock is never ahead.  Each   *)
(* transaction is then Lawful: one lemma per action says so of the order   *)
(* it writes, and the theorems about steps, the refinement among them,     *)
(* read their properties off Lawful.                                       *)
(***************************************************************************)
EXTENDS OrderLifecycle, SequenceTheorems, TLAPS

\* What every transaction leaves of an order's row r and its dispute's row d.
RowInv(r, d) ==
    /\ r \in OrderRow
    /\ d \in DisputeRow
    /\ r.courierId = NoCourier <=> r.status \in unassignedStatuses \cup {"ABSENT"}
    /\ r.status = "COMPLETED" <=> r.financialFinalizedAt # NoTime
    /\ r.status = "SEARCHING_COURIER" <=> r.acceptanceExpiresAt # NoTime
    /\ r.dispatchAttemptCount <= maximumDispatchAttempts
    /\ r.status = "ABSENT" <=> r.dispatchAttemptCount = 0
    /\ r.status = "NO_COURIER_AVAILABLE" => r.dispatchAttemptCount = 1
    /\ r.status = "NO_COURIER_AVAILABLE_FINAL" => r.dispatchAttemptCount = 2
    /\ d.status \in unresolvedDispute <=> r.status = "DELIVERY_DISPUTED"
    /\ d.status # "NONE" =>
         /\ d.courierId = r.courierId
         /\ r.status \in
              {"DELIVERY_DISPUTED", "DELIVERY_FAILED", "RETURNING_TO_STORE",
               "RETURN_AWAITING_MERCHANT_CONFIRMATION", "COMPLETED"}
    /\ r.status = "DELIVERED" => r.deliveryDisputeDeadlineAt # NoTime

\* The ledger's entries are exactly those of the completed orders.
LedgerInv ==
    commission = {[orderId |-> o, courierId |-> order[o].courierId] :
                     o \in {p \in Order : order[p].status = "COMPLETED"}}

\* The inductive invariant.
IInv ==
    /\ TypeOK
    /\ \A o \in Order : RowInv(order[o], dispute[o])
    /\ LedgerInv

\* The initial state: nothing exists yet.
LEMMA InitIInv == Init => IInv
<1> SUFFICES ASSUME Init PROVE IInv
  OBVIOUS
<1> USE NoCourierAssumption, SettingsAssumption DEF Init, NoTime
<1>1. absent \in OrderRow
  BY DEF absent, OrderRow, Time, OrderStatus
<1>2. TypeOK
  BY <1>1 DEF TypeOK, DisputeRow, DisputeStatus, Snapshot, Job, Idle, Event
<1>3. \A o \in Order : RowInv(order[o], dispute[o])
  BY <1>1 DEF RowInv, absent, DisputeRow, DisputeStatus, unassignedStatuses,
     maximumDispatchAttempts, unresolvedDispute
<1>4. LedgerInv
  BY DEF LedgerInv, absent
<1> QED
  BY <1>2, <1>3, <1>4 DEF IInv

\* A write to one order that leaves it neither completed now nor before.
LEMMA PutPreserves ==
    ASSUME IInv, NEW o \in Order, NEW row, NEW events \in Seq(Event),
           Put(o, row, events),
           order[o].status # "COMPLETED", row.status # "COMPLETED",
           RowInv(row, dispute'[o]),
           \A p \in Order \ {o} : dispute'[p] = dispute[p],
           dispute' \in [Order -> DisputeRow],
           UNCHANGED <<now, setting, commission, screen>>,
           job' \in [Worker -> Job]
    PROVE  IInv'
<1>1. order' \in [Order -> OrderRow] /\ trail' \in [Order -> Seq(Event)]
  BY DEF IInv, TypeOK, Put, RowInv
<1>2. TypeOK'
  BY <1>1 DEF IInv, TypeOK
<1>3. order'[o] = row /\ \A p \in Order \ {o} : order'[p] = order[p]
  BY DEF IInv, TypeOK, Put
<1>4. \A p \in Order : RowInv(order[p], dispute[p])'
  BY <1>3 DEF IInv, RowInv
<1>5. LedgerInv'
  BY <1>3 DEF IInv, LedgerInv
<1> QED
  BY <1>2, <1>4, <1>5 DEF IInv

\* What the row lemmas below need of an order row to be rewritten.
LEMMA Columns ==
    ASSUME IInv, NEW o \in Order
    PROVE  /\ RowInv(order[o], dispute[o])
           /\ order[o] \in OrderRow
           /\ order[o].version + 1 \in Nat
           /\ order[o].dispatchAttemptCount \in Nat
           /\ order[o].dispatchAttemptCount + 1 \in Nat
           /\ now \in Nat
<1>1. RowInv(order[o], dispute[o]) /\ now \in Nat
  BY DEF IInv, TypeOK
<1>2. order[o].version \in Nat /\ order[o].dispatchAttemptCount \in Nat
  BY <1>1 DEF RowInv, OrderRow
<1> QED
  BY <1>1, <1>2 DEF RowInv

\* An instant is a date column's value and not null.
LEMMA Instants ==
    /\ NoTime \in Time
    /\ \A t \in Nat : t \in Time /\ t # NoTime
BY DEF Time, NoTime

\* A write that completes an order and enters its commission.
LEMMA CompletionPreserves ==
    ASSUME IInv, NEW o \in Order, NEW row, NEW events \in Seq(Event),
           Put(o, row, events),
           order[o].status # "COMPLETED", row.status = "COMPLETED",
           commission' = commission \cup
                           {[orderId |-> o, courierId |-> row.courierId]},
           RowInv(row, dispute'[o]),
           \A p \in Order \ {o} : dispute'[p] = dispute[p],
           dispute' \in [Order -> DisputeRow],
           UNCHANGED <<now, setting, screen>>,
           job' \in [Worker -> Job]
    PROVE  IInv'
<1>1. order' \in [Order -> OrderRow] /\ trail' \in [Order -> Seq(Event)]
  BY DEF IInv, TypeOK, Put, RowInv
<1>2. row.courierId \in Courier
  BY DEF RowInv, OrderRow, unassignedStatuses
<1>3. commission' \subseteq [orderId: Order, courierId: Courier]
  BY <1>2 DEF IInv, TypeOK
<1>4. TypeOK'
  BY <1>1, <1>3 DEF IInv, TypeOK
<1>5. order'[o] = row /\ \A p \in Order \ {o} : order'[p] = order[p]
  BY DEF IInv, TypeOK, Put
<1>6. \A p \in Order : RowInv(order[p], dispute[p])'
  BY <1>5 DEF IInv, RowInv
<1>7. {p \in Order : order'[p].status = "COMPLETED"} =
          {p \in Order : order[p].status = "COMPLETED"} \cup {o}
  BY <1>5
<1>8. LedgerInv'
  BY <1>5, <1>7 DEF IInv, LedgerInv
<1> QED
  BY <1>4, <1>6, <1>8 DEF IInv

-----------------------------------------------------------------------------
(* One lemma per action.                                                   *)

\* A new order is searched, on its first attempt and with a window.
LEMMA CreateOrderIInv ==
    ASSUME IInv, NEW o \in Order, CreateOrder(o) PROVE IInv'
<1> DEFINE row == [order[o] EXCEPT !.status = "SEARCHING_COURIER",
                                   !.version = 1,
                                   !.acceptanceExpiresAt = now + AcceptanceWindow,
                                   !.dispatchAttemptCount = 1]
           events == <<E("ABSENT", "DRAFT"), E("DRAFT", "QUOTED"),
                       E("QUOTED", "SEARCHING_COURIER"),
                       E("SEARCHING_COURIER", "SEARCHING_COURIER")>>
<1>1. /\ Put(o, row, events)
      /\ order[o].status = "ABSENT"
      /\ UNCHANGED <<now, setting, dispute, commission, screen, job>>
  BY DEF CreateOrder
<1>2. now + AcceptanceWindow \in Nat
  BY Columns, WindowAssumption
<1>3. row \in OrderRow
  BY <1>2, Columns, Instants DEF OrderRow, OrderStatus
<1>4. /\ row.status = "SEARCHING_COURIER"
      /\ row.courierId = order[o].courierId
      /\ row.acceptanceExpiresAt = now + AcceptanceWindow
      /\ row.dispatchAttemptCount = 1
      /\ row.financialFinalizedAt = order[o].financialFinalizedAt
  BY Columns DEF OrderRow
<1> HIDE DEF row
<1>5. RowInv(row, dispute[o])
  BY <1>1, <1>2, <1>3, <1>4, Columns, Instants DEF RowInv, unassignedStatuses,
     maximumDispatchAttempts, unresolvedDispute
<1>6. events \in Seq(Event)
  BY DEF E, Event, OrderStatus
<1> QED
  BY <1>1, <1>4, <1>5, <1>6, PutPreserves DEF IInv, TypeOK

\* Accepting moves courier, status and deadline together.
LEMMA AcceptIInv ==
    ASSUME IInv, NEW o \in Order, NEW c \in Courier, NEW seen, Accept(c, o, seen)
    PROVE  IInv'
<1> DEFINE row == [order[o] EXCEPT !.status = "COURIER_ASSIGNED",
                                   !.courierId = c,
                                   !.acceptanceExpiresAt = NoTime,
                                   !.version = @ + 1]
           events == <<E("SEARCHING_COURIER", "COURIER_ASSIGNED")>>
<1>1. /\ Put(o, row, events)
      /\ order[o].status = "SEARCHING_COURIER"
      /\ UNCHANGED <<now, setting, dispute, commission, screen, job>>
  BY DEF Accept
<1>2. row \in OrderRow
  BY Columns, Instants DEF OrderRow, OrderStatus
<1>3. /\ row.status = "COURIER_ASSIGNED"
      /\ row.courierId = c
      /\ row.acceptanceExpiresAt = NoTime
      /\ row.dispatchAttemptCount = order[o].dispatchAttemptCount
      /\ row.financialFinalizedAt = order[o].financialFinalizedAt
  BY Columns DEF OrderRow
<1> HIDE DEF row
<1>4. RowInv(row, dispute[o])
  BY <1>1, <1>2, <1>3, Columns, NoCourierAssumption DEF RowInv,
     unassignedStatuses, maximumDispatchAttempts, unresolvedDispute
<1>5. events \in Seq(Event)
  BY DEF E, Event, OrderStatus
<1> QED
  BY <1>1, <1>3, <1>4, <1>5, PutPreserves DEF IInv, TypeOK

\* Where the courier's commands start and lead.
LEMMA Commands ==
    ASSUME NEW command \in lifecycle, NEW from \in command.from
    PROVE  /\ from \in
                {"COURIER_ASSIGNED", "COURIER_ARRIVING_PICKUP", "AT_PICKUP",
                 "PICKED_UP", "IN_TRANSIT", "AT_DROPOFF", "DELIVERY_FAILED",
                 "RETURNING_TO_STORE"}
           /\ command.to \in
                {"COURIER_ARRIVING_PICKUP", "AT_PICKUP", "PICKED_UP",
                 "IN_TRANSIT", "AT_DROPOFF", "DELIVERED", "DELIVERY_FAILED",
                 "RETURNING_TO_STORE", "RETURN_AWAITING_MERCHANT_CONFIRMATION"}
           /\ from \in {"DELIVERY_FAILED", "RETURNING_TO_STORE"} =>
                command.to \in {"RETURNING_TO_STORE",
                                "RETURN_AWAITING_MERCHANT_CONFIRMATION"}
BY DEF lifecycle

\* Lifecycle commands keep the courier; delivering sets the dispute deadline.
LEMMA TransitionIInv ==
    ASSUME IInv, NEW o \in Order, NEW c \in Courier, NEW command \in lifecycle,
           NEW seen, Transition(c, o, command, seen)
    PROVE  IInv'
<1> DEFINE deadline == IF command.to = "DELIVERED"
                       THEN now + setting.disputeWindow
                       ELSE order[o].deliveryDisputeDeadlineAt
           reported == IF command.to = "RETURN_AWAITING_MERCHANT_CONFIRMATION"
                       THEN now ELSE order[o].returnReportedAt
           row == [order[o] EXCEPT !.status = command.to,
                                   !.deliveryDisputeDeadlineAt = deadline,
                                   !.returnReportedAt = reported,
                                   !.version = @ + 1]
           events == <<E(order[o].status, command.to)>>
<1>1. /\ Put(o, row, events)
      /\ order[o].status \in command.from
      /\ UNCHANGED <<now, setting, dispute, commission, screen, job>>
  BY DEF Transition
<1>2. now + setting.disputeWindow \in Nat
  BY Columns, SettingsAssumption DEF IInv, TypeOK
<1>3. deadline \in Time /\ reported \in Time
  BY <1>2, Columns, Instants DEF OrderRow
<1>4. command.to = "DELIVERED" => deadline # NoTime
  BY <1>2, Instants
<1> HIDE DEF deadline, reported
<1>5. command.to \in OrderStatus /\ order[o].status \in OrderStatus
  BY <1>1, Commands DEF OrderStatus
<1>6. row \in OrderRow
  BY <1>3, <1>5, Columns DEF OrderRow
<1>7. /\ row.status = command.to
      /\ row.courierId = order[o].courierId
      /\ row.financialFinalizedAt = order[o].financialFinalizedAt
      /\ row.acceptanceExpiresAt = order[o].acceptanceExpiresAt
      /\ row.dispatchAttemptCount = order[o].dispatchAttemptCount
      /\ row.deliveryDisputeDeadlineAt = deadline
  BY Columns DEF OrderRow
<1> HIDE DEF row
<1>8. RowInv(row, dispute[o])
  BY <1>1, <1>4, <1>6, <1>7, Commands, Columns DEF RowInv, unassignedStatuses,
     maximumDispatchAttempts, unresolvedDispute
<1>9. events \in Seq(Event)
  BY <1>5 DEF E, Event
<1>10. order[o].status # "COMPLETED" /\ row.status # "COMPLETED"
  BY <1>1, <1>7, Commands
<1> QED
  BY <1>1, <1>8, <1>9, <1>10, PutPreserves DEF IInv, TypeOK

\* An order handed back is searched again, on the attempt it was on.
LEMMA CancelBeforePickupIInv ==
    ASSUME IInv, NEW o \in Order, NEW c \in Courier, NEW seen,
           CancelBeforePickup(c, o, seen)
    PROVE  IInv'
<1> DEFINE row == [order[o] EXCEPT !.status = "SEARCHING_COURIER",
                                   !.courierId = NoCourier,
                                   !.acceptanceExpiresAt = now + AcceptanceWindow,
                                   !.version = @ + 1]
           events == <<E(order[o].status, "SEARCHING_COURIER")>>
<1>1. /\ Put(o, row, events)
      /\ order[o].status \in
           {"COURIER_ASSIGNED", "COURIER_ARRIVING_PICKUP", "AT_PICKUP"}
      /\ UNCHANGED <<now, setting, dispute, commission, screen, job>>
  BY DEF CancelBeforePickup, courierCancellable
<1>2. now + AcceptanceWindow \in Nat
  BY Columns, WindowAssumption
<1>3. row \in OrderRow
  BY <1>2, Columns, Instants DEF OrderRow, OrderStatus
<1>4. /\ row.status = "SEARCHING_COURIER"
      /\ row.courierId = NoCourier
      /\ row.acceptanceExpiresAt = now + AcceptanceWindow
      /\ row.dispatchAttemptCount = order[o].dispatchAttemptCount
      /\ row.financialFinalizedAt = order[o].financialFinalizedAt
  BY Columns DEF OrderRow
<1> HIDE DEF row
<1>5. RowInv(row, dispute[o])
  BY <1>1, <1>2, <1>3, <1>4, Columns, Instants DEF RowInv, unassignedStatuses,
     maximumDispatchAttempts, unresolvedDispute
<1>6. events \in Seq(Event)
  BY <1>1 DEF E, Event, OrderStatus
<1> QED
  BY <1>1, <1>4, <1>5, <1>6, PutPreserves DEF IInv, TypeOK

\* A cancelled order loses its courier, a returned one keeps him.
LEMMA CancelIInv ==
    ASSUME IInv, NEW o \in Order, NEW seen, Cancel(o, seen) PROVE IInv'
<1> DEFINE target == cancellationTarget(order[o].status)
           courier == IF target = "CANCELLED" THEN NoCourier
                      ELSE order[o].courierId
           afterPickup == target = "RETURNING_TO_STORE"
           row == [order[o] EXCEPT !.status = target,
                                   !.courierId = courier,
                                   !.acceptanceExpiresAt = NoTime,
                                   !.cancelledAfterPickup = afterPickup,
                                   !.version = @ + 1]
           events == <<E(order[o].status, target)>>
<1>1. /\ Put(o, row, events)
      /\ UNCHANGED <<now, setting, dispute, commission, screen, job>>
  BY DEF Cancel
<1>2. \/ /\ order[o].status \in freeMerchantCancellationStatuses
         /\ target = "CANCELLED"
      \/ /\ order[o].status \in postPickupMerchantCancellationStatuses
         /\ target = "RETURNING_TO_STORE"
  BY DEF Cancel, cancellationTarget
<1>3. courier \in Courier \cup {NoCourier}
  BY Columns DEF OrderRow
<1>4. target \in OrderStatus
  BY <1>2 DEF OrderStatus
<1>a. afterPickup \in BOOLEAN
  OBVIOUS
<1> HIDE DEF target, afterPickup
<1>5. row \in OrderRow
  <2> HIDE DEF courier
  <2> QED
    BY <1>3, <1>4, <1>a, Columns, Instants DEF OrderRow
<1>6. /\ row.status = target
      /\ row.courierId = courier
      /\ row.acceptanceExpiresAt = NoTime
      /\ row.dispatchAttemptCount = order[o].dispatchAttemptCount
      /\ row.financialFinalizedAt = order[o].financialFinalizedAt
  BY Columns DEF OrderRow
<1> HIDE DEF row
<1>7. RowInv(row, dispute[o])
  BY <1>2, <1>5, <1>6, Columns DEF RowInv, unassignedStatuses,
     maximumDispatchAttempts, unresolvedDispute,
     freeMerchantCancellationStatuses, postPickupMerchantCancellationStatuses
<1>8. events \in Seq(Event)
  BY <1>2, <1>4 DEF E, Event, OrderStatus, freeMerchantCancellationStatuses,
     postPickupMerchantCancellationStatuses
<1>9. order[o].status # "COMPLETED" /\ row.status # "COMPLETED"
  BY <1>2, <1>6 DEF freeMerchantCancellationStatuses,
     postPickupMerchantCancellationStatuses
<1> QED
  BY <1>1, <1>7, <1>8, <1>9, PutPreserves DEF IInv, TypeOK

\* A retry uses the second and last attempt.
LEMMA RetryCourierSearchIInv ==
    ASSUME IInv, NEW o \in Order, NEW seen, RetryCourierSearch(o, seen)
    PROVE  IInv'
<1> DEFINE row == [order[o] EXCEPT !.status = "SEARCHING_COURIER",
                                   !.acceptanceExpiresAt = now + AcceptanceWindow,
                                   !.dispatchAttemptCount = @ + 1,
                                   !.version = @ + 1]
           events == <<E("NO_COURIER_AVAILABLE", "SEARCHING_COURIER")>>
<1>1. /\ Put(o, row, events)
      /\ order[o].status = "NO_COURIER_AVAILABLE"
      /\ order[o].dispatchAttemptCount = 1
      /\ UNCHANGED <<now, setting, dispute, commission, screen, job>>
  BY DEF RetryCourierSearch
<1>2. now + AcceptanceWindow \in Nat
  BY Columns, WindowAssumption
<1>3. row \in OrderRow
  BY <1>2, Columns, Instants DEF OrderRow, OrderStatus
<1>4. /\ row.status = "SEARCHING_COURIER"
      /\ row.courierId = order[o].courierId
      /\ row.acceptanceExpiresAt = now + AcceptanceWindow
      /\ row.dispatchAttemptCount = order[o].dispatchAttemptCount + 1
      /\ row.financialFinalizedAt = order[o].financialFinalizedAt
  BY Columns DEF OrderRow
<1> HIDE DEF row
<1>5. RowInv(row, dispute[o])
  BY <1>1, <1>2, <1>3, <1>4, Columns, Instants DEF RowInv, unassignedStatuses,
     maximumDispatchAttempts, unresolvedDispute
<1>6. events \in Seq(Event)
  BY DEF E, Event, OrderStatus
<1> QED
  BY <1>1, <1>4, <1>5, <1>6, PutPreserves DEF IInv, TypeOK

\* Dispute row and order status change together.
LEMMA MerchantDisputeIInv ==
    ASSUME IInv, NEW o \in Order, NEW seen, MerchantDispute(o, seen) PROVE IInv'
<1> DEFINE row == [order[o] EXCEPT !.status = "DELIVERY_DISPUTED",
                                   !.version = @ + 1]
           events == <<E("DELIVERED", "DELIVERY_DISPUTED")>>
<1>1. /\ Put(o, row, events)
      /\ order[o].status = "DELIVERED"
      /\ UNCHANGED <<now, setting, commission, screen, job>>
  BY DEF MerchantDispute, disputeWindowIsActive
<1>2. dispute[o].courierId \in Courier \cup {NoCourier}
      /\ order[o].courierId \in Courier \cup {NoCourier}
  BY Columns DEF RowInv, OrderRow, DisputeRow
<1>3. /\ dispute'[o] = [status |-> "OPEN", courierId |-> order[o].courierId,
                        version |-> 1]
      /\ \A p \in Order \ {o} : dispute'[p] = dispute[p]
      /\ dispute' \in [Order -> DisputeRow]
  BY <1>2 DEF MerchantDispute, IInv, TypeOK, DisputeRow, DisputeStatus
<1>4. row \in OrderRow
  BY Columns DEF OrderRow, OrderStatus
<1>5. /\ row.status = "DELIVERY_DISPUTED"
      /\ row.courierId = order[o].courierId
      /\ row.acceptanceExpiresAt = order[o].acceptanceExpiresAt
      /\ row.dispatchAttemptCount = order[o].dispatchAttemptCount
      /\ row.financialFinalizedAt = order[o].financialFinalizedAt
  BY Columns DEF OrderRow
<1> HIDE DEF row
<1>6. RowInv(row, dispute'[o])
  BY <1>1, <1>3, <1>4, <1>5, Columns DEF RowInv, unassignedStatuses,
     maximumDispatchAttempts, unresolvedDispute
<1>7. events \in Seq(Event)
  BY DEF E, Event, OrderStatus
<1> QED
  BY <1>1, <1>3, <1>5, <1>6, <1>7, PutPreserves DEF IInv, TypeOK

\* A response leaves the dispute unresolved and the order alone.
LEMMA CourierRespondIInv ==
    ASSUME IInv, NEW o \in Order, NEW c \in Courier, NEW seen,
           CourierRespond(c, o, seen)
    PROVE  IInv'
<1>1. RowInv(order[o], dispute[o]) /\ dispute[o].version + 1 \in Nat
  BY Columns DEF RowInv, DisputeRow
<1>2. dispute'[o] = [dispute[o] EXCEPT !.status = "COURIER_RESPONDED",
                                       !.version = @ + 1]
      /\ \A p \in Order \ {o} : dispute'[p] = dispute[p]
  BY DEF CourierRespond, IInv, TypeOK
<1>3. dispute'[o] \in DisputeRow
  BY <1>1, <1>2 DEF RowInv, DisputeRow, DisputeStatus
<1>4. dispute'[o].status = "COURIER_RESPONDED"
      /\ dispute'[o].courierId = dispute[o].courierId
  BY <1>1, <1>2 DEF RowInv, DisputeRow
<1>5. dispute[o].status = "OPEN"
      /\ UNCHANGED <<now, setting, order, commission, screen, job>>
  BY DEF CourierRespond
<1>6. RowInv(order[o], dispute'[o])
  BY <1>1, <1>3, <1>4, <1>5 DEF RowInv, unresolvedDispute
<1>7. \A p \in Order : RowInv(order'[p], dispute'[p])
  BY <1>2, <1>5, <1>6 DEF IInv
<1>8. <<E("DELIVERY_DISPUTED", "DELIVERY_DISPUTED")>> \in Seq(Event)
  BY DEF E, Event, OrderStatus
<1>9. trail' \in [Order -> Seq(Event)] /\ dispute' \in [Order -> DisputeRow]
  BY <1>3, <1>8 DEF CourierRespond, IInv, TypeOK
<1> QED
  BY <1>5, <1>7, <1>9 DEF IInv, TypeOK, LedgerInv

\* A row that finalizeInTransaction may complete.
LEMMA FinalizePreserves ==
    ASSUME IInv, NEW o \in Order, NEW row \in OrderRow, NEW expected,
           NEW events \in Seq(Event),
           FinalizeInTransaction(o, row, expected, events),
           expected \subseteq OrderStatus \ {"COMPLETED", "SEARCHING_COURIER"},
           order[o].status # "COMPLETED",
           row.acceptanceExpiresAt = NoTime,
           row.dispatchAttemptCount = order[o].dispatchAttemptCount,
           row.courierId = order[o].courierId,
           order[o].status # "ABSENT",
           dispute'[o].status \notin unresolvedDispute,
           dispute'[o].courierId = dispute[o].courierId,
           dispute[o].status = "NONE" => dispute'[o].status = "NONE",
           \A p \in Order \ {o} : dispute'[p] = dispute[p],
           dispute' \in [Order -> DisputeRow],
           UNCHANGED <<now, setting, screen, job>>
    PROVE  IInv'
<1> DEFINE completed == [row EXCEPT !.status = "COMPLETED",
                                    !.financialFinalizedAt = now,
                                    !.version = @ + 1]
           all == Append(events, E(row.status, "COMPLETED"))
<1>1. /\ Put(o, completed, all)
      /\ commission' = commission \cup {[orderId |-> o, courierId |-> row.courierId]}
      /\ row.courierId # NoCourier
      /\ row.status \in expected
  BY DEF FinalizeInTransaction
<1>2. row.version + 1 \in Nat
  BY DEF OrderRow
<1>3. completed \in OrderRow
  BY <1>2, Columns, Instants DEF OrderRow, OrderStatus
<1>4. /\ completed.status = "COMPLETED"
      /\ completed.courierId = row.courierId
      /\ completed.acceptanceExpiresAt = NoTime
      /\ completed.dispatchAttemptCount = order[o].dispatchAttemptCount
      /\ completed.financialFinalizedAt = now
  BY DEF OrderRow
<1> HIDE DEF completed
<1>5. RowInv(completed, dispute'[o])
  BY <1>1, <1>3, <1>4, Columns, Instants DEF RowInv, unassignedStatuses,
     maximumDispatchAttempts, unresolvedDispute
<1>6. all \in Seq(Event)
  <2>1. E(row.status, "COMPLETED") \in Event
    BY <1>1 DEF E, Event, OrderStatus
  <2> QED
    BY <2>1
<1>7. job' \in [Worker -> Job]
  BY DEF IInv, TypeOK
<1> QED
  BY <1>1, <1>4, <1>5, <1>6, <1>7, CompletionPreserves

\* An unresolved dispute means a disputed order, so every resolution leads to
\* one of the three statuses without relying on a lock.
LEMMA ResolveDisputeIInv ==
    ASSUME IInv, NEW o \in Order, NEW resolution \in resolutions, NEW seen,
           ResolveDispute(o, resolution, seen)
    PROVE  IInv'
<1>1. /\ RowInv(order[o], dispute[o]) /\ order[o] \in OrderRow
      /\ dispute[o].version + 1 \in Nat
  BY Columns DEF RowInv, DisputeRow
<1>2. \/ /\ resolution.dispute = "RESOLVED_DELIVERY_CONFIRMED"
         /\ resolution.target = "COMPLETED"
      \/ /\ resolution.dispute = "RESOLVED_NOT_DELIVERED"
         /\ resolution.target = "DELIVERY_FAILED"
      \/ /\ resolution.dispute = "RESOLVED_RETURN_REQUIRED"
         /\ resolution.target = "RETURNING_TO_STORE"
  BY DEF resolutions
<1>3. /\ dispute[o].status \in unresolvedDispute
      /\ order[o].status = "DELIVERY_DISPUTED"
      /\ UNCHANGED <<now, setting, screen, job>>
  BY <1>1 DEF ResolveDispute, RowInv
<1>4. dispute'[o] = [dispute[o] EXCEPT !.status = resolution.dispute,
                                       !.version = @ + 1]
      /\ \A p \in Order \ {o} : dispute'[p] = dispute[p]
  BY DEF ResolveDispute, IInv, TypeOK
<1>5. dispute'[o] \in DisputeRow
  BY <1>1, <1>2, <1>4 DEF RowInv, DisputeRow, DisputeStatus
<1>6. dispute'[o].status = resolution.dispute
      /\ dispute'[o].courierId = dispute[o].courierId
  BY <1>1, <1>4 DEF RowInv, DisputeRow
<1>7. dispute' \in [Order -> DisputeRow]
  BY <1>5 DEF ResolveDispute, IInv, TypeOK
<1>8. CASE resolution.target = "COMPLETED"
  <2> DEFINE events == <<E("DELIVERY_DISPUTED", "DELIVERY_DISPUTED")>>
  <2>1. FinalizeInTransaction(o, order[o], {"DELIVERY_DISPUTED"}, events)
    BY <1>8 DEF ResolveDispute
  <2>2. events \in Seq(Event)
    BY DEF E, Event, OrderStatus
  <2>3. /\ dispute[o].status # "NONE"
        /\ dispute'[o].status \notin unresolvedDispute
        /\ order[o].acceptanceExpiresAt = NoTime
        /\ {"DELIVERY_DISPUTED"} \subseteq
             OrderStatus \ {"COMPLETED", "SEARCHING_COURIER"}
    BY <1>1, <1>2, <1>3, <1>6 DEF RowInv, unresolvedDispute, OrderStatus
  <2> HIDE DEF events
  <2> QED
    BY <1>1, <1>3, <1>4, <1>6, <1>7, <2>1, <2>2, <2>3, FinalizePreserves
<1>9. CASE resolution.target # "COMPLETED"
  <2> DEFINE row == [order[o] EXCEPT !.status = resolution.target,
                                     !.version = @ + 1]
             events == <<E("DELIVERY_DISPUTED", resolution.target)>>
  <2>1. Put(o, row, events) /\ UNCHANGED commission
    BY <1>9 DEF ResolveDispute
  <2>2. events \in Seq(Event)
    BY <1>2 DEF E, Event, OrderStatus
  <2>3. row \in OrderRow
    BY <1>2, Columns DEF OrderRow, OrderStatus
  <2>4. /\ row.status = resolution.target
        /\ row.courierId = order[o].courierId
        /\ row.acceptanceExpiresAt = order[o].acceptanceExpiresAt
        /\ row.dispatchAttemptCount = order[o].dispatchAttemptCount
        /\ row.financialFinalizedAt = order[o].financialFinalizedAt
    BY <1>1 DEF OrderRow
  <2> HIDE DEF row
  <2>5. RowInv(row, dispute'[o])
    BY <1>1, <1>2, <1>3, <1>5, <1>6, <1>9, <2>3, <2>4 DEF RowInv,
       unassignedStatuses, maximumDispatchAttempts, unresolvedDispute
  <2>6. job' \in [Worker -> Job]
    BY <1>3 DEF IInv, TypeOK
  <2> QED
    BY <1>3, <1>4, <1>7, <1>9, <2>1, <2>2, <2>4, <2>5, <2>6, PutPreserves
<1> QED
  BY <1>8, <1>9

\* A confirmed return completes the order and enters the commission.
LEMMA ConfirmReturnIInv ==
    ASSUME IInv, NEW o \in Order, NEW isAdmin \in BOOLEAN, NEW seen,
           ConfirmReturn(o, isAdmin, seen)
    PROVE  IInv'
<1> DEFINE returned == [order[o] EXCEPT !.status = "RETURNED", !.version = @ + 1]
           events == <<E("RETURN_AWAITING_MERCHANT_CONFIRMATION", "RETURNED")>>
<1>1. /\ FinalizeInTransaction(o, returned, {"RETURNED"}, events)
      /\ order[o].status = "RETURN_AWAITING_MERCHANT_CONFIRMATION"
      /\ UNCHANGED <<now, setting, dispute, screen, job>>
  BY DEF ConfirmReturn
<1>2. returned \in OrderRow
  BY Columns DEF OrderRow, OrderStatus
<1>3. /\ returned.acceptanceExpiresAt = order[o].acceptanceExpiresAt
      /\ returned.dispatchAttemptCount = order[o].dispatchAttemptCount
      /\ returned.courierId = order[o].courierId
  BY Columns DEF OrderRow
<1>4. events \in Seq(Event)
  BY DEF E, Event, OrderStatus
<1> HIDE DEF returned, events
<1>5. /\ dispute[o].status \notin unresolvedDispute
      /\ order[o].acceptanceExpiresAt = NoTime
      /\ {"RETURNED"} \subseteq OrderStatus \ {"COMPLETED", "SEARCHING_COURIER"}
      /\ dispute' \in [Order -> DisputeRow]
  BY <1>1, Columns DEF RowInv, OrderStatus, IInv, TypeOK
<1> QED
  BY <1>1, <1>2, <1>3, <1>4, <1>5, FinalizePreserves

\* Taking a candidate leaves the worker with a job of the right shape.
LEMMA NextCandidateJob ==
    ASSUME TypeOK, NEW w \in Worker, NEW o \in Order, NextCandidate(w, o)
    PROVE  job' \in [Worker -> Job]
<1>1. Idle \in Job /\ job[w] \in Job
  BY DEF Idle, Job, TypeOK
<1>2. [job[w] EXCEPT !.todo = @ \ {o}] \in Job
  BY <1>1 DEF Job
<1> QED
  BY <1>1, <1>2 DEF NextCandidate, TypeOK

\* A timeout leaves the attempt counter and picks the status by it.
LEMMA ExpireCandidateIInv ==
    ASSUME IInv, NEW w \in Worker, NEW o \in Order, ExpireCandidate(w, o)
    PROVE  IInv'
<1> DEFINE timedOut == IF order[o].dispatchAttemptCount >= 2
                       THEN "NO_COURIER_AVAILABLE_FINAL"
                       ELSE "NO_COURIER_AVAILABLE"
           row == [order[o] EXCEPT !.status = timedOut,
                                   !.acceptanceExpiresAt = NoTime,
                                   !.version = @ + 1]
           events == <<E("SEARCHING_COURIER", timedOut)>>
<1>1. /\ Put(o, row, events)
      /\ order[o].status = "SEARCHING_COURIER"
      /\ UNCHANGED <<now, setting, dispute, commission, screen>>
  BY DEF ExpireCandidate, ExpiryDue
<1>2. job' \in [Worker -> Job]
  BY NextCandidateJob DEF ExpireCandidate, IInv
<1>3. /\ timedOut = "NO_COURIER_AVAILABLE_FINAL" =>
             order[o].dispatchAttemptCount = 2
      /\ timedOut = "NO_COURIER_AVAILABLE" =>
             order[o].dispatchAttemptCount = 1
      /\ timedOut \in {"NO_COURIER_AVAILABLE", "NO_COURIER_AVAILABLE_FINAL"}
  BY <1>1, Columns DEF RowInv, maximumDispatchAttempts
<1> HIDE DEF timedOut
<1>4. row \in OrderRow
  BY <1>3, Columns, Instants DEF OrderRow, OrderStatus
<1>5. /\ row.status = timedOut
      /\ row.courierId = order[o].courierId
      /\ row.acceptanceExpiresAt = NoTime
      /\ row.dispatchAttemptCount = order[o].dispatchAttemptCount
      /\ row.financialFinalizedAt = order[o].financialFinalizedAt
  BY Columns DEF OrderRow
<1> HIDE DEF row
<1>6. RowInv(row, dispute[o])
  BY <1>1, <1>3, <1>4, <1>5, Columns DEF RowInv, unassignedStatuses,
     maximumDispatchAttempts, unresolvedDispute
<1>7. events \in Seq(Event)
  BY <1>3 DEF E, Event, OrderStatus
<1> QED
  BY <1>1, <1>2, <1>3, <1>5, <1>6, <1>7, PutPreserves DEF IInv, TypeOK

\* The worker completes a delivered order that never was disputed.
LEMMA CompleteCandidateIInv ==
    ASSUME IInv, NEW w \in Worker, NEW o \in Order, CompleteCandidate(w, o)
    PROVE  IInv'
<1> DEFINE row == [order[o] EXCEPT !.status = "COMPLETED",
                                   !.financialFinalizedAt = job[w].now,
                                   !.version = @ + 1]
           events == <<E("DELIVERED", "COMPLETED")>>
<1>1. /\ Put(o, row, events)
      /\ order[o].status = "DELIVERED"
      /\ commission' = commission \cup
                         {[orderId |-> o, courierId |-> order[o].courierId]}
      /\ UNCHANGED <<now, setting, dispute, screen>>
  BY DEF CompleteCandidate, CompletionDue
<1>2. job' \in [Worker -> Job]
  BY NextCandidateJob DEF CompleteCandidate, IInv
<1>3. job[w].now \in Nat
  BY DEF IInv, TypeOK, Job
<1>4. row \in OrderRow
  BY <1>3, Columns, Instants DEF OrderRow, OrderStatus
<1>5. /\ row.status = "COMPLETED"
      /\ row.courierId = order[o].courierId
      /\ row.acceptanceExpiresAt = order[o].acceptanceExpiresAt
      /\ row.dispatchAttemptCount = order[o].dispatchAttemptCount
      /\ row.financialFinalizedAt = job[w].now
  BY Columns DEF OrderRow
<1> HIDE DEF row
<1>6. RowInv(row, dispute[o])
  BY <1>1, <1>3, <1>4, <1>5, Columns, Instants DEF RowInv, unassignedStatuses,
     maximumDispatchAttempts, unresolvedDispute
<1>7. events \in Seq(Event)
  BY DEF E, Event, OrderStatus
<1> QED
  BY <1>1, <1>2, <1>5, <1>6, <1>7, CompletionPreserves DEF IInv, TypeOK

\* Steps that touch no order: reads, job bookkeeping, settings, the clock.
LEMMA NoWriteIInv ==
    ASSUME IInv, UNCHANGED <<order, dispute, commission, trail>>,
           now' \in Nat, setting' \in Settings,
           screen' \in [Order -> Snapshot], job' \in [Worker -> Job]
    PROVE  IInv'
<1>1. TypeOK'
  BY DEF IInv, TypeOK
<1>2. \A o \in Order : RowInv(order'[o], dispute'[o])
  BY DEF IInv
<1> QED
  BY <1>1, <1>2 DEF IInv, LedgerInv

\* Any command of a client.
LEMMA CommandIInv ==
    ASSUME IInv, NEW o \in Order, NEW seen, Command(o, seen) PROVE IInv'
BY AcceptIInv, TransitionIInv, CancelBeforePickupIInv, CancelIInv,
   RetryCourierSearchIInv, MerchantDisputeIInv, CourierRespondIInv,
   ResolveDisputeIInv, ConfirmReturnIInv DEF Command

\* IInv is inductive.
LEMMA NextIInv == IInv /\ [Next]_vars => IInv'
<1> SUFFICES ASSUME IInv, [Next]_vars PROVE IInv'
  OBVIOUS
<1> USE DEF IInv, TypeOK
<1>1. ASSUME NEW o \in Order, CreateOrder(o) PROVE IInv'
  BY <1>1, CreateOrderIInv
<1>2. ASSUME NEW o \in Order, NEW seen, Command(o, seen) PROVE IInv'
  BY <1>2, CommandIInv
<1>3. ASSUME NEW w \in Worker, StartExpiry(w) PROVE IInv'
  <2>1. [kind |-> "expire", now |-> now, todo |-> {o \in Order : ExpiryDue(o, now)}]
          \in Job
    BY DEF Job
  <2>2. job' \in [Worker -> Job]
    BY <1>3, <2>1 DEF StartExpiry
  <2> QED
    BY <1>3, <2>2, NoWriteIInv DEF StartExpiry
<1>4. ASSUME NEW w \in Worker, StartCompletion(w) PROVE IInv'
  <2>1. [kind |-> "complete", now |-> now,
         todo |-> {o \in Order : CompletionDue(o, now)}] \in Job
    BY DEF Job
  <2>2. job' \in [Worker -> Job]
    BY <1>4, <2>1 DEF StartCompletion
  <2> QED
    BY <1>4, <2>2, NoWriteIInv DEF StartCompletion
<1>5. ASSUME NEW w \in Worker, Crash(w) PROVE IInv'
  <2>1. job' \in [Worker -> Job]
    BY <1>5 DEF Crash, Idle, Job
  <2> QED
    BY <1>5, <2>1, NoWriteIInv DEF Crash
<1>6. ASSUME NEW w \in Worker, NEW o \in Order, RunCandidate(w, o) PROVE IInv'
  <2>1. CASE ExpireCandidate(w, o)
    BY <2>1, ExpireCandidateIInv
  <2>2. CASE CompleteCandidate(w, o)
    BY <2>2, CompleteCandidateIInv
  <2>3. CASE SkipCandidate(w, o)
    BY <2>3, NextCandidateJob, NoWriteIInv DEF SkipCandidate
  <2> QED
    BY <1>6, <2>1, <2>2, <2>3 DEF RunCandidate
<1>7. ASSUME NEW s \in Settings, UpdateSettings(s) PROVE IInv'
  BY <1>7, NoWriteIInv DEF UpdateSettings
<1>8. ASSUME NEW o \in Order, Load(o) PROVE IInv'
  <2>1. SnapshotOf(o) \in Snapshot
    BY DEF SnapshotOf, Snapshot, OrderRow, DisputeRow
  <2>2. screen' \in [Order -> Snapshot]
    BY <1>8, <2>1 DEF Load
  <2> QED
    BY <1>8, <2>2, NoWriteIInv DEF Load
<1>9. ASSUME Tick PROVE IInv'
  BY <1>9, NoWriteIInv DEF Tick
<1>10. ASSUME UNCHANGED vars PROVE IInv'
  BY <1>10, NoWriteIInv DEF vars
<1> QED
  BY <1>1, <1>2, <1>3, <1>4, <1>5, <1>6, <1>7, <1>8, <1>9, <1>10 DEF Next

-----------------------------------------------------------------------------
(* The theorems.                                                           *)

\* IInv holds in every reachable state.
LEMMA IInvAlways == Spec => []IInv
BY InitIInv, NextIInv, PTL DEF Spec

\* Rows, entries and jobs keep their types, whatever is interleaved.
THEOREM TypeCorrect == Spec => []TypeOK
<1>1. IInv => TypeOK
  BY DEF IInv
<1> QED
  BY <1>1, IInvAlways, PTL

\* No handler runs into the database's scope check.
THEOREM ScopeCheckHolds == Spec => []ScopeCheck
<1>1. IInv => ScopeCheck
  BY DEF IInv, ScopeCheck, RowInv
<1> QED
  BY <1>1, IInvAlways, PTL

\* A searched order, and no other, has an acceptance deadline.
THEOREM SearchHasDeadlineHolds == Spec => []SearchHasDeadline
<1>1. IInv => SearchHasDeadline
  BY DEF IInv, SearchHasDeadline, RowInv
<1> QED
  BY <1>1, IInvAlways, PTL

\* Search attempts are counted right.
THEOREM AttemptAccountingHolds == Spec => []AttemptAccounting
<1>1. IInv => AttemptAccounting
  BY DEF IInv, AttemptAccounting, RowInv
<1> QED
  BY <1>1, IInvAlways, PTL

\* The dispute row and the order row agree, although resolveDispute and
\* courierRespond look at the dispute row alone.
THEOREM DisputeMatchesOrderHolds == Spec => []DisputeMatchesOrder
<1>1. IInv => DisputeMatchesOrder
  BY DEF IInv, DisputeMatchesOrder, RowInv
<1> QED
  BY <1>1, IInvAlways, PTL

\* One commission for every completed order, owed by its courier, and no other.
THEOREM CommissionMatchesCompletionHolds == Spec => []CommissionMatchesCompletion
<1>1. IInv => CommissionMatchesCompletion
  BY DEF IInv, LedgerInv, CommissionMatchesCompletion
<1> QED
  BY <1>1, IInvAlways, PTL

\* Everything the services keep of one order agrees.
THEOREM RowsAgreeHolds == Spec => []RowsAgree
BY ScopeCheckHolds, SearchHasDeadlineHolds, AttemptAccountingHolds,
   DisputeMatchesOrderHolds, CommissionMatchesCompletionHolds, PTL DEF RowsAgree

-----------------------------------------------------------------------------
(* What a step may never do.                                               *)

\* What a screen s knows of an order's row r and its dispute's row d.
ScreenInv(s, r, d) ==
    /\ r.status = "ABSENT" => r.version = 0
    /\ d.status = "NONE" => d.version = 0
    /\ s.version <= r.version
    /\ s.version = r.version => s.status = r.status
    /\ s.disputeVersion <= d.version
    /\ s.disputeVersion = d.version /\ d.status \in unresolvedDispute =>
         s.status = r.status

\* The inductive invariant of the step properties.
SInv ==
    /\ IInv
    /\ \A o \in Order : ScreenInv(screen[o], order[o], dispute[o])
    /\ \A w \in Worker : job[w].now <= now

-----------------------------------------------------------------------------
(* What a step does to the rows of one order.                              *)

\* A step that writes the row of o is one of these transactions.
Writes(o) ==
    \/ CreateOrder(o)
    \/ \E seen \in Seen(o) : Command(o, seen)
    \/ \E w \in Worker : ExpireCandidate(w, o) \/ CompleteCandidate(w, o)

\* The rows of o stay.
Keeps(o) == order'[o] = order[o] /\ dispute'[o] = dispute[o]

\* A row that changes gets a higher version, and stays created; an order under
\* dispute changes with its dispute only.
Versioned(o) ==
    /\ order'[o] # order[o] =>
         order'[o].version > order[o].version /\ order'[o].status # "ABSENT"
    /\ dispute'[o] # dispute[o] =>
         dispute'[o].version > dispute[o].version /\ dispute'[o].status # "NONE"
    /\ order'[o] # order[o] /\ dispute'[o] = dispute[o] =>
         dispute[o].status \notin unresolvedDispute

\* The deadlines allow order o to go to this status now.
InTime(o, to) ==
    LET from == order[o].status IN
    /\ from = "SEARCHING_COURIER" /\ to = "COURIER_ASSIGNED" =>
         now < order[o].acceptanceExpiresAt
    /\ /\ from = "SEARCHING_COURIER"
       /\ to \in {"NO_COURIER_AVAILABLE", "NO_COURIER_AVAILABLE_FINAL"}
       => now >= order[o].acceptanceExpiresAt
    /\ from = "DELIVERED" /\ to = "DELIVERY_DISPUTED" =>
         now < order[o].deliveryDisputeDeadlineAt
    /\ from = "DELIVERED" /\ to = "COMPLETED" =>
         now >= order[o].deliveryDisputeDeadlineAt

\* The contract lets an order go from one status to another, and its package
\* from a courier c to d, without closing it.
MayMove(from, to, c, d) ==
    \/ stageOf(from) = stageOf(to) /\ d = c
    \/ stageOf(from) = "none" /\ stageOf(to) = "open" /\ d = c
    \/ stageOf(from) = "open" /\ stageOf(to) = "assigned" /\ d \in Courier
    \/ stageOf(from) = "assigned" /\ stageOf(to) = "open" /\ d = NoCourier
    \/ stageOf(from) = "assigned" /\ stageOf(to) = "carried" /\ d = c
    \/ stageOf(from) \in {"open", "assigned"} /\ stageOf(to) = "free"
         /\ d = NoCourier

\* The same for the rows of o and the ledger.
Abides(o) ==
    \/ /\ MayMove(order[o].status, order'[o].status,
                  order[o].courierId, order'[o].courierId)
       /\ UNCHANGED commission
    \/ /\ stageOf(order[o].status) = "carried"
       /\ stageOf(order'[o].status) = "closed"
       /\ order'[o].courierId = order[o].courierId
       /\ commission' = commission \cup
                          {[orderId |-> o, courierId |-> order[o].courierId]}

\* What every transaction on order o does.
Lawful(o) ==
    /\ \A p \in Order \ {o} : order'[p] = order[p] /\ dispute'[p] = dispute[p]
    /\ Versioned(o)
    /\ InTime(o, order'[o].status)
    /\ Connected(order[o].status, trail'[o], order'[o].status)
    /\ Abides(o)
    /\ UNCHANGED <<now, screen>>

-----------------------------------------------------------------------------
(* Lemmas about writing rows and appending events.                         *)

\* A write changes one order's row and trail.
LEMMA PutDoes ==
    ASSUME TypeOK, NEW o \in Order, NEW row, NEW events, Put(o, row, events)
    PROVE  /\ order'[o] = row
           /\ trail'[o] = events
           /\ \A p \in Order \ {o} : order'[p] = order[p]
BY DEF Put, TypeOK

\* One event is a path, and so are two that meet.
LEMMA OneEvent ==
    ASSUME NEW from, NEW to
    PROVE  Connected(from, <<E(from, to)>>, to)
BY DEF Connected, E

\* Events are appended to one that leads there.
LEMMA TwoEvents ==
    ASSUME NEW from, NEW via, NEW to
    PROVE  Connected(from, Append(<<E(from, via)>>, E(via, to)), to)
<1> DEFINE first == E(from, via)
           second == E(via, to)
           all == Append(<<first>>, second)
<1>1. Len(all) = 2 /\ all[1] = first /\ all[2] = second
  <2>1. <<first>> \in Seq({first, second})
    OBVIOUS
  <2> QED
    BY <2>1, AppendProperties
<1>2. first.from = from /\ first.to = second.from /\ second.to = to
  BY DEF E
<1> QED
  BY <1>1, <1>2 DEF Connected

\* A write that neither touches the dispute nor the ledger.
LEMMA MoveLawful ==
    ASSUME SInv, NEW o \in Order, NEW row, NEW to,
           Put(o, row, <<E(order[o].status, to)>>),
           UNCHANGED <<now, screen, dispute, commission>>,
           row.status = to, to # "ABSENT",
           row.version = order[o].version + 1,
           order[o].status # "DELIVERY_DISPUTED",
           InTime(o, to),
           MayMove(order[o].status, to, order[o].courierId, row.courierId)
    PROVE  Lawful(o)
<1>1. /\ order'[o] = row
      /\ trail'[o] = <<E(order[o].status, to)>>
      /\ \A p \in Order \ {o} : order'[p] = order[p]
  BY PutDoes DEF SInv, IInv
<1>2. order[o].version \in Nat /\ dispute[o].status \notin unresolvedDispute
  BY Columns DEF SInv, OrderRow, RowInv
<1>3. Versioned(o)
  BY <1>1, <1>2 DEF Versioned
<1>4. Connected(order[o].status, trail'[o], order'[o].status)
  BY <1>1, OneEvent
<1>5. Abides(o)
  BY <1>1 DEF Abides
<1> QED
  BY <1>1, <1>3, <1>4, <1>5 DEF Lawful

-----------------------------------------------------------------------------
(* One lemma per action that writes.                                       *)

\* A new order is open and has no courier.
LEMMA CreateOrderLawful ==
    ASSUME SInv, NEW o \in Order, CreateOrder(o) PROVE Lawful(o)
<1> DEFINE row == [order[o] EXCEPT !.status = "SEARCHING_COURIER",
                                   !.version = 1,
                                   !.acceptanceExpiresAt = now + AcceptanceWindow,
                                   !.dispatchAttemptCount = 1]
           events == <<E("ABSENT", "DRAFT"), E("DRAFT", "QUOTED"),
                       E("QUOTED", "SEARCHING_COURIER"),
                       E("SEARCHING_COURIER", "SEARCHING_COURIER")>>
<1>1. /\ Put(o, row, events)
      /\ order[o].status = "ABSENT"
      /\ UNCHANGED <<now, setting, dispute, commission, screen, job>>
  BY DEF CreateOrder
<1>2. /\ row.status = "SEARCHING_COURIER" /\ row.version = 1
      /\ row.courierId = order[o].courierId
  BY Columns DEF SInv, OrderRow
<1> HIDE DEF row
<1>3. /\ order'[o] = row /\ trail'[o] = events
      /\ \A p \in Order \ {o} : order'[p] = order[p]
  BY <1>1, PutDoes DEF SInv, IInv
<1>4. order[o].version = 0 /\ dispute[o].status \notin unresolvedDispute
  BY <1>1, Columns DEF SInv, ScreenInv, RowInv
<1>5. Versioned(o)
  BY <1>1, <1>2, <1>3, <1>4 DEF Versioned
<1>6. InTime(o, order'[o].status)
  BY <1>1 DEF InTime
<1>7. Connected("ABSENT", events, "SEARCHING_COURIER")
  BY DEF Connected, E
<1>8. Abides(o)
  BY <1>1, <1>2, <1>3 DEF Abides, MayMove, stageOf, unassignedStatuses
<1> QED
  BY <1>1, <1>2, <1>3, <1>5, <1>6, <1>7, <1>8 DEF Lawful

\* Accepting is in time and gives an open order its courier.
LEMMA AcceptLawful ==
    ASSUME SInv, NEW o \in Order, NEW c \in Courier, NEW seen, Accept(c, o, seen)
    PROVE  Lawful(o)
<1> DEFINE row == [order[o] EXCEPT !.status = "COURIER_ASSIGNED",
                                   !.courierId = c,
                                   !.acceptanceExpiresAt = NoTime,
                                   !.version = @ + 1]
<1>1. /\ Put(o, row, <<E(order[o].status, "COURIER_ASSIGNED")>>)
      /\ order[o].status = "SEARCHING_COURIER"
      /\ ~acceptanceIsExpired(order[o].acceptanceExpiresAt, now)
      /\ UNCHANGED <<now, setting, dispute, commission, screen, job>>
  BY DEF Accept
<1>2. /\ row.status = "COURIER_ASSIGNED" /\ row.courierId = c
      /\ row.version = order[o].version + 1
  BY Columns DEF SInv, OrderRow
<1> HIDE DEF row
<1>3. order[o].acceptanceExpiresAt \in Time /\ now \in Nat
  BY Columns DEF SInv, OrderRow
<1>4. InTime(o, "COURIER_ASSIGNED")
  BY <1>1, <1>3 DEF InTime, acceptanceIsExpired, Time
<1>5. MayMove(order[o].status, "COURIER_ASSIGNED", order[o].courierId, c)
  BY <1>1 DEF MayMove, stageOf, unassignedStatuses, courierCancellable
<1> QED
  BY <1>1, <1>2, <1>4, <1>5, MoveLawful

\* The assigned courier's commands move the order on and keep him.
LEMMA TransitionLawful ==
    ASSUME SInv, NEW o \in Order, NEW c \in Courier, NEW command \in lifecycle,
           NEW seen, Transition(c, o, command, seen)
    PROVE  Lawful(o)
<1> DEFINE deadline == IF command.to = "DELIVERED"
                       THEN now + setting.disputeWindow
                       ELSE order[o].deliveryDisputeDeadlineAt
           reported == IF command.to = "RETURN_AWAITING_MERCHANT_CONFIRMATION"
                       THEN now ELSE order[o].returnReportedAt
           row == [order[o] EXCEPT !.status = command.to,
                                   !.deliveryDisputeDeadlineAt = deadline,
                                   !.returnReportedAt = reported,
                                   !.version = @ + 1]
<1>1. /\ Put(o, row, <<E(order[o].status, command.to)>>)
      /\ order[o].status \in command.from
      /\ UNCHANGED <<now, setting, dispute, commission, screen, job>>
  BY DEF Transition
<1>2. /\ row.status = command.to /\ row.courierId = order[o].courierId
      /\ row.version = order[o].version + 1
  <2> HIDE DEF deadline, reported
  <2> QED
    BY Columns DEF SInv, OrderRow
<1> HIDE DEF row
<1>3. InTime(o, command.to)
  BY <1>1, Commands DEF InTime
<1>4. MayMove(order[o].status, command.to, order[o].courierId, order[o].courierId)
  BY <1>1 DEF lifecycle, MayMove, stageOf, unassignedStatuses, courierCancellable
<1>5. order[o].status # "DELIVERY_DISPUTED" /\ command.to # "ABSENT"
  BY <1>1, Commands
<1> QED
  BY <1>1, <1>2, <1>3, <1>4, <1>5, MoveLawful

\* Handing back takes the courier off an order he has not picked up.
LEMMA CancelBeforePickupLawful ==
    ASSUME SInv, NEW o \in Order, NEW c \in Courier, NEW seen,
           CancelBeforePickup(c, o, seen)
    PROVE  Lawful(o)
<1> DEFINE row == [order[o] EXCEPT !.status = "SEARCHING_COURIER",
                                   !.courierId = NoCourier,
                                   !.acceptanceExpiresAt = now + AcceptanceWindow,
                                   !.version = @ + 1]
<1>1. /\ Put(o, row, <<E(order[o].status, "SEARCHING_COURIER")>>)
      /\ order[o].status \in courierCancellable
      /\ UNCHANGED <<now, setting, dispute, commission, screen, job>>
  BY DEF CancelBeforePickup
<1>2. /\ row.status = "SEARCHING_COURIER" /\ row.courierId = NoCourier
      /\ row.version = order[o].version + 1
  BY Columns DEF SInv, OrderRow
<1> HIDE DEF row
<1>3. InTime(o, "SEARCHING_COURIER")
  BY DEF InTime
<1>4. MayMove(order[o].status, "SEARCHING_COURIER", order[o].courierId, NoCourier)
  BY <1>1 DEF MayMove, stageOf, unassignedStatuses, courierCancellable
<1>5. order[o].status # "DELIVERY_DISPUTED"
  BY <1>1 DEF courierCancellable
<1> QED
  BY <1>1, <1>2, <1>3, <1>4, <1>5, MoveLawful

\* Cancelling is free before the pickup only, else the courier keeps the package.
LEMMA CancelLawful ==
    ASSUME SInv, NEW o \in Order, NEW seen, Cancel(o, seen) PROVE Lawful(o)
<1> DEFINE target == cancellationTarget(order[o].status)
           courier == IF target = "CANCELLED" THEN NoCourier
                      ELSE order[o].courierId
           afterPickup == target = "RETURNING_TO_STORE"
           row == [order[o] EXCEPT !.status = target,
                                   !.courierId = courier,
                                   !.acceptanceExpiresAt = NoTime,
                                   !.cancelledAfterPickup = afterPickup,
                                   !.version = @ + 1]
<1>1. /\ Put(o, row, <<E(order[o].status, target)>>)
      /\ UNCHANGED <<now, setting, dispute, commission, screen, job>>
  BY DEF Cancel
<1>2. \/ /\ order[o].status \in freeMerchantCancellationStatuses
         /\ target = "CANCELLED"
      \/ /\ order[o].status \in postPickupMerchantCancellationStatuses
         /\ target = "RETURNING_TO_STORE"
  BY DEF Cancel, cancellationTarget
<1>3. /\ row.status = target /\ row.courierId = courier
      /\ row.version = order[o].version + 1
  <2> HIDE DEF target, courier, afterPickup
  <2> QED
    BY Columns DEF SInv, OrderRow
<1> HIDE DEF row
<1>4. InTime(o, target) /\ target # "ABSENT"
      /\ order[o].status # "DELIVERY_DISPUTED"
  BY <1>2 DEF InTime, freeMerchantCancellationStatuses,
     postPickupMerchantCancellationStatuses
<1>5. MayMove(order[o].status, target, order[o].courierId, courier)
  <2> HIDE DEF target
  <2> QED
    BY <1>2 DEF MayMove, stageOf, unassignedStatuses, courierCancellable,
       freeMerchantCancellationStatuses, postPickupMerchantCancellationStatuses
<1> HIDE DEF target, courier
<1> QED
  BY <1>1, <1>3, <1>4, <1>5, MoveLawful

\* A retry opens the order again.
LEMMA RetryCourierSearchLawful ==
    ASSUME SInv, NEW o \in Order, NEW seen, RetryCourierSearch(o, seen)
    PROVE  Lawful(o)
<1> DEFINE row == [order[o] EXCEPT !.status = "SEARCHING_COURIER",
                                   !.acceptanceExpiresAt = now + AcceptanceWindow,
                                   !.dispatchAttemptCount = @ + 1,
                                   !.version = @ + 1]
<1>1. /\ Put(o, row, <<E(order[o].status, "SEARCHING_COURIER")>>)
      /\ order[o].status = "NO_COURIER_AVAILABLE"
      /\ UNCHANGED <<now, setting, dispute, commission, screen, job>>
  BY DEF RetryCourierSearch
<1>2. /\ row.status = "SEARCHING_COURIER" /\ row.courierId = order[o].courierId
      /\ row.version = order[o].version + 1
  BY Columns DEF SInv, OrderRow
<1> HIDE DEF row
<1>3. InTime(o, "SEARCHING_COURIER")
  BY DEF InTime
<1>4. MayMove(order[o].status, "SEARCHING_COURIER", order[o].courierId,
              order[o].courierId)
  BY <1>1 DEF MayMove, stageOf, unassignedStatuses
<1> QED
  BY <1>1, <1>2, <1>3, <1>4, MoveLawful

\* The dispute's first row comes with the order's new status, in time.
LEMMA MerchantDisputeLawful ==
    ASSUME SInv, NEW o \in Order, NEW seen, MerchantDispute(o, seen)
    PROVE  Lawful(o)
<1> DEFINE row == [order[o] EXCEPT !.status = "DELIVERY_DISPUTED",
                                   !.version = @ + 1]
<1>1. /\ Put(o, row, <<E(order[o].status, "DELIVERY_DISPUTED")>>)
      /\ order[o].status = "DELIVERED" /\ dispute[o].status = "NONE"
      /\ order[o].deliveryDisputeDeadlineAt > now
      /\ UNCHANGED <<now, setting, commission, screen, job>>
  BY DEF MerchantDispute, disputeWindowIsActive
<1>2. /\ row.status = "DELIVERY_DISPUTED" /\ row.courierId = order[o].courierId
      /\ row.version = order[o].version + 1 /\ order[o].version \in Nat
      /\ order[o].deliveryDisputeDeadlineAt \in Time /\ now \in Nat
  BY Columns DEF SInv, OrderRow
<1> HIDE DEF row
<1>3. /\ order'[o] = row
      /\ trail'[o] = <<E(order[o].status, "DELIVERY_DISPUTED")>>
      /\ \A p \in Order \ {o} : order'[p] = order[p]
  BY <1>1, PutDoes DEF SInv, IInv
<1>4. /\ dispute'[o].status = "OPEN" /\ dispute'[o].version = 1
      /\ \A p \in Order \ {o} : dispute'[p] = dispute[p]
  BY DEF MerchantDispute, SInv, IInv, TypeOK
<1>5. dispute[o].version = 0
  BY <1>1 DEF SInv, ScreenInv
<1>6. Versioned(o)
  BY <1>1, <1>2, <1>3, <1>4, <1>5 DEF Versioned, unresolvedDispute
<1>7. InTime(o, order'[o].status)
  BY <1>1, <1>2, <1>3 DEF InTime, Time, NoTime
<1>8. Connected(order[o].status, trail'[o], order'[o].status)
  BY <1>2, <1>3, OneEvent
<1>9. Abides(o)
  BY <1>1, <1>2, <1>3 DEF Abides, MayMove, stageOf, unassignedStatuses,
     courierCancellable
<1> QED
  BY <1>1, <1>3, <1>4, <1>6, <1>7, <1>8, <1>9 DEF Lawful

\* A response moves the dispute on; its event says what the order is.
LEMMA CourierRespondLawful ==
    ASSUME SInv, NEW o \in Order, NEW c \in Courier, NEW seen,
           CourierRespond(c, o, seen)
    PROVE  Lawful(o)
<1>1. /\ UNCHANGED <<now, setting, order, commission, screen, job>>
      /\ dispute[o].status = "OPEN"
  BY DEF CourierRespond
<1>2. order[o].status = "DELIVERY_DISPUTED" /\ dispute[o] \in DisputeRow
  BY <1>1, Columns DEF SInv, RowInv, unresolvedDispute
<1>3. /\ dispute'[o].version = dispute[o].version + 1
      /\ dispute'[o].status = "COURIER_RESPONDED"
      /\ \A p \in Order \ {o} : dispute'[p] = dispute[p]
  BY <1>2 DEF CourierRespond, SInv, IInv, TypeOK, DisputeRow
<1>4. trail'[o] = <<E("DELIVERY_DISPUTED", "DELIVERY_DISPUTED")>>
  BY DEF CourierRespond, SInv, IInv, TypeOK
<1>5. Versioned(o)
  BY <1>1, <1>2, <1>3 DEF Versioned, DisputeRow
<1>6. InTime(o, order'[o].status)
  BY <1>1, <1>2 DEF InTime
<1>7. Connected(order[o].status, trail'[o], order'[o].status)
  BY <1>1, <1>2, <1>4, OneEvent
<1>8. Abides(o)
  BY <1>1 DEF Abides, MayMove
<1> QED
  BY <1>1, <1>3, <1>5, <1>6, <1>7, <1>8 DEF Lawful

\* finalizeInTransaction closes an order that was carried, for its courier.
LEMMA FinalizeLawful ==
    ASSUME SInv, NEW o \in Order, NEW row \in OrderRow, NEW expected,
           FinalizeInTransaction(o, row, expected,
                                 <<E(order[o].status, row.status)>>),
           row.courierId = order[o].courierId,
           row.version >= order[o].version,
           stageOf(order[o].status) = "carried",
           order[o].status # "DELIVERED",
           \/ /\ dispute'[o].version > dispute[o].version
              /\ dispute'[o].status # "NONE"
           \/ dispute'[o] = dispute[o] /\ dispute[o].status \notin unresolvedDispute,
           \A p \in Order \ {o} : dispute'[p] = dispute[p],
           UNCHANGED <<now, screen>>
    PROVE  Lawful(o)
<1> DEFINE completed == [row EXCEPT !.status = "COMPLETED",
                                    !.financialFinalizedAt = now,
                                    !.version = @ + 1]
           all == Append(<<E(order[o].status, row.status)>>,
                         E(row.status, "COMPLETED"))
<1>1. /\ Put(o, completed, all)
      /\ commission' = commission \cup
                         {[orderId |-> o, courierId |-> row.courierId]}
  BY DEF FinalizeInTransaction
<1>2. /\ completed.status = "COMPLETED"
      /\ completed.courierId = order[o].courierId
      /\ completed.version > order[o].version
  <2>1. order[o].version \in Nat
    BY Columns DEF SInv, OrderRow
  <2> QED
    BY <2>1 DEF OrderRow
<1> HIDE DEF completed
<1>3. /\ order'[o] = completed /\ trail'[o] = all
      /\ \A p \in Order \ {o} : order'[p] = order[p]
  BY <1>1, PutDoes DEF SInv, IInv
<1>4. dispute[o].version \in Nat
  BY Columns DEF SInv, RowInv, DisputeRow
<1>5. Versioned(o)
  BY <1>2, <1>3, <1>4 DEF Versioned
<1>6. InTime(o, order'[o].status)
  BY <1>2, <1>3 DEF InTime, stageOf, unassignedStatuses
<1>7. Connected(order[o].status, trail'[o], order'[o].status)
  BY <1>2, <1>3, TwoEvents
<1>8. stageOf("COMPLETED") = "closed"
  BY DEF stageOf
<1>9. Abides(o)
  BY <1>1, <1>2, <1>3, <1>8 DEF Abides
<1> QED
  BY <1>3, <1>5, <1>6, <1>7, <1>9 DEF Lawful

\* A resolution ends the dispute and moves the order off DELIVERY_DISPUTED.
LEMMA ResolveDisputeLawful ==
    ASSUME SInv, NEW o \in Order, NEW resolution \in resolutions, NEW seen,
           ResolveDispute(o, resolution, seen)
    PROVE  Lawful(o)
<1>1. /\ RowInv(order[o], dispute[o]) /\ order[o] \in OrderRow
      /\ dispute[o] \in DisputeRow
  BY Columns DEF SInv, RowInv
<1>2. /\ dispute[o].status \in unresolvedDispute
      /\ order[o].status = "DELIVERY_DISPUTED"
      /\ stageOf(order[o].status) = "carried"
      /\ UNCHANGED <<now, setting, screen, job>>
  BY <1>1 DEF ResolveDispute, RowInv, stageOf, unassignedStatuses,
     courierCancellable
<1>3. /\ dispute'[o].version = dispute[o].version + 1
      /\ dispute'[o].status = resolution.dispute
      /\ \A p \in Order \ {o} : dispute'[p] = dispute[p]
  BY <1>1 DEF ResolveDispute, SInv, IInv, TypeOK, DisputeRow
<1>4. /\ dispute'[o].version > dispute[o].version
      /\ dispute'[o].status # "NONE"
      /\ dispute'[o] # dispute[o]
  BY <1>1, <1>3 DEF DisputeRow, resolutions
<1>5. CASE resolution.target = "COMPLETED"
  <2>1. FinalizeInTransaction(o, order[o], {"DELIVERY_DISPUTED"},
                              <<E(order[o].status, order[o].status)>>)
    BY <1>2, <1>5 DEF ResolveDispute
  <2>2. order[o].version >= order[o].version
    BY <1>1 DEF OrderRow
  <2> QED
    BY <1>1, <1>2, <1>3, <1>4, <2>1, <2>2, FinalizeLawful
<1>6. CASE resolution.target # "COMPLETED"
  <2> DEFINE row == [order[o] EXCEPT !.status = resolution.target,
                                     !.version = @ + 1]
  <2>1. Put(o, row, <<E(order[o].status, resolution.target)>>)
        /\ UNCHANGED commission
    BY <1>2, <1>6 DEF ResolveDispute
  <2>2. /\ row.status = resolution.target /\ row.courierId = order[o].courierId
        /\ row.version = order[o].version + 1 /\ order[o].version \in Nat
    BY <1>1 DEF OrderRow
  <2> HIDE DEF row
  <2>3. /\ order'[o] = row
        /\ trail'[o] = <<E(order[o].status, resolution.target)>>
        /\ \A p \in Order \ {o} : order'[p] = order[p]
    BY <2>1, PutDoes DEF SInv, IInv
  <2>4. resolution.target \in {"DELIVERY_FAILED", "RETURNING_TO_STORE"}
    BY <1>6 DEF resolutions
  <2>5. Versioned(o)
    BY <1>4, <2>2, <2>3, <2>4 DEF Versioned
  <2>6. InTime(o, order'[o].status)
    BY <1>2 DEF InTime
  <2>7. Connected(order[o].status, trail'[o], order'[o].status)
    BY <2>2, <2>3, OneEvent
  <2>8. Abides(o)
    BY <1>2, <2>1, <2>2, <2>3, <2>4 DEF Abides, MayMove, stageOf,
       unassignedStatuses, courierCancellable
  <2> QED
    BY <1>2, <1>3, <2>3, <2>5, <2>6, <2>7, <2>8 DEF Lawful
<1> QED
  BY <1>5, <1>6

\* A confirmed return passes through RETURNED within one transaction.
LEMMA ConfirmReturnLawful ==
    ASSUME SInv, NEW o \in Order, NEW isAdmin \in BOOLEAN, NEW seen,
           ConfirmReturn(o, isAdmin, seen)
    PROVE  Lawful(o)
<1> DEFINE returned == [order[o] EXCEPT !.status = "RETURNED", !.version = @ + 1]
<1>1. /\ FinalizeInTransaction(o, returned, {"RETURNED"},
                               <<E(order[o].status, "RETURNED")>>)
      /\ order[o].status = "RETURN_AWAITING_MERCHANT_CONFIRMATION"
      /\ UNCHANGED <<now, setting, dispute, screen, job>>
  BY DEF ConfirmReturn
<1>2. /\ order[o] \in OrderRow /\ dispute[o].status \notin unresolvedDispute
  BY <1>1, Columns DEF SInv, RowInv
<1>3. /\ returned \in OrderRow /\ returned.status = "RETURNED"
      /\ returned.courierId = order[o].courierId
      /\ returned.version >= order[o].version
  <2>1. order[o].version \in Nat /\ order[o].version + 1 \in Nat
    BY <1>2 DEF OrderRow
  <2>2. returned.version = order[o].version + 1
    BY <1>2 DEF OrderRow
  <2>3. returned \in OrderRow
    BY <1>2, <2>1 DEF OrderRow, OrderStatus
  <2> QED
    BY <1>2, <2>1, <2>2, <2>3 DEF OrderRow
<1> HIDE DEF returned
<1>4. stageOf(order[o].status) = "carried" /\ order[o].status # "DELIVERED"
  BY <1>1 DEF stageOf, unassignedStatuses, courierCancellable
<1> QED
  BY <1>1, <1>2, <1>3, <1>4, FinalizeLawful

\* A worker's old clock times out only what is over by now.
LEMMA ExpireCandidateLawful ==
    ASSUME SInv, NEW w \in Worker, NEW o \in Order, ExpireCandidate(w, o)
    PROVE  Lawful(o)
<1> DEFINE timedOut == IF order[o].dispatchAttemptCount >= 2
                       THEN "NO_COURIER_AVAILABLE_FINAL"
                       ELSE "NO_COURIER_AVAILABLE"
           row == [order[o] EXCEPT !.status = timedOut,
                                   !.acceptanceExpiresAt = NoTime,
                                   !.version = @ + 1]
<1>1. /\ Put(o, row, <<E(order[o].status, timedOut)>>)
      /\ order[o].status = "SEARCHING_COURIER"
      /\ order[o].acceptanceExpiresAt # NoTime
      /\ order[o].acceptanceExpiresAt <= job[w].now
      /\ UNCHANGED <<now, setting, dispute, commission, screen>>
  BY DEF ExpireCandidate, ExpiryDue
<1>2. timedOut \in {"NO_COURIER_AVAILABLE", "NO_COURIER_AVAILABLE_FINAL"}
  OBVIOUS
<1> HIDE DEF timedOut
<1>3. /\ row.status = timedOut /\ row.courierId = order[o].courierId
      /\ row.version = order[o].version + 1
      /\ order[o].acceptanceExpiresAt \in Time
  BY Columns DEF SInv, OrderRow
<1> HIDE DEF row
<1>4. job[w].now \in Nat /\ now \in Nat /\ job[w].now <= now
  BY DEF SInv, IInv, TypeOK, Job
<1>5. InTime(o, timedOut)
  BY <1>1, <1>2, <1>3, <1>4 DEF InTime, Time, NoTime
<1>6. MayMove(order[o].status, timedOut, order[o].courierId, order[o].courierId)
  BY <1>1, <1>2 DEF MayMove, stageOf, unassignedStatuses
<1> QED
  BY <1>1, <1>2, <1>3, <1>5, <1>6, MoveLawful

\* The worker completes what nobody can dispute any more.
LEMMA CompleteCandidateLawful ==
    ASSUME SInv, NEW w \in Worker, NEW o \in Order, CompleteCandidate(w, o)
    PROVE  Lawful(o)
<1> DEFINE row == [order[o] EXCEPT !.status = "COMPLETED",
                                   !.financialFinalizedAt = job[w].now,
                                   !.version = @ + 1]
<1>1. /\ Put(o, row, <<E(order[o].status, "COMPLETED")>>)
      /\ order[o].status = "DELIVERED"
      /\ order[o].deliveryDisputeDeadlineAt # NoTime
      /\ order[o].deliveryDisputeDeadlineAt <= job[w].now
      /\ commission' = commission \cup
                         {[orderId |-> o, courierId |-> order[o].courierId]}
      /\ UNCHANGED <<now, setting, dispute, screen>>
  BY DEF CompleteCandidate, CompletionDue
<1>2. /\ row.status = "COMPLETED" /\ row.courierId = order[o].courierId
      /\ row.version = order[o].version + 1 /\ order[o].version \in Nat
      /\ order[o].deliveryDisputeDeadlineAt \in Time
      /\ dispute[o].status \notin unresolvedDispute
  BY <1>1, Columns DEF SInv, OrderRow, RowInv
<1> HIDE DEF row
<1>3. /\ order'[o] = row
      /\ trail'[o] = <<E(order[o].status, "COMPLETED")>>
      /\ \A p \in Order \ {o} : order'[p] = order[p]
  BY <1>1, PutDoes DEF SInv, IInv
<1>4. job[w].now \in Nat /\ now \in Nat /\ job[w].now <= now
  BY DEF SInv, IInv, TypeOK, Job
<1>5. Versioned(o)
  BY <1>1, <1>2, <1>3 DEF Versioned
<1>6. InTime(o, order'[o].status)
  BY <1>1, <1>2, <1>3, <1>4 DEF InTime, Time, NoTime
<1>7. Connected(order[o].status, trail'[o], order'[o].status)
  BY <1>2, <1>3, OneEvent
<1>8. Abides(o)
  BY <1>1, <1>2, <1>3 DEF Abides, stageOf, unassignedStatuses,
     courierCancellable
<1> QED
  BY <1>1, <1>3, <1>5, <1>6, <1>7, <1>8 DEF Lawful

-----------------------------------------------------------------------------
(* Every step.                                                             *)

\* Any command of a client.
LEMMA CommandLawful ==
    ASSUME SInv, NEW o \in Order, NEW seen, Command(o, seen) PROVE Lawful(o)
BY AcceptLawful, TransitionLawful, CancelBeforePickupLawful, CancelLawful,
   RetryCourierSearchLawful, MerchantDisputeLawful, CourierRespondLawful,
   ResolveDisputeLawful, ConfirmReturnLawful DEF Command

\* Whatever writes the rows of an order is lawful.
LEMMA WritesLawful ==
    ASSUME SInv, NEW o \in Order, Writes(o) PROVE Lawful(o)
BY CreateOrderLawful, CommandLawful, ExpireCandidateLawful,
   CompleteCandidateLawful DEF Writes

\* Steps that write no row change neither the dispute nor the ledger.
LEMMA StepWrites ==
    ASSUME [Next]_vars
    PROVE  (\E o \in Order : Writes(o)) \/ UNCHANGED <<order, dispute, commission>>
BY DEF Next, RunCandidate, Writes, StartExpiry, StartCompletion, Crash,
   SkipCandidate, UpdateSettings, Load, Tick, vars

\* A step is lawful for one order and touches no other, or touches none.
LEMMA StepLawful ==
    ASSUME SInv, [Next]_vars
    PROVE  \/ \E o \in Order : Lawful(o)
           \/ UNCHANGED <<order, dispute, commission>>
BY StepWrites, WritesLawful

\* Commands write rows only: no clock, no screen, no job.
LEMMA CommandFrame ==
    ASSUME NEW o \in Order, NEW seen, Command(o, seen)
    PROVE  UNCHANGED <<now, screen, job>>
<1>1. ASSUME NEW c \in Courier,
             Accept(c, o, seen) \/ CancelBeforePickup(c, o, seen)
               \/ CourierRespond(c, o, seen)
      PROVE  UNCHANGED <<now, screen, job>>
  BY <1>1 DEF Accept, CancelBeforePickup, CourierRespond
<1>2. ASSUME NEW c \in Courier, NEW command \in lifecycle,
             Transition(c, o, command, seen)
      PROVE  UNCHANGED <<now, screen, job>>
  BY <1>2 DEF Transition
<1>3. ASSUME Cancel(o, seen) \/ RetryCourierSearch(o, seen)
               \/ MerchantDispute(o, seen)
      PROVE  UNCHANGED <<now, screen, job>>
  BY <1>3 DEF Cancel, RetryCourierSearch, MerchantDispute
<1>4. ASSUME NEW resolution \in resolutions, ResolveDispute(o, resolution, seen)
      PROVE  UNCHANGED <<now, screen, job>>
  BY <1>4 DEF ResolveDispute
<1>5. ASSUME NEW isAdmin \in BOOLEAN, ConfirmReturn(o, isAdmin, seen)
      PROVE  UNCHANGED <<now, screen, job>>
  BY <1>5 DEF ConfirmReturn
<1> QED
  BY <1>1, <1>2, <1>3, <1>4, <1>5 DEF Command

\* Only loading an order changes what a screen shows; only the worker and the
\* clock move the clocks.
LEMMA StepFrame ==
    ASSUME [Next]_vars
    PROVE  \/ \E o \in Order : Load(o)
           \/ /\ UNCHANGED screen
              /\ \/ UNCHANGED <<now, job>>
                 \/ Tick
                 \/ \E w \in Worker :
                       StartExpiry(w) \/ StartCompletion(w) \/ Crash(w)
                 \/ /\ UNCHANGED now
                    /\ \E w \in Worker, o \in Order : NextCandidate(w, o)
<1>1. ASSUME NEW o \in Order, CreateOrder(o) PROVE UNCHANGED <<now, screen, job>>
  BY <1>1 DEF CreateOrder
<1>2. ASSUME NEW w \in Worker, StartExpiry(w) \/ StartCompletion(w) \/ Crash(w)
      PROVE  UNCHANGED screen
  BY <1>2 DEF StartExpiry, StartCompletion, Crash
<1>3. ASSUME NEW w \in Worker, NEW o \in Order, RunCandidate(w, o)
      PROVE  UNCHANGED <<now, screen>> /\ NextCandidate(w, o)
  BY <1>3 DEF RunCandidate, ExpireCandidate, CompleteCandidate, SkipCandidate
<1>4. ASSUME NEW s \in Settings, UpdateSettings(s)
      PROVE  UNCHANGED <<now, screen, job>>
  BY <1>4 DEF UpdateSettings
<1>5. ASSUME Tick PROVE UNCHANGED screen
  BY <1>5 DEF Tick
<1>6. ASSUME UNCHANGED vars PROVE UNCHANGED <<now, screen, job>>
  BY <1>6 DEF vars
<1> QED
  BY <1>1, <1>2, <1>3, <1>4, <1>5, <1>6, CommandFrame DEF Next

\* A job's clock is an instant that has been.
LEMMA NextJobClock ==
    ASSUME SInv, [Next]_vars
    PROVE  \A w \in Worker : job'[w].now <= now'
<1>1. /\ now \in Nat
      /\ \A w \in Worker : job[w] \in Job /\ job[w].now <= now
      /\ job \in [Worker -> Job]
  BY DEF SInv, IInv, TypeOK
<1> SUFFICES ASSUME NEW v \in Worker PROVE job'[v].now <= now'
  OBVIOUS
<1>2. CASE UNCHANGED <<now, job>>
  BY <1>1, <1>2
<1>3. CASE Tick
  BY <1>1, <1>3 DEF Tick, Job
<1>4. ASSUME NEW o \in Order, Load(o) PROVE UNCHANGED <<now, job>>
  BY <1>4 DEF Load
<1>5. ASSUME NEW w \in Worker, StartExpiry(w) PROVE job'[v].now <= now'
  BY <1>1, <1>5 DEF StartExpiry
<1>6. ASSUME NEW w \in Worker, StartCompletion(w) PROVE job'[v].now <= now'
  BY <1>1, <1>6 DEF StartCompletion
<1>7. ASSUME NEW w \in Worker, Crash(w) PROVE job'[v].now <= now'
  BY <1>1, <1>7 DEF Crash, Idle
<1>8. ASSUME NEW w \in Worker, NEW o \in Order, NextCandidate(w, o), UNCHANGED now
      PROVE  job'[v].now <= now'
  <2> DEFINE left == [job[w] EXCEPT !.todo = @ \ {o}]
  <2>1. left.now = job[w].now /\ Idle.now = 0
    BY <1>1 DEF Job, Idle
  <2>2. job'[v] \in {Idle, job[v], left}
    BY <1>1, <1>8 DEF NextCandidate
  <2> HIDE DEF left
  <2>3. job'[v].now \in {0, job[v].now, job[w].now}
    BY <2>1, <2>2
  <2> QED
    BY <1>1, <1>8, <2>3
<1> QED
  BY <1>2, <1>3, <1>4, <1>5, <1>6, <1>7, <1>8, StepFrame

\* SInv is inductive.
LEMMA NextSInv == SInv /\ [Next]_vars => SInv'
<1> SUFFICES ASSUME SInv, [Next]_vars PROVE SInv'
  OBVIOUS
<1>1. IInv' /\ \A w \in Worker : job'[w].now <= now'
  BY NextIInv, NextJobClock DEF SInv
<1>2. ASSUME NEW o \in Order
      PROVE  /\ ScreenInv(screen[o], order[o], dispute[o])
             /\ order[o].version \in Nat /\ order'[o].version \in Nat
             /\ dispute[o].version \in Nat /\ dispute'[o].version \in Nat
             /\ screen[o].version \in Nat /\ screen[o].disputeVersion \in Nat
  BY <1>1 DEF SInv, IInv, TypeOK, OrderRow, DisputeRow, Snapshot
<1>3. ASSUME NEW o \in Order, UNCHANGED screen
      PROVE  ScreenInv(screen[o], order[o], dispute[o])'
  <2>1. Lawful(o) \/ Keeps(o)
    BY StepLawful DEF Lawful, Keeps
  <2>2. CASE Keeps(o)
    BY <1>2, <1>3, <2>2 DEF Keeps
  <2>3. CASE Lawful(o)
    BY <1>2, <1>3, <2>3 DEF Lawful, Versioned, ScreenInv
  <2> QED
    BY <2>1, <2>2, <2>3
<1>4. ASSUME NEW p \in Order, Load(p)
      PROVE  \A o \in Order : ScreenInv(screen[o], order[o], dispute[o])'
  <2>1. SnapshotOf(p).version = order[p].version
        /\ SnapshotOf(p).status = order[p].status
        /\ SnapshotOf(p).disputeVersion = dispute[p].version
    BY DEF SnapshotOf
  <2>2. UNCHANGED <<order, dispute>> /\ screen'[p] = SnapshotOf(p)
        /\ \A o \in Order \ {p} : screen'[o] = screen[o]
    BY <1>4 DEF Load, SInv, IInv, TypeOK
  <2> QED
    BY <1>2, <2>1, <2>2 DEF ScreenInv
<1> QED
  BY <1>1, <1>3, <1>4, StepFrame DEF SInv

\* At the start every screen is empty and every worker idle.
LEMMA InitSInv == Init => SInv
<1> SUFFICES ASSUME Init PROVE SInv
  OBVIOUS
<1>1. IInv
  BY InitIInv
<1>2. \A o \in Order : ScreenInv(screen[o], order[o], dispute[o])
  BY DEF Init, ScreenInv, absent, unresolvedDispute
<1>3. \A w \in Worker : job[w].now <= now
  BY DEF Init, Idle
<1> QED
  BY <1>1, <1>2, <1>3 DEF SInv

\* SInv holds in every reachable state.
LEMMA SInvAlways == Spec => []SInv
BY InitSInv, NextSInv, PTL DEF Spec

-----------------------------------------------------------------------------
(* The theorems.                                                           *)

\* No stale screen decides anything: a row never changes under an unchanged
\* version, and a command takes effect on the status its sender saw only.
THEOREM DecidedOnWhatWasSeenHolds == Spec => DecidedOnWhatWasSeen
<1> DEFINE Decided(o) ==
      /\ order'[o] # order[o] => order'[o].version > order[o].version
      /\ dispute'[o] # dispute[o] => dispute'[o].version > dispute[o].version
      /\ \A seen \in Seen(o) :
           seen.status # order[o].status => ~Command(o, seen)
<1>1. ASSUME SInv, [Next]_vars, NEW o \in Order PROVE Decided(o)
  <2>1. order'[o] # order[o] => order'[o].version > order[o].version
    BY <1>1, StepLawful DEF Lawful, Versioned
  <2>2. dispute'[o] # dispute[o] => dispute'[o].version > dispute[o].version
    BY <1>1, StepLawful DEF Lawful, Versioned
  <2>3. ASSUME NEW seen \in Seen(o), Command(o, seen)
        PROVE  seen.status = order[o].status
    <3>1. CASE seen = SnapshotOf(o)
      BY <3>1 DEF SnapshotOf
    <3>2. CASE seen = screen[o]
      <4>1. ScreenInv(seen, order[o], dispute[o])
        BY <1>1, <3>2 DEF SInv
      <4>2. \/ order[o].version = seen.version
            \/ /\ dispute[o].version = seen.disputeVersion
               /\ dispute[o].status \in unresolvedDispute
        BY <2>3 DEF Command, Accept, Transition, CancelBeforePickup, Cancel,
           RetryCourierSearch, MerchantDispute, CourierRespond, ResolveDispute,
           ConfirmReturn, unresolvedDispute
      <4> QED
        BY <4>1, <4>2 DEF ScreenInv
    <3> QED
      BY <2>3, <3>1, <3>2 DEF Seen
  <2> QED
    BY <2>1, <2>2, <2>3
<1>2. SInv /\ [Next]_vars => [\A o \in Order : Decided(o)]_vars
  BY <1>1
<1> QED
  BY <1>2, SInvAlways, PTL DEF Spec, DecidedOnWhatWasSeen

\* Acceptance and dispute come before their deadlines, timeout and completion
\* from them on, whatever old clock the worker runs on.
THEOREM DeadlinesDecideHolds == Spec => DeadlinesDecide
<1>1. ASSUME SInv, [Next]_vars, NEW o \in Order PROVE InTime(o, order'[o].status)
  <2>1. CASE order'[o] = order[o]
    BY <2>1 DEF InTime
  <2>2. CASE order'[o] # order[o]
    BY <1>1, <2>2, StepLawful DEF Lawful
  <2> QED
    BY <2>1, <2>2
<1>2. SInv /\ [Next]_vars => [\A o \in Order : InTime(o, order'[o].status)]_vars
  BY <1>1
<1> QED
  BY <1>2, SInvAlways, PTL DEF Spec, DeadlinesDecide, InTime

\* The events a transaction appends lead from the status it found to the one
\* it leaves, also where the code writes constants into them.
THEOREM EventsExplainStatusHolds == Spec => EventsExplainStatus
<1> DEFINE Explained(o) ==
      order'[o] # order[o] \/ dispute'[o] # dispute[o] =>
          Connected(order[o].status, trail'[o], order'[o].status)
<1>1. ASSUME SInv, [Next]_vars, NEW o \in Order PROVE Explained(o)
  BY <1>1, StepLawful DEF Lawful
<1>2. SInv /\ [Next]_vars => [\A o \in Order : Explained(o)]_vars
  BY <1>1
<1> QED
  BY <1>2, SInvAlways, PTL DEF Spec, EventsExplainStatus

\* Every run of the lifecycle is a run of the delivery contract.
THEOREM ImplementsContractHolds == Spec => ImplementsContract
<1> DEFINE stage == [o \in Order |-> stageOf(order[o].status)]
           holder == [o \in Order |-> order[o].courierId]
<1>1. Init => Contract!ContractInit
  BY DEF Init, Contract!ContractInit, absent, stageOf
<1>2. SInv /\ [Next]_vars => [Contract!ContractNext]_(Contract!contractVars)
  <2> SUFFICES ASSUME SInv, [Next]_vars
               PROVE  Contract!ContractNext \/ UNCHANGED Contract!contractVars
    OBVIOUS
  <2>1. CASE UNCHANGED <<order, dispute, commission>>
    BY <2>1 DEF Contract!contractVars
  <2>2. ASSUME NEW o \in Order, Lawful(o)
        PROVE  Contract!ContractNext \/ UNCHANGED Contract!contractVars
    <3>1. stage' = [stage EXCEPT ![o] = stageOf(order'[o].status)]
      BY <2>2 DEF Lawful
    <3>2. holder' = [holder EXCEPT ![o] = order'[o].courierId]
      BY <2>2 DEF Lawful
    <3>3. stage[o] = stageOf(order[o].status) /\ holder[o] = order[o].courierId
      OBVIOUS
    <3>4. ASSUME order'[o].courierId = order[o].courierId
          PROVE  UNCHANGED holder
      BY <3>2, <3>4
    <3>5. ASSUME stageOf(order'[o].status) = stageOf(order[o].status)
          PROVE  UNCHANGED stage
      BY <3>1, <3>5
    <3> HIDE DEF stage, holder
    <3>6. CASE /\ stageOf(order[o].status) = "carried"
               /\ stageOf(order'[o].status) = "closed"
               /\ order'[o].courierId = order[o].courierId
               /\ commission' = commission \cup
                                  {[orderId |-> o, courierId |-> order[o].courierId]}
      <4>1. Contract!Close(o)
        BY <3>1, <3>3, <3>4, <3>6 DEF Contract!Close, Contract!Move, stage, holder
      <4> QED
        BY <4>1 DEF Contract!ContractNext
    <3>7. CASE /\ MayMove(order[o].status, order'[o].status,
                          order[o].courierId, order'[o].courierId)
               /\ UNCHANGED commission
      <4> DEFINE from == stageOf(order[o].status)
                 to == stageOf(order'[o].status)
                 same == order'[o].courierId = order[o].courierId
      <4> USE <3>1, <3>2, <3>3, <3>7
      <4>1. CASE from = to /\ same
        BY <3>4, <3>5, <4>1 DEF Contract!contractVars, stage, holder
      <4>2. CASE from = "none" /\ to = "open" /\ same
        <5>1. Contract!Publish(o)
          BY <3>4, <4>2 DEF Contract!Publish, Contract!Move, stage, holder
        <5> QED
          BY <5>1 DEF Contract!ContractNext
      <4>3. CASE from = "open" /\ to = "assigned" /\ order'[o].courierId \in Courier
        <5>1. PICK c \in Courier : order'[o].courierId = c
          BY <4>3
        <5>2. Contract!Assign(o, c)
          BY <4>3, <5>1 DEF Contract!Assign, Contract!Move, stage, holder
        <5> QED
          BY <5>2 DEF Contract!ContractNext
      <4>4. CASE from = "assigned" /\ to = "open" /\ order'[o].courierId = NoCourier
        <5>1. Contract!HandBack(o)
          BY <4>4 DEF Contract!HandBack, Contract!Move, stage, holder
        <5> QED
          BY <5>1 DEF Contract!ContractNext
      <4>5. CASE from = "assigned" /\ to = "carried" /\ same
        <5>1. Contract!PickUp(o)
          BY <3>4, <4>5 DEF Contract!PickUp, Contract!Move, stage, holder
        <5> QED
          BY <5>1 DEF Contract!ContractNext
      <4>6. CASE /\ from \in {"open", "assigned"} /\ to = "free"
                 /\ order'[o].courierId = NoCourier
        <5>1. Contract!CancelFree(o)
          BY <4>6 DEF Contract!CancelFree, Contract!Move, stage, holder
        <5> QED
          BY <5>1 DEF Contract!ContractNext
      <4> QED
        BY <4>1, <4>2, <4>3, <4>4, <4>5, <4>6 DEF MayMove
    <3> QED
      BY <2>2, <3>6, <3>7 DEF Lawful, Abides
  <2> QED
    BY <2>1, <2>2, StepLawful
<1> QED
  BY <1>1, <1>2, SInvAlways, PTL DEF Spec, ImplementsContract, Contract!ContractSpec
=============================================================================
