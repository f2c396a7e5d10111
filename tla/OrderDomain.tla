----------------------------- MODULE OrderDomain -----------------------------
(***************************************************************************)
(* The pure order policy shared by the API and the worker: the statuses of *)
(* a delivery order, which status may follow which, what a merchant        *)
(* cancellation costs, how a courier search times out and when it may be   *)
(* retried.  Translated from apps/api/src/orders/order-domain.ts, the      *)
(* lifecycle table of courier-orders.service.ts and the dispute policy of  *)
(* phase-four-domain.ts.  Times are natural numbers; a null date column is *)
(* NoTime.                                                                 *)
(***************************************************************************)
EXTENDS Integers

NoTime == -1

maximumDispatchAttempts == 2

\* Mistake: free for one status too long.
FreeWhenPickedUp ==
    {"DRAFT", "QUOTED", "SEARCHING_COURIER", "NO_COURIER_AVAILABLE",
     "NO_COURIER_AVAILABLE_FINAL", "COURIER_ASSIGNED",
     "COURIER_ARRIVING_PICKUP", "AT_PICKUP", "PICKED_UP"}

\* Free of charge until the courier holds the package.
freeMerchantCancellationStatuses ==
    {"DRAFT", "QUOTED", "SEARCHING_COURIER", "NO_COURIER_AVAILABLE",
     "NO_COURIER_AVAILABLE_FINAL", "COURIER_ASSIGNED",
     "COURIER_ARRIVING_PICKUP", "AT_PICKUP"}

\* Mistake: an order under dispute may still be cancelled.
ReturnableWhenDisputed ==
    {"PICKED_UP", "IN_TRANSIT", "AT_DROPOFF", "DELIVERY_FAILED",
     "RETURNING_TO_STORE", "DELIVERY_DISPUTED"}

\* Cancellation turns into a return at full price.
postPickupMerchantCancellationStatuses ==
    {"PICKED_UP", "IN_TRANSIT", "AT_DROPOFF", "DELIVERY_FAILED",
     "RETURNING_TO_STORE"}

OrderStatus ==
    {"DRAFT", "QUOTED", "SEARCHING_COURIER", "NO_COURIER_AVAILABLE",
     "NO_COURIER_AVAILABLE_FINAL", "COURIER_ASSIGNED",
     "COURIER_ARRIVING_PICKUP", "AT_PICKUP", "PICKED_UP", "IN_TRANSIT",
     "AT_DROPOFF", "DELIVERED", "DELIVERY_DISPUTED", "DELIVERY_FAILED",
     "RETURNING_TO_STORE", "RETURN_AWAITING_MERCHANT_CONFIRMATION",
     "RETURNED", "COMPLETED", "CANCELLED"}

allOrderTransitions ==
    [DRAFT |-> {"QUOTED", "CANCELLED"},
     QUOTED |-> {"QUOTED", "SEARCHING_COURIER", "CANCELLED"},
     SEARCHING_COURIER |-> {"COURIER_ASSIGNED", "NO_COURIER_AVAILABLE",
                            "NO_COURIER_AVAILABLE_FINAL", "CANCELLED"},
     NO_COURIER_AVAILABLE |-> {"SEARCHING_COURIER", "CANCELLED"},
     NO_COURIER_AVAILABLE_FINAL |-> {"CANCELLED"},
     COURIER_ASSIGNED |-> {"COURIER_ARRIVING_PICKUP", "CANCELLED"},
     COURIER_ARRIVING_PICKUP |-> {"AT_PICKUP", "CANCELLED"},
     AT_PICKUP |-> {"PICKED_UP", "CANCELLED"},
     PICKED_UP |-> {"IN_TRANSIT", "DELIVERY_FAILED", "RETURNING_TO_STORE"},
     IN_TRANSIT |-> {"AT_DROPOFF", "DELIVERY_FAILED", "RETURNING_TO_STORE"},
     AT_DROPOFF |-> {"DELIVERED", "DELIVERY_FAILED", "RETURNING_TO_STORE"},
     DELIVERED |-> {"DELIVERY_DISPUTED", "COMPLETED"},
     DELIVERY_DISPUTED |-> {"COMPLETED", "DELIVERY_FAILED",
                            "RETURNING_TO_STORE"},
     DELIVERY_FAILED |-> {"RETURNING_TO_STORE"},
     RETURNING_TO_STORE |-> {"RETURNING_TO_STORE",
                             "RETURN_AWAITING_MERCHANT_CONFIRMATION"},
     RETURN_AWAITING_MERCHANT_CONFIRMATION |-> {"RETURNED"},
     RETURNED |-> {"COMPLETED"},
     COMPLETED |-> {},
     CANCELLED |-> {}]

canTransitionInPhaseThree(from, to) ==
    from \in OrderStatus /\ to \in allOrderTransitions[from]

\* Mistake: the deadline itself still counts as in time.
AcceptedAtDeadline(expiresAt, now) == expiresAt = NoTime \/ expiresAt < now

acceptanceIsExpired(expiresAt, now) == expiresAt = NoTime \/ expiresAt <= now

\* merchantCancellationDecision: the status a cancellation leads to, or
\* "REFUSED" where the code answers null.
cancellationTarget(status) ==
    IF status \in freeMerchantCancellationStatuses THEN "CANCELLED"
    ELSE IF status \in postPickupMerchantCancellationStatuses
         THEN "RETURNING_TO_STORE"
         ELSE "REFUSED"

\* The assigned courier's commands: where each may start and where it leads.
lifecycle ==
    {[action |-> "arriving-pickup", from |-> {"COURIER_ASSIGNED"},
      to |-> "COURIER_ARRIVING_PICKUP"],
     [action |-> "arrived-pickup", from |-> {"COURIER_ARRIVING_PICKUP"},
      to |-> "AT_PICKUP"],
     [action |-> "picked-up", from |-> {"AT_PICKUP"}, to |-> "PICKED_UP"],
     [action |-> "in-transit", from |-> {"PICKED_UP"}, to |-> "IN_TRANSIT"],
     [action |-> "arrived-dropoff", from |-> {"IN_TRANSIT"},
      to |-> "AT_DROPOFF"],
     [action |-> "delivered", from |-> {"AT_DROPOFF"}, to |-> "DELIVERED"],
     [action |-> "delivery-failed",
      from |-> {"PICKED_UP", "IN_TRANSIT", "AT_DROPOFF"},
      to |-> "DELIVERY_FAILED"],
     [action |-> "returning-to-store", from |-> {"DELIVERY_FAILED"},
      to |-> "RETURNING_TO_STORE"],
     [action |-> "returned", from |-> {"RETURNING_TO_STORE"},
      to |-> "RETURN_AWAITING_MERCHANT_CONFIRMATION"]}

\* cancelBeforePickup: the statuses the courier may hand the order back from.
courierCancellable ==
    {"COURIER_ASSIGNED", "COURIER_ARRIVING_PICKUP", "AT_PICKUP"}

disputeWindowIsActive(status, deadline, now) ==
    status = "DELIVERED" /\ deadline # NoTime /\ deadline > now

\* What an administrator's resolution makes of the dispute and of the order.
resolutions ==
    {[dispute |-> "RESOLVED_DELIVERY_CONFIRMED", target |-> "COMPLETED"],
     [dispute |-> "RESOLVED_NOT_DELIVERED", target |-> "DELIVERY_FAILED"],
     [dispute |-> "RESOLVED_RETURN_REQUIRED", target |-> "RETURNING_TO_STORE"]}

DisputeStatus ==
    {"NONE", "OPEN", "COURIER_RESPONDED", "RESOLVED_DELIVERY_CONFIRMED",
     "RESOLVED_NOT_DELIVERED", "RESOLVED_RETURN_REQUIRED"}

unresolvedDispute == {"OPEN", "COURIER_RESPONDED"}

\* The statuses the database's DeliveryOrder_phase4_scope_check keeps free
\* of a courier.
unassignedStatuses ==
    {"DRAFT", "QUOTED", "SEARCHING_COURIER", "NO_COURIER_AVAILABLE",
     "NO_COURIER_AVAILABLE_FINAL", "CANCELLED"}

=============================================================================
