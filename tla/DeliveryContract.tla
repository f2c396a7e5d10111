--------------------------- MODULE DeliveryContract ---------------------------
(***************************************************************************)
(* What a merchant and a courier may rely on, whatever the order's status  *)
(* machine looks like: a package has at most one courier; the courier may  *)
(* leave, and the merchant may walk away free of charge, only until the    *)
(* package is picked up; from then on that courier keeps it until the      *)
(* order is closed, and closing it is what creates the platform's one      *)
(* commission, owed by that courier.                                       *)
(***************************************************************************)
CONSTANTS Order, Courier, NoCourier

VARIABLES stage,  \* how far each order has come
          holder, \* the courier it is assigned to
          paid    \* commissions: which courier owes one for which order

contractVars == <<stage, holder, paid>>

Stage == {"none", "open", "assigned", "carried", "free", "closed"}

ContractInit ==
    /\ stage = [o \in Order |-> "none"]
    /\ holder = [o \in Order |-> NoCourier]
    /\ paid = {}

Move(o, from, to) ==
    /\ stage[o] \in from
    /\ stage' = [stage EXCEPT ![o] = to]

Publish(o) == Move(o, {"none"}, "open") /\ UNCHANGED <<holder, paid>>

Assign(o, c) ==
    /\ Move(o, {"open"}, "assigned")
    /\ holder' = [holder EXCEPT ![o] = c]
    /\ UNCHANGED paid

HandBack(o) ==
    /\ Move(o, {"assigned"}, "open")
    /\ holder' = [holder EXCEPT ![o] = NoCourier]
    /\ UNCHANGED paid

PickUp(o) == Move(o, {"assigned"}, "carried") /\ UNCHANGED <<holder, paid>>

CancelFree(o) ==
    /\ Move(o, {"open", "assigned"}, "free")
    /\ holder' = [holder EXCEPT ![o] = NoCourier]
    /\ UNCHANGED paid

Close(o) ==
    /\ Move(o, {"carried"}, "closed")
    /\ paid' = paid \cup {[orderId |-> o, courierId |-> holder[o]]}
    /\ UNCHANGED holder

ContractNext ==
    \E o \in Order :
        \/ Publish(o) \/ HandBack(o) \/ PickUp(o) \/ CancelFree(o) \/ Close(o)
        \/ \E c \in Courier : Assign(o, c)

ContractSpec == ContractInit /\ [][ContractNext]_contractVars
=============================================================================
