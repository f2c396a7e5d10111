------------------------------ MODULE CourierApp ------------------------------
(***************************************************************************)
(* The courier's delivery screens (operational-app.tsx) and the orders the *)
(* API lists for them (courier-orders.service.ts): tabs that are loaded    *)
(* when they are opened, on events of a socket and every 30 seconds, and   *)
(* buttons that send the version on the screen.                            *)
(*                                                                         *)
(* Calls are answered and taken in any order, and any may be lost.  Events *)
(* are lost, late or early (see Screens), so one may come at any time.     *)
(* The courier stays eligible, and his clock agrees with the API's; the    *)
(* account's rows are Settlement's, and its tab shows nothing here.        *)
(***************************************************************************)
EXTENDS OrderDomain

CONSTANTS Order,
          Start,      \* statuses in which the app may find an order
          Call,       \* calls of the app that can be under way at a time
          MaxVersion  \* bound on the version of an order

Assumptions ==
    /\ Start \subseteq OrderStatus
    /\ MaxVersion \in Nat \ {0}

VARIABLES row,     \* DeliveryOrder with its DeliveryDispute
          updates, \* how often a row has been updated
          tab,     \* the open tab
          tabs,    \* what each tab holds
          busy,    \* are the buttons disabled?
          call     \* what has become of each call

rows == <<row, updates>>
screen == <<tab, tabs, busy>>
vars == <<rows, screen, call>>

\* Mistake: only what is on its way to the customer is current.
activeCourierStatuses_ToDelivery ==
    {"COURIER_ASSIGNED", "COURIER_ARRIVING_PICKUP", "AT_PICKUP", "PICKED_UP",
     "IN_TRANSIT", "AT_DROPOFF", "DELIVERED"}

\* A disputed order is not among them.
activeCourierStatuses ==
    {"COURIER_ASSIGNED", "COURIER_ARRIVING_PICKUP", "AT_PICKUP", "PICKED_UP",
     "IN_TRANSIT", "AT_DROPOFF", "DELIVERED", "DELIVERY_FAILED",
     "RETURNING_TO_STORE", "RETURN_AWAITING_MERCHANT_CONFIRMATION", "RETURNED"}

Tab == {"available", "current", "history", "account"}

\* "mine" says whether the app's courier holds the order, "updatedAt" orders the
\* rows by their last update, "handedBack" that his COURIER_CANCELLED event exists.
Row == [status: OrderStatus, version: 1 .. MaxVersion, mine: BOOLEAN,
        ended: BOOLEAN, dispute: {"NONE", "OPEN"},
        handedBack: BOOLEAN, updatedAt: Nat]

\* What a tab shows of an order: its row when the tab was loaded.
Card == [order: Order, row: Row]

Idle == [step |-> "idle", kind |-> "load", target |-> "available", card |-> {},
         path |-> "", answer |-> {}]

card(o) == [order |-> o, row |-> row[o]]

\* The row of an order as the app may find it.
found(status, mine) ==
    [status |-> status, version |-> 1, mine |-> mine, ended |-> FALSE,
     dispute |-> IF status = "DELIVERY_DISPUTED" THEN "OPEN" ELSE "NONE",
     handedBack |-> FALSE, updatedAt |-> 0]

Init ==
    /\ row \in [Order -> {found(s, mine) : s \in Start, mine \in BOOLEAN}]
    /\ \A o \in Order : row[o].mine => row[o].status \notin unassignedStatuses
    /\ updates = 0
    /\ tab = "available"
    /\ tabs = [t \in Tab |-> {}]
    /\ busy = FALSE
    /\ call = [c \in Call |-> Idle]

-----------------------------------------------------------------------------
(* What the API lists: available, current, history.                        *)

available == {o \in Order : row[o].status = "SEARCHING_COURIER" /\ ~row[o].ended}

active == {o \in Order : row[o].mine /\ row[o].status \in activeCourierStatuses}

\* One order only: the one updated last.
latest == {o \in active : \A p \in active : row[p].updatedAt <= row[o].updatedAt}

past == {o \in Order : \/ row[o].mine /\ row[o].status \in {"COMPLETED", "CANCELLED"}
                       \/ row[o].handedBack}

content == [available |-> {card(o) : o \in available},
            current |-> {card(o) : o \in latest},
            history |-> {card(o) : o \in past},
            account |-> {}]

-----------------------------------------------------------------------------
(* Calls.                                                                  *)

Sent(kind, target, cards, path) ==
    [step |-> "sent", kind |-> kind, target |-> target, card |-> cards,
     path |-> path, answer |-> {}]

Send(c, kind, target, cards, path) ==
    /\ call[c].step = "idle"
    /\ call' = [call EXCEPT ![c] = Sent(kind, target, cards, path)]

sent(c, kind) == call[c].step = "sent" /\ call[c].kind = kind
answered(c, kind) == call[c].step = "answered" /\ call[c].kind = kind

Answer(c, answer) ==
    call' = [call EXCEPT ![c].step = "answered", ![c].answer = answer]

\* When a command has been answered, the call goes on as a load of a tab.
ThenLoad(c, target) ==
    call' = [call EXCEPT ![c] = Sent("load", target, {}, "")]

Done(c) == call' = [call EXCEPT ![c] = Idle]

\* Mistake: the timer goes on loading the tab that was open when it was set.
Reload_First(c) ==
    /\ Send(c, "load", "available", {}, "")
    /\ UNCHANGED <<rows, screen>>

\* load: the timer, pulling the page down, "realtime.ready" and "order.updated"
\* load the open tab.
Reload(c) ==
    /\ Send(c, "load", tab, {}, "")
    /\ UNCHANGED <<rows, screen>>

\* "marketplace.order.available" and ".removed" load the orders on offer,
\* whichever tab is open.
MarketplaceChanges(c) ==
    /\ tab # "available"
    /\ Send(c, "load", "available", {}, "")
    /\ UNCHANGED <<rows, screen>>

SwitchTab(c, t) ==
    /\ tab # t
    /\ tab' = t
    /\ Send(c, "load", t, {}, "")
    /\ UNCHANGED <<rows, tabs, busy>>

ServeLoad(c) ==
    /\ sent(c, "load")
    /\ Answer(c, content[call[c].target])
    /\ UNCHANGED <<rows, screen>>

\* Any load that ends enables the buttons.
TakeLoad(c) ==
    /\ answered(c, "load")
    /\ tabs' = [tabs EXCEPT ![call[c].target] = call[c].answer]
    /\ busy' = FALSE
    /\ Done(c)
    /\ UNCHANGED <<rows, tab>>

\* The app's clock strikes every second: a card whose window has ended goes.
DropExpired ==
    /\ \E k \in tabs["available"] :
          /\ row[k.order].version > k.row.version \/ row[k.order].ended
          /\ tabs' = [tabs EXCEPT !["available"] = @ \ {k}]
    /\ UNCHANGED <<rows, tab, busy, call>>

-----------------------------------------------------------------------------
(* The buttons.                                                            *)

\* Mistake: nothing is to be done about a failed delivery.
nextAction_Forward ==
    [COURIER_ASSIGNED |-> "arriving-pickup",
     COURIER_ARRIVING_PICKUP |-> "arrived-pickup",
     AT_PICKUP |-> "picked-up", PICKED_UP |-> "in-transit",
     IN_TRANSIT |-> "arrived-dropoff", AT_DROPOFF |-> "delivered"]
nextAction ==
    [COURIER_ASSIGNED |-> "arriving-pickup",
     COURIER_ARRIVING_PICKUP |-> "arrived-pickup",
     AT_PICKUP |-> "picked-up", PICKED_UP |-> "in-transit",
     IN_TRANSIT |-> "arrived-dropoff", AT_DROPOFF |-> "delivered",
     DELIVERY_FAILED |-> "returning-to-store", RETURNING_TO_STORE |-> "returned"]

\* The commands the card of the current order offers.
paths(k) ==
    {nextAction[s] : s \in {k.row.status} \cap DOMAIN nextAction}
    \cup {p \in {"delivery-failed"} :
            k.row.status \in {"PICKED_UP", "IN_TRANSIT", "AT_DROPOFF"}}

mayHandBack(k) ==
    k.row.status \in {"COURIER_ASSIGNED", "COURIER_ARRIVING_PICKUP", "AT_PICKUP"}

\* respondToDispute, the button of a card with an open dispute, is no action here:
\* no such card is ever loaded (DisputesCanBeAnswered).
mayRespond(k) == k.row.dispute = "OPEN"

Press(c, kind, k, path) ==
    /\ busy' = TRUE
    /\ Send(c, kind, "current", {k}, path)
    /\ UNCHANGED <<rows, tab, tabs>>

Accept(c) ==
    /\ tab = "available" /\ ~busy
    /\ \E k \in tabs["available"] : Press(c, "accept", k, "")

Transition(c) ==
    /\ tab = "current" /\ ~busy
    /\ \E k \in tabs["current"] : \E p \in paths(k) : Press(c, "transition", k, p)

CancelBeforePickup(c) ==
    /\ tab = "current" /\ ~busy
    /\ \E k \in tabs["current"] : mayHandBack(k) /\ Press(c, "cancel", k, "")

\* The row that a command finds is the one on the card.
unchanged(k) == row[k.order].version = k.row.version

\* What every update of an order does to its row.
Put(o, changed) ==
    /\ row[o].version < MaxVersion
    /\ updates' = updates + 1
    /\ row' = [row EXCEPT ![o] = [changed EXCEPT !.version = row[o].version + 1,
                                                !.updatedAt = updates + 1]]

ServeAccept(c) ==
    /\ sent(c, "accept")
    /\ \E k \in call[c].card :
          /\ k.order \in available
          /\ unchanged(k)
          /\ Put(k.order, [row[k.order] EXCEPT !.status = "COURIER_ASSIGNED",
                                               !.mine = TRUE])
    /\ Answer(c, {})
    /\ UNCHANGED screen

ServeTransition(c) ==
    /\ sent(c, "transition")
    /\ \E k \in call[c].card : \E command \in lifecycle :
          /\ row[k.order].mine /\ unchanged(k)
          /\ command.action = call[c].path
          /\ row[k.order].status \in command.from
          /\ Put(k.order, [row[k.order] EXCEPT !.status = command.to])
    /\ Answer(c, {})
    /\ UNCHANGED screen

\* Mistake: the order keeps its courier.
published_Kept(r) ==
    [r EXCEPT !.status = "SEARCHING_COURIER", !.ended = FALSE, !.handedBack = TRUE]
published(r) ==
    [r EXCEPT !.status = "SEARCHING_COURIER", !.mine = FALSE,
              !.ended = FALSE, !.handedBack = TRUE]

ServeCancel(c) ==
    /\ sent(c, "cancel")
    /\ \E k \in call[c].card :
          /\ row[k.order].mine /\ unchanged(k)
          /\ row[k.order].status \in courierCancellable
          /\ Put(k.order, published(row[k.order]))
    /\ Answer(c, {})
    /\ UNCHANGED screen

TakeAccepted(c) ==
    /\ answered(c, "accept")
    /\ tab' = "current"
    /\ ThenLoad(c, "current")
    /\ UNCHANGED <<rows, tabs, busy>>

TakeMoved(c) ==
    /\ answered(c, "transition")
    /\ ThenLoad(c, "current")
    /\ UNCHANGED <<rows, screen>>

TakeCancelled(c) ==
    /\ answered(c, "cancel")
    /\ tab' = "available"
    /\ tabs' = [tabs EXCEPT !["current"] = {}]
    /\ ThenLoad(c, "available")
    /\ UNCHANGED <<rows, busy>>

\* A call that is refused or lost, before or after it is served, leaves a message.
Fail(c) ==
    /\ call[c].step # "idle"
    /\ call[c].kind # "accept"
    /\ busy' = FALSE
    /\ Done(c)
    /\ UNCHANGED <<rows, tab, tabs>>

\* Who was too late is shown what is left.
AcceptFails(c) ==
    /\ call[c].step # "idle"
    /\ call[c].kind = "accept"
    /\ ThenLoad(c, "available")
    /\ UNCHANGED <<rows, screen>>

-----------------------------------------------------------------------------
(* The rest of the world.                                                  *)

\* The statuses into which merchant, administrators and worker bring an order
\* of this courier, and everybody one that is not his.
elsewhere(r) ==
    (IF r.mine
     THEN ({cancellationTarget(r.status)} \ {"REFUSED"})
            \cup {s \in {"DELIVERY_DISPUTED", "COMPLETED"} : r.status = "DELIVERED"}
            \cup {x.target : x \in {y \in resolutions : r.status = "DELIVERY_DISPUTED"}}
            \cup {s \in {"COMPLETED"} :
                    r.status = "RETURN_AWAITING_MERCHANT_CONFIRMATION"}
     ELSE allOrderTransitions[r.status]
            \cup {s \in {"SEARCHING_COURIER"} : r.status \in courierCancellable})

MoveOrder ==
    /\ \E o \in Order : \E s \in elsewhere(row[o]) :
          Put(o, [row[o] EXCEPT
                    !.status = s,
                    !.mine = row[o].mine /\ s # "CANCELLED",
                    !.ended = FALSE,
                    !.dispute = IF s = "DELIVERY_DISPUTED" THEN "OPEN" ELSE "NONE"])
    /\ UNCHANGED <<screen, call>>

\* Time passes: an acceptance window ends.
WindowEnds ==
    /\ \E o \in available : row' = [row EXCEPT ![o].ended = TRUE]
    /\ UNCHANGED <<updates, screen, call>>

-----------------------------------------------------------------------------
Next ==
    \/ \E c \in Call :
          \/ Reload(c) \/ MarketplaceChanges(c) \/ ServeLoad(c) \/ TakeLoad(c)
          \/ \E t \in Tab : SwitchTab(c, t)
          \/ Accept(c) \/ ServeAccept(c) \/ TakeAccepted(c) \/ AcceptFails(c)
          \/ Transition(c) \/ ServeTransition(c) \/ TakeMoved(c)
          \/ CancelBeforePickup(c) \/ ServeCancel(c) \/ TakeCancelled(c)
          \/ Fail(c)
    \/ DropExpired \/ MoveOrder \/ WindowEnds

\* The timer fires again and again, a call is answered or given up, and not
\* every load of the open tab is lost.
ServeReload(c) == call[c].target = tab /\ ServeLoad(c)
TakeReload(c) == call[c].target = tab /\ TakeLoad(c)
GiveUp(c) == Fail(c) \/ AcceptFails(c)

Fairness ==
    /\ SF_vars(\E c \in Call : Reload(c))
    /\ SF_vars(\E c \in Call : ServeReload(c))
    /\ SF_vars(\E c \in Call : TakeReload(c))
    /\ WF_vars(\E c \in Call : GiveUp(c))

Spec == Init /\ [][Next]_vars /\ Fairness

-----------------------------------------------------------------------------
(* Properties.                                                             *)

\* Rows, screens and calls hold what they can hold, and only an order with a
\* courier's dispute has one.
TypeOK ==
    /\ row \in [Order -> Row] /\ updates \in Nat
    /\ tab \in Tab /\ busy \in BOOLEAN
    /\ \A t \in Tab : tabs[t] \subseteq Card
    /\ \A c \in Call : call[c].step \in {"idle", "sent", "answered"}
                          /\ call[c].target \in Tab
    /\ \A o \in Order : row[o].mine => row[o].status \notin unassignedStatuses

\* An order that only its courier can move on is before his eyes: the API lists
\* it as his current order, and its card has a button for every command that the
\* API would take and no other, although the app, the list and the commands each
\* have a table of statuses of their own.
NoOrderIsStranded ==
    \A o \in Order : \A k \in {card(o)} :
        LET commands == {x \in lifecycle : row[o].status \in x.from} IN
        row[o].mine /\ commands # {} =>
            /\ o \in active
            /\ paths(k) = {x.action : x \in commands}
            /\ mayHandBack(k) <=> row[o].status \in courierCancellable

\* The courier "may respond once" to a dispute (phase-4-operations.md): a courier
\* with one order is shown the dispute about it.
DisputesCanBeAnswered ==
    \A o \in Order :
        row[o].mine /\ row[o].dispute = "OPEN"
        /\ (\A p \in Order \ {o} : ~row[p].mine)
        => \E k \in content["current"] : k.order = o /\ mayRespond(k)

\* Clients "reconcile every 30 seconds" (docs/architecture/phase-4-operations.md):
\* whichever tab the courier stays on ends up as the API has it, whatever events
\* were lost and in whatever order loads and commands were answered.
TabsCatchUp ==
    \A t \in Tab : <>[](tab = t) => <>[](tabs[t] = content[t])
=============================================================================
