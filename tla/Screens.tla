-------------------------------- MODULE Screens --------------------------------
(***************************************************************************)
(* What a merchant's browser makes of the API: the form of a new order     *)
(* with its quote, the list of orders, and the details of one of them      *)
(* (merchant-app.tsx, new-order.tsx), kept up to date by events on a       *)
(* socket (realtime.service.ts) and by a reload every 30 seconds.          *)
(*                                                                         *)
(* Calls are answered and taken in any order, and any of them may be lost  *)
(* on its way or on its way back.  Events are lost while the socket is     *)
(* down, when the process that should publish them dies, or come before    *)
(* the transaction they tell of has committed.  The model covers the life  *)
(* of one access token: the web clients never renew theirs.                *)
(***************************************************************************)
EXTENDS Naturals, Sequences, SequencesExt

CONSTANTS Draft,      \* what the form of a new order can hold: "priced" what a
                      \* quote's fingerprint covers, "unpriced" the other fields
          Call,       \* calls of the browser that can be under way at a time
          MaxQuotes,  \* bound on the quotes
          MaxOrders,  \* bound on the orders
          MaxVersion, \* bound on the version of an order
          MaxWrites   \* bound on the rows' versions, a quote's one included

ASSUME BoundAssumption == {MaxQuotes, MaxOrders, MaxWrites} \subseteq Nat /\ MaxVersion \in Nat \ {0}
ASSUME DraftAssumption == Draft # {}

VARIABLES quote,     \* PriceQuote rows: what they were asked for, and if spent
          order,     \* DeliveryOrder rows, with the form's fingerprint on confirming
          draft,     \* the form
          offered,   \* the quote on the screen, with its quoteFingerprint
          orders,    \* the list of orders on the screen
          selected,  \* the order whose details are on the screen
          call,      \* what has become of each call
          event,     \* orders that events on their way to the browser tell of
          connected  \* is the socket open?

screen == <<draft, offered, orders, selected>>
rows == <<quote, order>>
wire == <<event, connected>>
vars == <<rows, screen, call, wire>>

None == 0

\* Place, customer, store and parcel are priced.  Address line, street, building,
\* floor, apartment, landmark, notes, description, link and whether the address is
\* saved go into quote and order as well, but into no fingerprint.
NoDraft == [priced |-> None, unpriced |-> None]

quoteInputFingerprint(d) == d.priced
Fingerprint == {quoteInputFingerprint(d) : d \in Draft}

Quote == 1 .. MaxQuotes
PriceQuote == [data: Draft, spent: BOOLEAN]
DeliveryOrder == [quote: Quote, confirmed: Fingerprint, version: 1 .. MaxVersion]
Shown == [order: 1 .. MaxOrders, version: 1 .. MaxVersion]
Nothing == [order |-> None, version |-> 0]
NoOffer == [quote |-> None, fingerprint |-> None]

Kind == {"quote", "confirm", "list", "open", "refetch", "command"}

\* "of" is the quote or the order that a call is about, "draft" the body of a quote
\* request, and "fingerprint" that of the form when a quote was asked for or confirmed.
Idle == [step |-> "idle", kind |-> "list", of |-> None, version |-> 0,
         draft |-> NoDraft, fingerprint |-> None, answer |-> None]

Init ==
    /\ quote = <<>> /\ order = <<>>
    /\ draft = CHOOSE d \in Draft : TRUE
    /\ offered = NoOffer
    /\ orders = <<>>
    /\ selected = Nothing
    /\ call = [c \in Call |-> Idle]
    /\ event = {}
    /\ connected = FALSE

Sent(kind, of, version) ==
    [step |-> "sent", kind |-> kind, of |-> of, version |-> version,
     draft |-> IF kind = "quote" THEN draft ELSE NoDraft,
     fingerprint |-> IF kind \in {"quote", "confirm"}
                       THEN quoteInputFingerprint(draft) ELSE None,
     answer |-> None]

Send(c, kind, of, version) ==
    /\ call[c].step = "idle"
    /\ call' = [call EXCEPT ![c] = Sent(kind, of, version)]

Answer(c, answer) ==
    call' = [call EXCEPT ![c].step = "answered", ![c].answer = answer]

Done(c) == call' = [call EXCEPT ![c] = Idle]

sent(c, kind) == call[c].step = "sent" /\ call[c].kind = kind

\* Mistake: the body of a refusal is taken for an answer.
answered_Any(c, kind) == call[c].step # "idle" /\ call[c].kind = kind
answered(c, kind) == call[c].step = "answered" /\ call[c].kind = kind

shown(o) == [order |-> o, version |-> order[o].version]

\* The API's list of orders, the newest first; there are no more than a page holds.
listed == [i \in DOMAIN order |-> shown(Len(order) + 1 - i)]

\* Are there fewer writes of quotes and orders than their bound?
room == Len(quote) + FoldSeq(LAMBDA o, n : o.version + n, 0, order) < MaxWrites

\* An event for a socket that is not open is lost.
Publish(o) == event' = IF connected THEN event \cup {o} ELSE event

-----------------------------------------------------------------------------
(* The form of a new order: createQuote, confirmOrder.                     *)

\* The form is on the screen while no quote is, also while one is asked for.
Edit ==
    /\ offered = NoOffer
    /\ draft' \in Draft \ {draft}
    /\ UNCHANGED <<rows, offered, orders, selected, call, wire>>

InvalidateQuote ==
    /\ offered # NoOffer
    /\ offered' = NoOffer
    /\ UNCHANGED <<rows, draft, orders, selected, call, wire>>

AskQuote(c) ==
    /\ offered = NoOffer
    /\ Len(quote) < MaxQuotes
    /\ Send(c, "quote", None, 0)
    /\ UNCHANGED <<rows, screen, wire>>

ServeQuote(c) ==
    /\ sent(c, "quote")
    /\ Len(quote) < MaxQuotes /\ room
    /\ quote' = Append(quote, [data |-> call[c].draft, spent |-> FALSE])
    /\ Answer(c, Len(quote) + 1)
    /\ UNCHANGED <<order, screen, wire>>

\* Mistake: the fingerprint is taken when the quote comes.
inputFingerprint_Late(c) == quoteInputFingerprint(draft)

\* The fingerprint of what was asked for, not of what the form holds by now.
inputFingerprint(c) == call[c].fingerprint

TakeQuote(c) ==
    /\ answered(c, "quote")
    /\ offered' = [quote |-> call[c].answer, fingerprint |-> inputFingerprint(c)]
    /\ Done(c)
    /\ UNCHANGED <<rows, draft, orders, selected, wire>>

\* A quote is confirmed while its fingerprint is that of the form, whatever the
\* other fields hold by now.  Every confirmation has an idempotency key of its own,
\* and the button stays enabled while one is under way.
ConfirmOrder(c) ==
    /\ offered # NoOffer /\ offered.fingerprint = quoteInputFingerprint(draft)
    /\ Send(c, "confirm", offered.quote, 0)
    /\ UNCHANGED <<rows, screen, wire>>

\* The quote is ACTIVE until its one order exists.
ServeConfirm(c) ==
    LET q == call[c].of IN
    /\ sent(c, "confirm")
    /\ ~quote[q].spent
    /\ Len(order) < MaxOrders /\ room
    /\ quote' = [quote EXCEPT ![q].spent = TRUE]
    /\ order' = Append(order, [quote |-> q, confirmed |-> call[c].fingerprint, version |-> 1])
    /\ Answer(c, [order |-> Len(order) + 1, version |-> 1])
    /\ \E told \in BOOLEAN : IF told THEN Publish(Len(order) + 1) ELSE UNCHANGED event
    /\ UNCHANGED <<screen, connected>>

TakeConfirm(c) ==
    /\ answered(c, "confirm")
    /\ orders' = <<call[c].answer>> \o orders
    /\ offered' = NoOffer
    /\ Done(c)
    /\ UNCHANGED <<rows, draft, selected, wire>>

-----------------------------------------------------------------------------
(* The orders: loadWorkspace, openOrder, and the commands of a merchant.   *)

\* Every 30 seconds.
Reconcile(c) ==
    /\ Send(c, "list", None, 0)
    /\ UNCHANGED <<rows, screen, wire>>

ServeList(c) ==
    /\ sent(c, "list")
    /\ Answer(c, listed)
    /\ UNCHANGED <<rows, screen, wire>>

\* Mistake: only the orders that are on the screen are brought up to date.
loaded_Known(c) ==
    SelectSeq(call[c].answer,
              LAMBDA row : \E i \in DOMAIN orders : orders[i].order = row.order)
loaded(c) == call[c].answer

TakeList(c) ==
    /\ answered(c, "list")
    /\ orders' = loaded(c)
    /\ Done(c)
    /\ UNCHANGED <<rows, draft, offered, selected, wire>>

OpenOrder(c) ==
    /\ \E i \in DOMAIN orders : Send(c, "open", orders[i].order, 0)
    /\ UNCHANGED <<rows, screen, wire>>

ServeDetails(c) ==
    /\ sent(c, "open") \/ sent(c, "refetch")
    /\ Answer(c, shown(call[c].of))
    /\ UNCHANGED <<rows, screen, wire>>

\* Whatever has been opened since, the last answer to come is shown.
TakeOpened(c) ==
    /\ answered(c, "open")
    /\ selected' = call[c].answer
    /\ Done(c)
    /\ UNCHANGED <<rows, draft, offered, orders, wire>>

TakeRefetched(c) ==
    /\ answered(c, "refetch")
    /\ selected' = IF selected.order = call[c].of THEN call[c].answer ELSE selected
    /\ Done(c)
    /\ UNCHANGED <<rows, draft, offered, orders, wire>>

CloseOrder ==
    /\ selected # Nothing
    /\ selected' = Nothing
    /\ UNCHANGED <<rows, draft, offered, orders, call, wire>>

\* cancelOrder, retryCourierSearch, confirmReturn, disputeDelivery.
Command(c) ==
    /\ selected # Nothing
    /\ Send(c, "command", selected.order, selected.version)
    /\ UNCHANGED <<rows, screen, wire>>

\* The row moves on, and the event may be lost or have been sent before.
MoveOn(o) ==
    /\ order[o].version < MaxVersion /\ room
    /\ order' = [order EXCEPT ![o].version = @ + 1]
    /\ \E told \in BOOLEAN : IF told THEN Publish(o) ELSE UNCHANGED event
    /\ UNCHANGED <<quote, screen, connected>>

ServeCommand(c) ==
    LET o == call[c].of IN
    /\ sent(c, "command")
    /\ order[o].version = call[c].version
    /\ MoveOn(o)
    /\ Answer(c, [order |-> o, version |-> order[o].version + 1])

TakeCommand(c) ==
    /\ answered(c, "command")
    /\ selected' = call[c].answer
    /\ orders' = [i \in DOMAIN orders |-> IF orders[i].order = call[c].of
                                            THEN call[c].answer ELSE orders[i]]
    /\ Done(c)
    /\ UNCHANGED <<rows, draft, offered, wire>>

\* confirmReturn has the list loaded instead.
TakeReturn(c) ==
    /\ answered(c, "command")
    /\ selected' = call[c].answer
    /\ call' = [call EXCEPT ![c] = Sent("list", None, 0)]
    /\ UNCHANGED <<rows, draft, offered, orders, wire>>

\* disputeDelivery opens the order again.
TakeDispute(c) ==
    /\ answered(c, "command")
    /\ call' = [call EXCEPT ![c] = Sent("open", call[c].of, 0)]
    /\ UNCHANGED <<rows, screen, wire>>

\* A call that is refused, or that is lost before or after it is served, leaves
\* a message and no more.
Fail(c) ==
    /\ call[c].step # "idle"
    /\ Done(c)
    /\ UNCHANGED <<rows, screen, wire>>

-----------------------------------------------------------------------------
(* The rest of the world.                                                  *)

\* A courier, an administrator or the worker.
MoveOrder ==
    /\ \E o \in DOMAIN order : MoveOn(o)
    /\ UNCHANGED call

\* merchantDispute and finalizeInTransaction publish before they commit.
PublishEarly ==
    /\ connected
    /\ \E o \in DOMAIN order : order[o].version < MaxVersion /\ room /\ Publish(o)
    /\ UNCHANGED <<rows, screen, call, connected>>

\* "realtime.ready" names no order: the list is loaded, and nothing else.
Connect(c) ==
    /\ ~connected
    /\ connected' = TRUE
    /\ Send(c, "list", None, 0)
    /\ UNCHANGED <<rows, screen, event>>

Disconnect ==
    /\ connected
    /\ connected' = FALSE
    /\ event' = {}
    /\ UNCHANGED <<rows, screen, call>>

\* An event has the list loaded, and the details of its order.
Receive(c, d) ==
    /\ \E o \in event :
          /\ event' = event \ {o}
          /\ c # d /\ {call[c].step, call[d].step} = {"idle"}
          /\ call' = [call EXCEPT ![c] = Sent("list", None, 0),
                                  ![d] = Sent("refetch", o, 0)]
    /\ UNCHANGED <<rows, screen, connected>>

-----------------------------------------------------------------------------
Next ==
    \/ Edit \/ InvalidateQuote \/ CloseOrder
    \/ \E c \in Call :
          \/ AskQuote(c) \/ ServeQuote(c) \/ TakeQuote(c)
          \/ ConfirmOrder(c) \/ ServeConfirm(c) \/ TakeConfirm(c)
          \/ Reconcile(c) \/ ServeList(c) \/ TakeList(c)
          \/ OpenOrder(c) \/ ServeDetails(c) \/ TakeOpened(c) \/ TakeRefetched(c)
          \/ Command(c) \/ ServeCommand(c) \/ TakeCommand(c)
          \/ TakeReturn(c) \/ TakeDispute(c)
          \/ Fail(c) \/ Connect(c)
          \/ \E d \in Call : Receive(c, d)
    \/ MoveOrder \/ PublishEarly \/ Disconnect

\* The timer fires again and again, a call is answered or given up, and not
\* every reload is lost.
Fairness ==
    /\ SF_vars(\E c \in Call : Reconcile(c))
    /\ SF_vars(\E c \in Call : ServeList(c))
    /\ SF_vars(\E c \in Call : TakeList(c))
    /\ WF_vars(\E c \in Call : Fail(c))

Spec == Init /\ [][Next]_vars /\ Fairness

-----------------------------------------------------------------------------
(* Properties.                                                             *)

\* Rows, screen and calls hold what they can hold.
TypeOK ==
    /\ quote \in Seq(PriceQuote) /\ Len(quote) <= MaxQuotes
    /\ order \in Seq(DeliveryOrder)
    /\ Len(order) <= MaxOrders
    /\ draft \in Draft
    /\ offered = NoOffer \/ offered \in [quote: DOMAIN quote, fingerprint: Fingerprint]
    /\ orders \in Seq(Shown)
    /\ selected \in Shown \cup {Nothing}
    /\ \A c \in Call : call[c].step \in {"idle", "sent", "answered"}
                          /\ call[c].kind \in Kind
    /\ event \subseteq DOMAIN order
    /\ connected \in BOOLEAN

\* "prevents a location-A quote from matching location B" (quote-input.test.ts):
\* an order's place, customer, store and parcel are those that the form held when
\* it was confirmed, although quotes come late and in any order while the form
\* goes on being edited.  It says nothing of the fields no fingerprint covers: an
\* apartment edited while the quote was priced is not the order's.
OrdersAreAsConfirmed ==
    \A o \in DOMAIN order :
       quoteInputFingerprint(quote[order[o].quote].data) = order[o].confirmed

\* "Disconnects therefore degrade to delayed updates, not inconsistent state"
\* (docs/architecture/phase-4-operations.md): once the orders have come to rest, the
\* list on the screen ends up with every order of its page (the 50 newest) as it
\* is, once, whatever events were lost, came early, or had their reloads answered
\* out of order.
ListCatchesUp == <>[](orders = listed)
=============================================================================
