------------------------------ MODULE ClientProofs ------------------------------
(***************************************************************************)
(* Proofs about Screens, for any drafts, any number of calls under way,    *)
(* and any bounds on quotes, orders and versions; and about CourierApp,    *)
(* for any orders, wherever they may stand when the app is opened.         *)
(*                                                                         *)
(* ScreenInv says that a quote on the screen, or in an answer, was asked   *)
(* for with a draft of the fingerprint it goes by (RightlyOffered,         *)
(* GoodCall), and that whatever is on the screen or under way is about     *)
(* rows that exist.  AppTyped says what rows, tabs and calls of the        *)
(* courier's app can be.                                                   *)
(***************************************************************************)
EXTENDS MCClients, SequenceTheorems, TLAPS

Serving == [step: {"idle", "sent", "answered"}, kind: Kind,
            of: Nat, version: Nat, draft: Draft \cup {NoDraft},
            fingerprint: Fingerprint \cup {None},
            answer: Nat \cup Shown \cup Seq(Shown)]

\* An order on the screen exists.
Existing(s) == s \in Shown /\ s.order \in DOMAIN order

\* What a call that is under way holds on to.
GoodCall(s) ==
    /\ s \in Serving
    /\ s.step # "idle" /\ s.kind = "quote" =>
         s.draft \in Draft /\ s.fingerprint = quoteInputFingerprint(s.draft)
    /\ s.step # "idle" /\ s.kind = "confirm" =>
         /\ s.of \in DOMAIN quote /\ s.fingerprint \in Fingerprint
         /\ quoteInputFingerprint(quote[s.of].data) = s.fingerprint
    /\ s.step # "idle" /\ s.kind \in {"open", "refetch", "command"} =>
         s.of \in DOMAIN order
    /\ s.step = "answered" /\ s.kind = "quote" =>
         /\ s.answer \in DOMAIN quote
         /\ quoteInputFingerprint(quote[s.answer].data) = s.fingerprint
    /\ s.step = "answered" /\ s.kind \in {"confirm", "open", "refetch", "command"} =>
         Existing(s.answer)
    /\ s.step = "answered" /\ s.kind = "list" =>
         s.answer \in Seq(Shown) /\ \A i \in DOMAIN s.answer : Existing(s.answer[i])

\* The quote on the screen was asked for with a draft of its fingerprint.
RightlyOffered ==
    offered # NoOffer => /\ offered.quote \in DOMAIN quote
                         /\ quoteInputFingerprint(quote[offered.quote].data)
                              = offered.fingerprint

\* Orders on the screen exist.
ScreenOK ==
    /\ RightlyOffered
    /\ \A i \in DOMAIN orders : Existing(orders[i])
    /\ selected # Nothing => Existing(selected)

\* Orders are for quotes that exist, and as they were confirmed.
OrdersOK ==
    /\ \A o \in DOMAIN order : order[o].quote \in DOMAIN quote
    /\ OrdersAreAsConfirmed

\* The inductive invariant.
ScreenInv ==
    /\ TypeOK
    /\ call \in [Call -> Serving]
    /\ \A c \in Call : GoodCall(call[c])
    /\ ScreenOK
    /\ OrdersOK

\* What ScreenInv says of all but the calls.
Rest ==
    /\ quote \in Seq(PriceQuote) /\ Len(quote) <= MaxQuotes
    /\ order \in Seq(DeliveryOrder)
    /\ Len(order) <= MaxOrders
    /\ draft \in Draft
    /\ offered = NoOffer \/ offered \in [quote: DOMAIN quote, fingerprint: Fingerprint]
    /\ orders \in Seq(Shown)
    /\ selected \in Shown \cup {Nothing}
    /\ event \subseteq DOMAIN order
    /\ connected \in BOOLEAN
    /\ ScreenOK
    /\ OrdersOK

\* Rows only ever come: a quote keeps what it was asked for.
Grows ==
    /\ DOMAIN quote \subseteq DOMAIN quote'
    /\ \A q \in DOMAIN quote : quote'[q].data = quote[q].data
    /\ DOMAIN order \subseteq DOMAIN order'

-----------------------------------------------------------------------------

LEMMA IdleIsGood == GoodCall(Idle)
BY DEF GoodCall, Idle, Serving, Kind, None

\* A call that is let alone stays as good as it was.
LEMMA StaysGood ==
    ASSUME NEW s, GoodCall(s), Grows
    PROVE  GoodCall(s)'
BY DEF GoodCall, Grows, Existing

\* One call changes, and the rows come.
LEMMA OneCall ==
    ASSUME ScreenInv, NEW c \in Call, NEW new, call' = [call EXCEPT ![c] = new],
           GoodCall(new)', Grows
    PROVE  /\ call' \in [Call -> Serving]
           /\ \A d \in Call : GoodCall(call[d])'
           /\ \A d \in Call : call'[d].step \in {"idle", "sent", "answered"}
                                /\ call'[d].kind \in Kind
<1>1. new \in Serving
  BY DEF GoodCall
<1>2. call' \in [Call -> Serving]
  BY <1>1 DEF ScreenInv
<1>3. ASSUME NEW d \in Call PROVE GoodCall(call[d])'
  <2>1. CASE d = c
    BY <2>1 DEF ScreenInv
  <2>2. CASE d # c
    <3>1. call'[d] = call[d] /\ GoodCall(call[d])
      BY <2>2 DEF ScreenInv
    <3>2. PICK s : s = call[d]
      OBVIOUS
    <3>3. GoodCall(s)'
      BY <3>1, <3>2, StaysGood
    <3> QED
      BY <3>1, <3>2, <3>3
  <2> QED
    BY <2>1, <2>2
<1> QED
  BY <1>2, <1>3 DEF Serving

LEMMA RestHolds == ScreenInv => Rest
BY DEF ScreenInv, Rest, TypeOK

\* One call changes, the rows come, and the rest is as it should be.
LEMMA CallAndRest ==
    ASSUME ScreenInv, NEW c \in Call, NEW new, call' = [call EXCEPT ![c] = new],
           GoodCall(new)', Grows, Rest'
    PROVE  ScreenInv'
<1>1. call' \in [Call -> Serving] /\ \A d \in Call : GoodCall(call[d])'
  BY OneCall
<1> QED
  BY <1>1 DEF ScreenInv, Rest, TypeOK, Serving

\* No call changes, the rows stay, and the rest is as it should be.
LEMMA RestOnly ==
    ASSUME ScreenInv, UNCHANGED <<call, quote, order>>, Rest'
    PROVE  ScreenInv'
<1>1. \A c \in Call : GoodCall(call[c])'
  BY DEF ScreenInv, GoodCall, Existing
<1>2. call' \in [Call -> Serving]
  BY DEF ScreenInv
<1> QED
  BY <1>1, <1>2 DEF ScreenInv, Rest, TypeOK, Serving

LEMMA RestStays ==
    ASSUME ScreenInv, UNCHANGED <<rows, screen, wire>>
    PROVE  Rest' /\ Grows
<1>1. UNCHANGED <<quote, order, draft, offered, orders, selected, event, connected>>
  BY DEF rows, screen, wire
<1>2. Rest
  BY RestHolds
<1>3. Grows
  BY <1>1 DEF Grows
<1>4. ScreenOK' /\ OrdersOK'
  BY <1>1, <1>2 DEF Rest, ScreenOK, OrdersOK, RightlyOffered, Existing, OrdersAreAsConfirmed
<1> QED
  BY <1>1, <1>2, <1>3, <1>4 DEF Rest

\* Rows, screen and socket stay as they are.
LEMMA CallOnly ==
    ASSUME ScreenInv, NEW c \in Call, NEW new, call' = [call EXCEPT ![c] = new],
           GoodCall(new), UNCHANGED <<rows, screen, wire>>
    PROVE  ScreenInv'
<1>1. Rest' /\ Grows
  BY RestStays
<1>2. GoodCall(new)'
  BY <1>1, StaysGood
<1> QED
  BY <1>1, <1>2, CallAndRest

\* A call that ends.
LEMMA DoneWith ==
    ASSUME ScreenInv, NEW c \in Call, Done(c), Grows, Rest'
    PROVE  ScreenInv'
<1>1. PICK new : new = Idle
  OBVIOUS
<1>2. GoodCall(new)'
  BY <1>1, IdleIsGood, StaysGood
<1>3. call' = [call EXCEPT ![c] = new]
  BY <1>1 DEF Done
<1> QED
  BY <1>2, <1>3, CallAndRest

-----------------------------------------------------------------------------
(* Calls are sent.                                                         *)

\* What a call may be sent about.
Sendable(kind, of) ==
    \/ kind = "quote" /\ of = None
    \/ /\ kind = "confirm" /\ of \in DOMAIN quote
       /\ quoteInputFingerprint(quote[of].data) = quoteInputFingerprint(draft)
    \/ kind = "list" /\ of = None
    \/ kind \in {"open", "refetch", "command"} /\ of \in DOMAIN order

LEMMA SentIsGood ==
    ASSUME ScreenInv, NEW kind, NEW of, NEW version \in Nat, Sendable(kind, of)
    PROVE  GoodCall(Sent(kind, of, version))
<1>1. draft \in Draft /\ DOMAIN quote \subseteq Nat /\ DOMAIN order \subseteq Nat
  BY DEF ScreenInv, TypeOK
<1>2. PICK f : f = quoteInputFingerprint(draft)
  OBVIOUS
<1>3. f \in Fingerprint
  BY <1>1, <1>2 DEF Fingerprint
<1>4. Sent(kind, of, version) \in Serving
  BY <1>1, <1>2, <1>3 DEF Sent, Serving, Sendable, Kind, None
<1> QED
  BY <1>1, <1>2, <1>3, <1>4 DEF GoodCall, Sent, Sendable

LEMMA SendKeeps ==
    ASSUME ScreenInv, NEW c \in Call, NEW kind, NEW of, NEW version \in Nat,
           Send(c, kind, of, version), Sendable(kind, of),
           UNCHANGED <<rows, screen, wire>>
    PROVE  ScreenInv'
<1>1. PICK new : new = Sent(kind, of, version)
  OBVIOUS
<1>2. GoodCall(new)
  BY <1>1, SentIsGood
<1>3. call' = [call EXCEPT ![c] = new]
  BY <1>1 DEF Send
<1> QED
  BY <1>2, <1>3, CallOnly

LEMMA AskQuoteKeeps == ASSUME ScreenInv, NEW c \in Call, AskQuote(c) PROVE ScreenInv'
<1>1. Send(c, "quote", None, 0) /\ UNCHANGED <<rows, screen, wire>>
  BY DEF AskQuote
<1>2. Sendable("quote", None)
  BY DEF Sendable
<1> QED
  BY <1>1, <1>2, SendKeeps

LEMMA ConfirmOrderKeeps ==
    ASSUME ScreenInv, NEW c \in Call, ConfirmOrder(c)
    PROVE  ScreenInv'
<1>1. PICK q : q = offered.quote
  OBVIOUS
<1>2. Send(c, "confirm", q, 0) /\ UNCHANGED <<rows, screen, wire>>
  BY <1>1 DEF ConfirmOrder
<1>3. /\ q \in DOMAIN quote
      /\ quoteInputFingerprint(quote[q].data) = quoteInputFingerprint(draft)
  BY <1>1 DEF ConfirmOrder, ScreenInv, ScreenOK, RightlyOffered
<1>4. Sendable("confirm", q)
  BY <1>3 DEF Sendable
<1> QED
  BY <1>2, <1>4, SendKeeps

LEMMA ReconcileKeeps ==
    ASSUME ScreenInv, NEW c \in Call, Reconcile(c)
    PROVE  ScreenInv'
<1>1. Send(c, "list", None, 0) /\ UNCHANGED <<rows, screen, wire>>
  BY DEF Reconcile
<1>2. Sendable("list", None)
  BY DEF Sendable
<1> QED
  BY <1>1, <1>2, SendKeeps

LEMMA OpenOrderKeeps ==
    ASSUME ScreenInv, NEW c \in Call, OpenOrder(c)
    PROVE  ScreenInv'
<1>1. PICK i \in DOMAIN orders : Send(c, "open", orders[i].order, 0)
  BY DEF OpenOrder
<1>2. PICK o : o = orders[i].order
  OBVIOUS
<1>3. o \in DOMAIN order
  BY <1>2 DEF ScreenInv, ScreenOK, Existing
<1>4. Send(c, "open", o, 0) /\ UNCHANGED <<rows, screen, wire>>
  BY <1>1, <1>2 DEF OpenOrder
<1>5. Sendable("open", o)
  BY <1>3 DEF Sendable
<1> QED
  BY <1>4, <1>5, SendKeeps

LEMMA CommandKeeps ==
    ASSUME ScreenInv, NEW c \in Call, Command(c)
    PROVE  ScreenInv'
<1>1. PICK o, v : o = selected.order /\ v = selected.version
  OBVIOUS
<1>2. o \in DOMAIN order /\ v \in Nat
  BY <1>1 DEF Command, ScreenInv, ScreenOK, Existing, Shown
<1>3. Send(c, "command", o, v) /\ UNCHANGED <<rows, screen, wire>>
  BY <1>1 DEF Command
<1>4. Sendable("command", o)
  BY <1>2 DEF Sendable
<1> QED
  BY <1>2, <1>3, <1>4, SendKeeps

\* The socket opens.
LEMMA ConnectKeeps ==
    ASSUME ScreenInv, NEW c \in Call, Connect(c)
    PROVE  ScreenInv'
<1>1. PICK new : new = Sent("list", None, 0)
  OBVIOUS
<1>2. call' = [call EXCEPT ![c] = new]
  BY <1>1 DEF Connect, Send
<1>3. GoodCall(new)
  BY <1>1, SentIsGood DEF Sendable
<1>4. UNCHANGED <<quote, order, draft, offered, orders, selected, event>>
      /\ connected' = TRUE
  BY DEF Connect, rows, screen
<1>5. Grows
  BY <1>4 DEF Grows
<1>6. Rest
  BY RestHolds
<1>7. ScreenOK' /\ OrdersOK'
  BY <1>4, <1>6 DEF Rest, ScreenOK, OrdersOK, RightlyOffered, Existing,
     OrdersAreAsConfirmed
<1>8. Rest'
  BY <1>4, <1>6, <1>7 DEF Rest
<1> QED
  BY <1>2, <1>3, <1>5, <1>8, StaysGood, CallAndRest

\* An event is received: two calls are sent.
LEMMA ReceiveKeeps ==
    ASSUME ScreenInv, NEW c \in Call, NEW d \in Call, Receive(c, d)
    PROVE  ScreenInv'
<1>1. PICK o \in event :
        /\ event' = event \ {o} /\ c # d
        /\ call' = [call EXCEPT ![c] = Sent("list", None, 0),
                                ![d] = Sent("refetch", o, 0)]
  BY DEF Receive
<1>2. UNCHANGED <<quote, order, draft, offered, orders, selected, connected>>
  BY DEF Receive, rows, screen
<1>3. o \in DOMAIN order
  BY DEF ScreenInv, TypeOK
<1>4. PICK list, fetch : list = Sent("list", None, 0) /\ fetch = Sent("refetch", o, 0)
  OBVIOUS
<1>5. call' = [call EXCEPT ![c] = list, ![d] = fetch]
  BY <1>1, <1>4
<1>6. GoodCall(list) /\ GoodCall(fetch)
  BY <1>3, <1>4, SentIsGood DEF Sendable
<1>7. Grows
  BY <1>2 DEF Grows
<1>8. call' \in [Call -> Serving]
  BY <1>5, <1>6 DEF ScreenInv, GoodCall
<1>9. ASSUME NEW e \in Call PROVE GoodCall(call[e])'
  <2>1. PICK s : s = call'[e]
    OBVIOUS
  <2>2. s \in {list, fetch, call[e]}
    BY <1>5, <2>1 DEF ScreenInv
  <2>3. GoodCall(s)
    BY <1>6, <2>2 DEF ScreenInv
  <2> QED
    BY <1>7, <2>1, <2>3, StaysGood
<1>10. Rest
  BY RestHolds
<1>11. ScreenOK' /\ OrdersOK'
  BY <1>2, <1>10 DEF Rest, ScreenOK, OrdersOK, RightlyOffered, Existing,
     OrdersAreAsConfirmed
<1>12. Rest'
  BY <1>1, <1>2, <1>10, <1>11 DEF Rest
<1> QED
  BY <1>8, <1>9, <1>12 DEF ScreenInv, Rest, TypeOK, Serving

-----------------------------------------------------------------------------
(* Calls are served.                                                       *)

LEMMA AnswerIs ==
    ASSUME ScreenInv, NEW c \in Call, NEW answer \in Nat \cup Shown \cup Seq(Shown),
           Answer(c, answer)
    PROVE  \E new \in Serving :
              /\ call' = [call EXCEPT ![c] = new]
              /\ new.step = "answered" /\ new.kind = call[c].kind
              /\ new.of = call[c].of /\ new.draft = call[c].draft
              /\ new.fingerprint = call[c].fingerprint
              /\ new.answer = answer
<1> DEFINE new == [call[c] EXCEPT !.step = "answered", !.answer = answer]
<1>1. call[c] \in Serving
  BY DEF ScreenInv
<1>2. call' = [call EXCEPT ![c] = new]
  BY <1>1 DEF Answer, ScreenInv, Serving
<1>3. /\ new \in Serving /\ new.step = "answered" /\ new.kind = call[c].kind
      /\ new.of = call[c].of /\ new.draft = call[c].draft /\ new.answer = answer
      /\ new.fingerprint = call[c].fingerprint
  BY <1>1 DEF Serving
<1> QED
  BY <1>2, <1>3

\* Answers that are read from the rows.
LEMMA AnswerKeeps ==
    ASSUME ScreenInv, NEW c \in Call, NEW answer, Answer(c, answer),
           UNCHANGED <<rows, screen, wire>>,
           \/ call[c].kind \in {"open", "refetch"} /\ call[c].step = "sent"
                /\ Existing(answer)
           \/ /\ call[c].kind = "list" /\ answer \in Seq(Shown)
              /\ \A i \in DOMAIN answer : Existing(answer[i])
    PROVE  ScreenInv'
<1>1. answer \in Shown \cup Seq(Shown)
  BY DEF Existing
<1>2. PICK new \in Serving :
              /\ call' = [call EXCEPT ![c] = new]
              /\ new.step = "answered" /\ new.kind = call[c].kind
              /\ new.of = call[c].of /\ new.draft = call[c].draft
              /\ new.fingerprint = call[c].fingerprint
              /\ new.answer = answer
  BY <1>1, AnswerIs
<1>3. GoodCall(call[c])
  BY DEF ScreenInv
<1>4. GoodCall(new)
  BY <1>2, <1>3 DEF GoodCall
<1> QED
  BY <1>2, <1>4, CallOnly

\* An order that exists can be shown.
LEMMA ShownExists ==
    ASSUME ScreenInv, NEW o \in DOMAIN order
    PROVE  Existing(shown(o))
<1>1. /\ order \in Seq(DeliveryOrder)
      /\ Len(order) <= MaxOrders /\ MaxOrders \in Nat
  BY BoundAssumption DEF ScreenInv, TypeOK
<1>2. order[o] \in DeliveryOrder /\ o \in 1 .. MaxOrders
  BY <1>1
<1> QED
  BY <1>2 DEF Existing, shown, Shown, DeliveryOrder

LEMMA ServeListKeeps ==
    ASSUME ScreenInv, NEW c \in Call, ServeList(c)
    PROVE  ScreenInv'
<1>1. PICK answer : answer = listed
  OBVIOUS
<1>2. order \in Seq(DeliveryOrder)
      /\ DOMAIN order = 1 .. Len(order) /\ Len(order) \in Nat
  BY DEF ScreenInv, TypeOK
<1>3. \A i \in DOMAIN order : Len(order) + 1 - i \in DOMAIN order
  BY <1>2
<1>4. \A i \in DOMAIN order : Existing(shown(Len(order) + 1 - i))
  BY <1>3, ShownExists
<1>5. DOMAIN listed = 1 .. Len(order) /\ \A i \in 1 .. Len(order) : Existing(listed[i])
  BY <1>2, <1>4 DEF listed
<1>6. answer \in Seq(Shown) /\ \A i \in DOMAIN answer : Existing(answer[i])
  <2>1. \A i \in 1 .. Len(order) : listed[i] \in Shown
    BY <1>5 DEF Existing
  <2>2. listed = [i \in 1 .. Len(order) |-> listed[i]]
    BY <1>2 DEF listed
  <2>3. listed \in Seq(Shown)
    BY <1>2, <2>1, <2>2
  <2> QED
    BY <1>1, <1>5, <2>3
<1> QED
  BY <1>1, <1>6, AnswerKeeps DEF ServeList, sent

LEMMA ServeDetailsKeeps ==
    ASSUME ScreenInv, NEW c \in Call, ServeDetails(c)
    PROVE  ScreenInv'
<1>1. PICK answer : answer = shown(call[c].of)
  OBVIOUS
<1>2. call[c].of \in DOMAIN order
  BY DEF ServeDetails, sent, ScreenInv, GoodCall
<1>3. Existing(answer)
  BY <1>1, <1>2, ShownExists
<1> QED
  BY <1>1, <1>3, AnswerKeeps DEF ServeDetails, sent

\* Quotes and orders are only added, or an order moves on.
LEMMA RowsCome ==
    ASSUME ScreenInv, Grows, UNCHANGED <<screen, connected>>,
           quote' \in Seq(PriceQuote), Len(quote') <= MaxQuotes,
           order' \in Seq(DeliveryOrder),
           Len(order') <= MaxOrders, OrdersOK', event' \subseteq DOMAIN order'
    PROVE  Rest'
<1>1. Rest /\ UNCHANGED <<draft, offered, orders, selected, connected>>
  BY RestHolds DEF screen
<1>2. ScreenOK'
  BY <1>1 DEF Rest, ScreenOK, RightlyOffered, Existing, Grows
<1>3. offered' = NoOffer \/ offered' \in [quote: DOMAIN quote', fingerprint: Fingerprint]
  BY <1>1 DEF Rest, Grows
<1> QED
  BY <1>1, <1>2, <1>3 DEF Rest

LEMMA ServeQuoteKeeps ==
    ASSUME ScreenInv, NEW c \in Call, ServeQuote(c)
    PROVE  ScreenInv'
<1> DEFINE newRow == [data |-> call[c].draft, spent |-> FALSE]
<1>1. GoodCall(call[c]) /\ call[c].kind = "quote" /\ call[c].step = "sent"
  BY DEF ServeQuote, sent, ScreenInv
<1>2. newRow \in PriceQuote /\ newRow.data = call[c].draft
  BY <1>1 DEF GoodCall, PriceQuote
<1>3. quote \in Seq(PriceQuote) /\ quote' = Append(quote, newRow)
      /\ Len(quote) < MaxQuotes /\ MaxQuotes \in Nat
  BY BoundAssumption DEF ServeQuote, ScreenInv, TypeOK
<1> HIDE DEF newRow
<1>4. /\ quote' \in Seq(PriceQuote) /\ Len(quote') = Len(quote) + 1
      /\ DOMAIN quote' = 1 .. Len(quote) + 1 /\ DOMAIN quote = 1 .. Len(quote)
      /\ quote'[Len(quote) + 1] = newRow
      /\ \A q \in DOMAIN quote : quote'[q] = quote[q]
      /\ Len(quote) \in Nat
  BY <1>2, <1>3
<1>5. UNCHANGED <<order, screen, event, connected>>
  BY DEF ServeQuote, wire
<1>6. Grows
  BY <1>4, <1>5 DEF Grows
<1>7. OrdersOK'
  BY <1>4, <1>5 DEF ScreenInv, OrdersOK, OrdersAreAsConfirmed
<1>8. Rest'
  <2>1. Rest
    BY RestHolds
  <2>2. Len(quote') <= MaxQuotes /\ event' \subseteq DOMAIN order'
    BY <1>3, <1>4, <1>5, <2>1 DEF Rest
  <2> QED
    BY <1>4, <1>5, <1>6, <1>7, <2>1, <2>2, RowsCome DEF Rest
<1>9. PICK answer : answer = Len(quote) + 1
  OBVIOUS
<1>10. answer \in Nat /\ Answer(c, answer)
  BY <1>4, <1>9 DEF ServeQuote
<1>11. PICK new \in Serving :
              /\ call' = [call EXCEPT ![c] = new]
              /\ new.step = "answered" /\ new.kind = call[c].kind
              /\ new.of = call[c].of /\ new.draft = call[c].draft
              /\ new.fingerprint = call[c].fingerprint
              /\ new.answer = answer
  BY <1>10, AnswerIs
<1>12. answer \in DOMAIN quote' 
        /\ quoteInputFingerprint(quote'[answer].data) = new.fingerprint
  BY <1>1, <1>2, <1>4, <1>9, <1>11 DEF GoodCall
<1>13. GoodCall(new)'
  BY <1>1, <1>11, <1>12 DEF GoodCall
<1> QED
  BY <1>6, <1>8, <1>11, <1>13, CallAndRest

\* An event may be published; nothing but an order it tells of is added.
LEMMA Told ==
    ASSUME NEW o, o \in DOMAIN order', event \subseteq DOMAIN order, Grows,
           \E told \in BOOLEAN : IF told THEN Publish(o) ELSE UNCHANGED event
    PROVE  event' \subseteq DOMAIN order'
<1>1. event' = event \/ event' = event \cup {o}
  BY DEF Publish
<1> QED
  BY <1>1 DEF Grows

LEMMA ServeConfirmKeeps ==
    ASSUME ScreenInv, NEW c \in Call, ServeConfirm(c)
    PROVE  ScreenInv'
<1>1. PICK q, f : q = call[c].of /\ f = call[c].fingerprint
  OBVIOUS
<1> DEFINE newRow == [quote |-> q, confirmed |-> f, version |-> 1]
<1>2. GoodCall(call[c]) /\ call[c].kind = "confirm" /\ call[c].step = "sent"
  BY DEF ServeConfirm, sent, ScreenInv
<1>3. /\ q \in DOMAIN quote /\ f \in Fingerprint
      /\ quoteInputFingerprint(quote[q].data) = f
  BY <1>1, <1>2 DEF GoodCall
<1>4. /\ quote \in Seq(PriceQuote) /\ Len(quote) <= MaxQuotes
      /\ order \in Seq(DeliveryOrder)
      /\ MaxQuotes \in Nat /\ MaxOrders \in Nat /\ MaxVersion \in Nat \ {0}
  BY BoundAssumption DEF ScreenInv, TypeOK
<1>5. newRow \in DeliveryOrder /\ newRow.quote = q
      /\ newRow.confirmed = f
  BY <1>3, <1>4 DEF Quote, DeliveryOrder
<1>6. /\ quote' = [quote EXCEPT ![q].spent = TRUE] /\ Len(order) < MaxOrders
      /\ order' = Append(order, newRow)
  BY <1>1 DEF ServeConfirm
<1> HIDE DEF newRow
<1>7. /\ quote' \in Seq(PriceQuote) /\ Len(quote') = Len(quote)
      /\ DOMAIN quote' = DOMAIN quote
      /\ \A p \in DOMAIN quote : quote'[p].data = quote[p].data
  <2>1. quote[q] \in PriceQuote
    BY <1>3, <1>4
  <2>2. [quote[q] EXCEPT !.spent = TRUE] \in PriceQuote
        /\ [quote[q] EXCEPT !.spent = TRUE].data = quote[q].data
    BY <2>1 DEF PriceQuote
  <2> QED
    BY <1>3, <1>4, <1>6, <2>2
<1>8. /\ order' \in Seq(DeliveryOrder)
      /\ Len(order') = Len(order) + 1 /\ DOMAIN order = 1 .. Len(order)
      /\ DOMAIN order' = 1 .. Len(order) + 1 /\ order'[Len(order) + 1] = newRow
      /\ \A o \in DOMAIN order : order'[o] = order[o]
      /\ Len(order) \in Nat
  BY <1>4, <1>5, <1>6
<1>9. Grows
  BY <1>7, <1>8 DEF Grows
<1>10. OrdersOK'
  <2>1. \A o \in DOMAIN order :
           /\ order[o].quote \in DOMAIN quote
           /\ quoteInputFingerprint(quote[order[o].quote].data) = order[o].confirmed
    BY DEF ScreenInv, OrdersOK, OrdersAreAsConfirmed
  <2>2. \A o \in DOMAIN order' : o \in DOMAIN order \/ o = Len(order) + 1
    BY <1>8
  <2>3. ASSUME NEW o \in DOMAIN order'
        PROVE  /\ order'[o].quote \in DOMAIN quote'
               /\ quoteInputFingerprint(quote'[order'[o].quote].data) = order'[o].confirmed
    BY <1>3, <1>5, <1>7, <1>8, <2>1, <2>2
  <2> QED
    BY <2>3 DEF OrdersOK, OrdersAreAsConfirmed
<1>11. Len(order) + 1 \in DOMAIN order' /\ Len(order) + 1 \in 1 .. MaxOrders
       /\ Len(order') <= MaxOrders
  BY <1>4, <1>6, <1>8
<1>12. event' \subseteq DOMAIN order'
  <2>1. PICK o : o = Len(order) + 1
    OBVIOUS
  <2>2. event \subseteq DOMAIN order
    BY DEF ScreenInv, TypeOK
  <2>3. \E told \in BOOLEAN : IF told THEN Publish(o) ELSE UNCHANGED event
    BY <2>1 DEF ServeConfirm
  <2> QED
    BY <1>9, <1>11, <2>1, <2>2, <2>3, Told
<1>13. Rest'
  BY <1>4, <1>7, <1>8, <1>9, <1>10, <1>11, <1>12, RowsCome DEF ServeConfirm
<1>14. PICK answer : answer = [order |-> Len(order) + 1, version |-> 1]
  OBVIOUS
<1>15. answer \in Shown /\ answer.order = Len(order) + 1
  BY <1>4, <1>11, <1>14 DEF Shown
<1>16. Answer(c, answer)
  BY <1>14 DEF ServeConfirm
<1>17. PICK new \in Serving :
              /\ call' = [call EXCEPT ![c] = new]
              /\ new.step = "answered" /\ new.kind = call[c].kind
              /\ new.of = call[c].of /\ new.draft = call[c].draft
              /\ new.fingerprint = call[c].fingerprint
              /\ new.answer = answer
  BY <1>15, <1>16, AnswerIs
<1>18. GoodCall(new)'
  <2>1. new.answer \in Shown /\ new.answer.order \in DOMAIN order'
    BY <1>11, <1>15, <1>17
  <2> QED
    BY <1>1, <1>2, <1>3, <1>7, <1>17, <2>1 DEF GoodCall, Existing
<1> QED
  BY <1>9, <1>13, <1>17, <1>18, CallAndRest

\* An order moves on.
LEMMA MovedOn ==
    ASSUME ScreenInv, NEW o \in DOMAIN order, MoveOn(o)
    PROVE  /\ Grows /\ Rest'
           /\ order[o].version + 1 \in 1 .. MaxVersion
<1>1. /\ order \in Seq(DeliveryOrder)
      /\ quote \in Seq(PriceQuote) /\ Len(quote) <= MaxQuotes
      /\ Len(order) <= MaxOrders /\ MaxVersion \in Nat /\ event \subseteq DOMAIN order
  BY BoundAssumption DEF ScreenInv, TypeOK
<1>2. order[o] \in DeliveryOrder
  BY <1>1
<1>3. order[o].version < MaxVersion /\ UNCHANGED <<quote, screen, connected>>
      /\ order' = [order EXCEPT ![o].version = @ + 1]
  BY DEF MoveOn
<1>4. order[o].version + 1 \in 1 .. MaxVersion
  BY <1>1, <1>2, <1>3 DEF DeliveryOrder
<1>5. [order[o] EXCEPT !.version = @ + 1] \in DeliveryOrder
      /\ [order[o] EXCEPT !.version = @ + 1].quote = order[o].quote
      /\ [order[o] EXCEPT !.version = @ + 1].confirmed = order[o].confirmed
  BY <1>2, <1>4 DEF DeliveryOrder
<1>6. /\ order' \in Seq(DeliveryOrder)
      /\ Len(order') = Len(order) /\ DOMAIN order' = DOMAIN order
      /\ \A p \in DOMAIN order : order'[p].quote = order[p].quote
                                  /\ order'[p].confirmed = order[p].confirmed
  BY <1>1, <1>3, <1>5
<1>7. Grows
  BY <1>3, <1>6 DEF Grows
<1>8. OrdersOK'
  BY <1>3, <1>6 DEF ScreenInv, OrdersOK, OrdersAreAsConfirmed
<1>9. event' \subseteq DOMAIN order'
  BY <1>1, <1>6, <1>7, Told DEF MoveOn
<1>10. Rest'
  BY <1>1, <1>3, <1>6, <1>7, <1>8, <1>9, RowsCome
<1> QED
  BY <1>4, <1>7, <1>10

LEMMA MoveOrderKeeps == ASSUME ScreenInv, MoveOrder PROVE ScreenInv'
<1>1. PICK o \in DOMAIN order : MoveOn(o)
  BY DEF MoveOrder
<1>2. Grows /\ Rest' /\ call' = call
  BY <1>1, MovedOn DEF MoveOrder
<1>3. ASSUME NEW c \in Call PROVE GoodCall(call[c])'
  <2>1. PICK s : s = call[c]
    OBVIOUS
  <2>2. GoodCall(s)
    BY <2>1 DEF ScreenInv
  <2> QED
    BY <1>2, <2>1, <2>2, StaysGood
<1> QED
  BY <1>2, <1>3 DEF ScreenInv, Rest, TypeOK, Serving

LEMMA ServeCommandKeeps ==
    ASSUME ScreenInv, NEW c \in Call, ServeCommand(c)
    PROVE  ScreenInv'
<1>1. PICK o : o = call[c].of
  OBVIOUS
<1>2. call[c].kind = "command" /\ call[c].step = "sent" /\ GoodCall(call[c])
  BY DEF ServeCommand, sent, ScreenInv
<1>3. o \in DOMAIN order /\ MoveOn(o)
  BY <1>1, <1>2 DEF ServeCommand, GoodCall
<1>4. Grows /\ Rest' /\ order[o].version + 1 \in 1 .. MaxVersion
  BY <1>3, MovedOn
<1>5. PICK answer : answer = [order |-> o, version |-> order[o].version + 1]
  OBVIOUS
<1>6. o \in 1 .. MaxOrders
  <2>1. order \in Seq(DeliveryOrder)
        /\ Len(order) <= MaxOrders /\ MaxOrders \in Nat
    BY BoundAssumption DEF ScreenInv, TypeOK
  <2> QED
    BY <1>3, <2>1
<1>7. answer \in Shown /\ answer.order = o
  BY <1>4, <1>5, <1>6 DEF Shown
<1>8. Answer(c, answer)
  BY <1>1, <1>5 DEF ServeCommand
<1>9. PICK new \in Serving :
              /\ call' = [call EXCEPT ![c] = new]
              /\ new.step = "answered" /\ new.kind = call[c].kind
              /\ new.of = call[c].of /\ new.draft = call[c].draft
              /\ new.fingerprint = call[c].fingerprint
              /\ new.answer = answer
  BY <1>7, <1>8, AnswerIs
<1>10. GoodCall(new)'
  BY <1>1, <1>2, <1>3, <1>4, <1>7, <1>9 DEF GoodCall, Existing, Grows
<1> QED
  BY <1>4, <1>9, <1>10, CallAndRest

-----------------------------------------------------------------------------
(* Answers are taken.                                                      *)

OfferOK ==
    \/ offered = NoOffer
    \/ /\ offered \in [quote: DOMAIN quote, fingerprint: Fingerprint]
       /\ quoteInputFingerprint(quote[offered.quote].data) = offered.fingerprint

ListOK == orders \in Seq(Shown) /\ \A i \in DOMAIN orders : Existing(orders[i])

DetailsOK == selected = Nothing \/ Existing(selected)

WireOK == event \subseteq DOMAIN order /\ connected \in BOOLEAN

LEMMA ScreenNow ==
    ASSUME ScreenInv
    PROVE  draft \in Draft /\ OfferOK /\ ListOK /\ DetailsOK /\ WireOK
<1>1. OfferOK
  BY DEF ScreenInv, TypeOK, ScreenOK, RightlyOffered, OfferOK
<1>2. ListOK
  BY DEF ScreenInv, TypeOK, ScreenOK, ListOK
<1> QED
  BY <1>1, <1>2 DEF ScreenInv, TypeOK, ScreenOK, DetailsOK, WireOK

\* The screen changes, and the rows stay.
LEMMA ScreenChanges ==
    ASSUME ScreenInv, UNCHANGED <<quote, order>>,
           UNCHANGED draft \/ draft' \in Draft, UNCHANGED offered \/ OfferOK',
           UNCHANGED orders \/ ListOK', UNCHANGED selected \/ DetailsOK',
           UNCHANGED <<event, connected>> \/ WireOK'
    PROVE  Rest' /\ Grows
<1>1. Grows
  BY DEF Grows
<1>2. Rest
  BY RestHolds
<1>3. draft' \in Draft
  BY ScreenNow
<1>4. OfferOK'
  BY ScreenNow DEF OfferOK
<1>5. ListOK'
  BY ScreenNow DEF ListOK, Existing
<1>6. DetailsOK'
  BY ScreenNow DEF DetailsOK, Existing
<1>7. WireOK'
  BY ScreenNow DEF WireOK
<1>8. OrdersOK'
  BY <1>2 DEF Rest, OrdersOK, OrdersAreAsConfirmed
<1>9. ScreenOK'
  <2>1. RightlyOffered'
    BY <1>4 DEF OfferOK, RightlyOffered
  <2>2. \A i \in DOMAIN orders' : Existing(orders[i])'
    BY <1>5 DEF ListOK
  <2> QED
    BY <1>6, <2>1, <2>2 DEF ScreenOK, DetailsOK
<1>10. /\ offered' = NoOffer \/ offered' \in [quote: DOMAIN quote', fingerprint: Fingerprint]
       /\ orders' \in Seq(Shown)
  BY <1>4, <1>5 DEF OfferOK, ListOK
<1>11. selected' \in Shown \cup {Nothing}
  BY <1>6 DEF DetailsOK, Existing
<1> QED
  BY <1>1, <1>2, <1>3, <1>7, <1>8, <1>9, <1>10, <1>11 DEF Rest, WireOK

LEMMA TakeQuoteKeeps ==
    ASSUME ScreenInv, NEW c \in Call, TakeQuote(c)
    PROVE  ScreenInv'
<1>1. GoodCall(call[c]) /\ call[c].kind = "quote" /\ call[c].step = "answered"
  BY DEF TakeQuote, answered, ScreenInv
<1>2. offered' = [quote |-> call[c].answer, fingerprint |-> call[c].fingerprint]
  BY DEF TakeQuote, inputFingerprint
<1>3. /\ call[c].answer \in DOMAIN quote
      /\ quoteInputFingerprint(quote[call[c].answer].data) = call[c].fingerprint
      /\ call[c].fingerprint \in Fingerprint
  BY <1>1 DEF GoodCall, Fingerprint
<1>4. UNCHANGED <<quote, order, draft, orders, selected, event, connected>> /\ Done(c)
  BY DEF TakeQuote, rows, wire
<1>5. OfferOK'
  BY <1>2, <1>3, <1>4 DEF OfferOK
<1>6. Rest' /\ Grows
  BY <1>4, <1>5, ScreenChanges
<1> QED
  BY <1>4, <1>6, DoneWith

LEMMA TakeConfirmKeeps ==
    ASSUME ScreenInv, NEW c \in Call, TakeConfirm(c)
    PROVE  ScreenInv'
<1>1. GoodCall(call[c]) /\ call[c].kind = "confirm" /\ call[c].step = "answered"
  BY DEF TakeConfirm, answered, ScreenInv
<1>2. PICK a : a = call[c].answer
  OBVIOUS
<1>3. Existing(a) /\ orders' = <<a>> \o orders
  BY <1>1, <1>2 DEF GoodCall, TakeConfirm
<1>4. orders \in Seq(Shown) /\ \A i \in DOMAIN orders : Existing(orders[i])
  BY ScreenNow DEF ListOK
<1>5. a \in Shown
  BY <1>3 DEF Existing
<1>6. orders' \in Seq(Shown) /\ \A i \in DOMAIN orders' : Existing(orders'[i])
  <2>1. <<a>> \in Seq(Shown)
    BY <1>5
  <2>2. orders' \in Seq(Shown)
    BY <1>3, <1>4, <2>1
  <2>3. \A i \in DOMAIN orders' : orders'[i] = a \/ \E j \in DOMAIN orders : orders'[i] = orders[j]
    BY <1>3, <1>4, <2>1
  <2> QED
    BY <1>3, <1>4, <2>2, <2>3
<1>7. UNCHANGED <<quote, order, draft, selected, event, connected>> /\ Done(c)
      /\ offered' = NoOffer
  BY DEF TakeConfirm, rows, wire
<1>8. OfferOK'
  BY <1>7 DEF OfferOK
<1>9. ListOK'
  BY <1>6, <1>7 DEF ListOK, Existing
<1>10. Rest' /\ Grows
  BY <1>7, <1>8, <1>9, ScreenChanges
<1> QED
  BY <1>7, <1>10, DoneWith

LEMMA TakeListKeeps ==
    ASSUME ScreenInv, NEW c \in Call, TakeList(c)
    PROVE  ScreenInv'
<1>1. GoodCall(call[c]) /\ call[c].kind = "list" /\ call[c].step = "answered"
  BY DEF TakeList, answered, ScreenInv
<1>2. orders' \in Seq(Shown) /\ \A i \in DOMAIN orders' : Existing(orders'[i])
  BY <1>1 DEF GoodCall, TakeList, loaded
<1>3. UNCHANGED <<quote, order, draft, offered, selected, event, connected>> /\ Done(c)
  BY DEF TakeList, rows, wire
<1>4. ListOK'
  BY <1>2, <1>3 DEF ListOK, Existing
<1>5. Rest' /\ Grows
  BY <1>3, <1>4, ScreenChanges
<1> QED
  BY <1>3, <1>5, DoneWith

LEMMA TakeDetailsKeeps ==
    ASSUME ScreenInv, NEW c \in Call, TakeOpened(c) \/ TakeRefetched(c)
    PROVE  ScreenInv'
<1>1. GoodCall(call[c]) /\ call[c].kind \in {"open", "refetch"}
      /\ call[c].step = "answered"
  BY DEF TakeOpened, TakeRefetched, answered, ScreenInv
<1>2. Existing(call[c].answer)
  BY <1>1 DEF GoodCall
<1>3. selected' = call[c].answer \/ selected' = selected
  BY DEF TakeOpened, TakeRefetched
<1>4. UNCHANGED <<quote, order, draft, offered, orders, event, connected>> /\ Done(c)
  BY DEF TakeOpened, TakeRefetched, rows, wire
<1>5. UNCHANGED selected \/ DetailsOK'
  BY <1>2, <1>3, <1>4 DEF DetailsOK, Existing
<1>6. Rest' /\ Grows
  BY <1>4, <1>5, ScreenChanges
<1> QED
  BY <1>4, <1>6, DoneWith

\* An answered command tells of an order that exists.
LEMMA CommandAnswer ==
    ASSUME ScreenInv, NEW c \in Call, answered(c, "command")
    PROVE  Existing(call[c].answer) /\ call[c].of \in DOMAIN order
BY DEF answered, ScreenInv, GoodCall

LEMMA TakeCommandKeeps ==
    ASSUME ScreenInv, NEW c \in Call, TakeCommand(c)
    PROVE  ScreenInv'
<1>1. Existing(call[c].answer) /\ selected' = call[c].answer
  BY CommandAnswer DEF TakeCommand
<1>2. orders \in Seq(Shown) /\ \A i \in DOMAIN orders : Existing(orders[i])
  BY ScreenNow DEF ListOK
<1>3. orders' = [i \in DOMAIN orders |-> IF orders[i].order = call[c].of
                                         THEN call[c].answer ELSE orders[i]]
  BY DEF TakeCommand
<1>4. \A i \in DOMAIN orders : Existing(orders'[i])
  BY <1>1, <1>2, <1>3
<1>5. \A i \in DOMAIN orders : orders'[i] \in Shown
  BY <1>4 DEF Existing
<1>6. orders' \in Seq(Shown) /\ DOMAIN orders' = DOMAIN orders
  <2>1. DOMAIN orders = 1 .. Len(orders) /\ Len(orders) \in Nat
    BY <1>2
  <2>2. orders' \in [1 .. Len(orders) -> Shown]
    BY <1>3, <1>5, <2>1
  <2> QED
    BY <2>1, <2>2
<1>7. UNCHANGED <<quote, order, draft, offered, event, connected>> /\ Done(c)
  BY DEF TakeCommand, rows, wire
<1>8. ListOK' /\ DetailsOK'
  BY <1>1, <1>4, <1>6, <1>7 DEF ListOK, DetailsOK, Existing
<1>9. Rest' /\ Grows
  BY <1>7, <1>8, ScreenChanges
<1> QED
  BY <1>7, <1>9, DoneWith

LEMMA TakeReturnKeeps ==
    ASSUME ScreenInv, NEW c \in Call, TakeReturn(c)
    PROVE  ScreenInv'
<1>1. Existing(call[c].answer) /\ selected' = call[c].answer
  BY CommandAnswer DEF TakeReturn
<1>2. UNCHANGED <<quote, order, draft, offered, orders, event, connected>>
  BY DEF TakeReturn, rows, wire
<1>3. DetailsOK'
  BY <1>1, <1>2 DEF DetailsOK, Existing
<1>4. Rest' /\ Grows
  BY <1>2, <1>3, ScreenChanges
<1>5. PICK new : new = Sent("list", None, 0)
  OBVIOUS
<1>6. GoodCall(new) /\ call' = [call EXCEPT ![c] = new]
  BY <1>5, SentIsGood DEF Sendable, TakeReturn
<1> QED
  BY <1>4, <1>6, StaysGood, CallAndRest

LEMMA TakeDisputeKeeps ==
    ASSUME ScreenInv, NEW c \in Call, TakeDispute(c)
    PROVE  ScreenInv'
<1>1. PICK o : o = call[c].of
  OBVIOUS
<1>2. o \in DOMAIN order
  BY <1>1, CommandAnswer DEF TakeDispute
<1>3. PICK new : new = Sent("open", o, 0)
  OBVIOUS
<1>4. GoodCall(new) /\ call' = [call EXCEPT ![c] = new]
      /\ UNCHANGED <<rows, screen, wire>>
  BY <1>1, <1>2, <1>3, SentIsGood DEF Sendable, TakeDispute
<1> QED
  BY <1>4, CallOnly

LEMMA FailKeeps == ASSUME ScreenInv, NEW c \in Call, Fail(c) PROVE ScreenInv'
<1>1. Done(c) /\ UNCHANGED <<rows, screen, wire>>
  BY DEF Fail
<1> QED
  BY <1>1, RestStays, DoneWith

-----------------------------------------------------------------------------
(* Steps without a call.                                                   *)

LEMMA FormKeeps ==
    ASSUME ScreenInv, Edit \/ InvalidateQuote \/ CloseOrder
    PROVE  ScreenInv'
<1>1. UNCHANGED <<call, quote, order, orders, event, connected>>
      /\ (UNCHANGED draft \/ draft' \in Draft)
      /\ (UNCHANGED offered \/ offered' = NoOffer)
      /\ (UNCHANGED selected \/ selected' = Nothing)
  BY DEF Edit, InvalidateQuote, CloseOrder, rows, wire
<1>2. (UNCHANGED offered \/ OfferOK') /\ (UNCHANGED selected \/ DetailsOK')
  BY <1>1 DEF OfferOK, DetailsOK
<1>3. Rest'
  BY <1>1, <1>2, ScreenChanges
<1> QED
  BY <1>1, <1>3, RestOnly

LEMMA WireKeeps ==
    ASSUME ScreenInv, PublishEarly \/ Disconnect
    PROVE  ScreenInv'
<1>1. UNCHANGED <<call, quote, order, draft, offered, orders, selected>>
  BY DEF PublishEarly, Disconnect, rows, screen
<1>2. WireOK'
  BY <1>1, ScreenNow DEF PublishEarly, Disconnect, Publish, WireOK
<1>3. Rest'
  BY <1>1, <1>2, ScreenChanges
<1> QED
  BY <1>1, <1>3, RestOnly

LEMMA ScreenInit == Init => ScreenInv
<1> SUFFICES ASSUME Init PROVE ScreenInv
  OBVIOUS
<1>1. /\ quote = <<>> /\ order = <<>> /\ offered = NoOffer /\ orders = <<>>
      /\ selected = Nothing /\ call = [c \in Call |-> Idle] /\ event = {}
      /\ connected = FALSE /\ draft = CHOOSE d \in Draft : TRUE
  BY DEF Init
<1>2. draft \in Draft
  BY <1>1, DraftAssumption
<1>3. GoodCall(Idle) /\ Idle \in Serving
  BY IdleIsGood DEF GoodCall
<1>4. /\ quote \in Seq(PriceQuote) /\ Len(quote) <= MaxQuotes /\ DOMAIN quote = {}
      /\ order \in Seq(DeliveryOrder) /\ Len(order) <= MaxOrders /\ DOMAIN order = {}
      /\ orders \in Seq(Shown) /\ DOMAIN orders = {}
  BY <1>1, BoundAssumption
<1>5. ScreenOK /\ OrdersOK
  BY <1>1, <1>4 DEF ScreenOK, RightlyOffered, OrdersOK, OrdersAreAsConfirmed
<1>6. Rest
  BY <1>1, <1>2, <1>4, <1>5 DEF Rest
<1> QED
  BY <1>1, <1>3, <1>6 DEF ScreenInv, Rest, TypeOK, Serving

LEMMA ScreenStep == ScreenInv /\ [Next]_vars => ScreenInv'
<1> SUFFICES ASSUME ScreenInv, [Next]_vars PROVE ScreenInv'
  OBVIOUS
<1>1. ASSUME NEW c \in Call,
             \/ AskQuote(c) \/ ConfirmOrder(c) \/ Reconcile(c) \/ OpenOrder(c)
             \/ Command(c) \/ Connect(c) \/ \E d \in Call : Receive(c, d)
      PROVE  ScreenInv'
  BY <1>1, AskQuoteKeeps, ConfirmOrderKeeps, ReconcileKeeps, OpenOrderKeeps,
     CommandKeeps, ConnectKeeps, ReceiveKeeps
<1>2. ASSUME NEW c \in Call,
             \/ ServeQuote(c) \/ ServeConfirm(c) \/ ServeList(c) \/ ServeDetails(c)
             \/ ServeCommand(c)
      PROVE  ScreenInv'
  BY <1>2, ServeQuoteKeeps, ServeConfirmKeeps, ServeListKeeps, ServeDetailsKeeps,
     ServeCommandKeeps
<1>3. ASSUME NEW c \in Call,
             \/ TakeQuote(c) \/ TakeConfirm(c) \/ TakeList(c) \/ TakeOpened(c)
             \/ TakeRefetched(c) \/ TakeCommand(c) \/ TakeReturn(c) \/ TakeDispute(c)
             \/ Fail(c)
      PROVE  ScreenInv'
  BY <1>3, TakeQuoteKeeps, TakeConfirmKeeps, TakeListKeeps, TakeDetailsKeeps,
     TakeCommandKeeps, TakeReturnKeeps, TakeDisputeKeeps, FailKeeps
<1>4. Edit \/ InvalidateQuote \/ CloseOrder => ScreenInv'
  BY FormKeeps
<1>5. PublishEarly \/ Disconnect => ScreenInv'
  BY WireKeeps
<1>6. MoveOrder => ScreenInv'
  BY MoveOrderKeeps
<1>7. CASE UNCHANGED vars
  <2>1. UNCHANGED <<rows, screen, wire, call>>
    BY <1>7 DEF vars
  <2>2. UNCHANGED <<quote, order>>
    BY <2>1 DEF rows
  <2> QED
    BY <2>1, <2>2, RestStays, RestOnly
<1> QED
  BY <1>1, <1>2, <1>3, <1>4, <1>5, <1>6, <1>7 DEF Next

LEMMA ScreenAlways == Spec => []ScreenInv
BY ScreenInit, ScreenStep, PTL DEF Spec

\* Rows, the screen, the socket and every call are well typed (merchant-app.tsx,
\* new-order.tsx), whatever is lost, late or answered out of order.
THEOREM TypeCorrect == Spec => []TypeOK
<1>1. ScreenInv => TypeOK
  BY DEF ScreenInv
<1> QED
  BY <1>1, ScreenAlways, PTL

\* An order's place, customer, store and parcel are those of the form when its
\* merchant confirmed it, although the form is edited while quotes are priced and
\* come in any order (quote-input.ts quoteInputFingerprint); what the fingerprint
\* does not cover may differ.
THEOREM OrdersAreAsConfirmedHolds == Spec => []OrdersAreAsConfirmed
<1>1. ScreenInv => OrdersAreAsConfirmed
  BY DEF ScreenInv, OrdersOK
<1> QED
  BY <1>1, ScreenAlways, PTL

-----------------------------------------------------------------------------
(* The courier's app.                                                      *)

\* What the buttons of a card send.
Path == {""} \cup {x.action : x \in App!lifecycle}

Served == [step: {"idle", "sent", "answered"},
           kind: {"load", "accept", "transition", "cancel"}, target: App!Tab,
           card: SUBSET App!Card, path: Path, answer: SUBSET App!Card]

\* The buttons of a card are the commands that the API takes of a row like its.
LEMMA ButtonsAreCommands ==
    ASSUME NEW k, k.row.status \in App!OrderStatus
    PROVE  App!paths(k) = {x.action : x \in {y \in App!lifecycle : k.row.status \in y.from}}
<1> DEFINE s == k.row.status
<1>1. DOMAIN App!nextAction =
        {"COURIER_ASSIGNED", "COURIER_ARRIVING_PICKUP", "AT_PICKUP", "PICKED_UP",
         "IN_TRANSIT", "AT_DROPOFF", "DELIVERY_FAILED", "RETURNING_TO_STORE"}
  BY DEF App!nextAction
<1>2. \A p : p \in App!paths(k) <=>
        \/ s \in DOMAIN App!nextAction /\ p = App!nextAction[s]
        \/ s \in {"PICKED_UP", "IN_TRANSIT", "AT_DROPOFF"} /\ p = "delivery-failed"
  BY DEF App!paths
<1>3. \A p : p \in {x.action : x \in {y \in App!lifecycle : s \in y.from}} <=>
        \E x \in App!lifecycle : s \in x.from /\ p = x.action
  OBVIOUS
<1>4. ASSUME NEW p
      PROVE  (\E x \in App!lifecycle : s \in x.from /\ p = x.action) <=>
               \/ s = "COURIER_ASSIGNED" /\ p = "arriving-pickup"
               \/ s = "COURIER_ARRIVING_PICKUP" /\ p = "arrived-pickup"
               \/ s = "AT_PICKUP" /\ p = "picked-up"
               \/ s = "PICKED_UP" /\ p = "in-transit"
               \/ s = "IN_TRANSIT" /\ p = "arrived-dropoff"
               \/ s = "AT_DROPOFF" /\ p = "delivered"
               \/ s \in {"PICKED_UP", "IN_TRANSIT", "AT_DROPOFF"} /\ p = "delivery-failed"
               \/ s = "DELIVERY_FAILED" /\ p = "returning-to-store"
               \/ s = "RETURNING_TO_STORE" /\ p = "returned"
  BY DEF App!lifecycle
<1>5. ASSUME NEW p
      PROVE  (s \in DOMAIN App!nextAction /\ p = App!nextAction[s]) <=>
               \/ s = "COURIER_ASSIGNED" /\ p = "arriving-pickup"
               \/ s = "COURIER_ARRIVING_PICKUP" /\ p = "arrived-pickup"
               \/ s = "AT_PICKUP" /\ p = "picked-up"
               \/ s = "PICKED_UP" /\ p = "in-transit"
               \/ s = "IN_TRANSIT" /\ p = "arrived-dropoff"
               \/ s = "AT_DROPOFF" /\ p = "delivered"
               \/ s = "DELIVERY_FAILED" /\ p = "returning-to-store"
               \/ s = "RETURNING_TO_STORE" /\ p = "returned"
  BY <1>1 DEF App!nextAction
<1> QED
  <2> HIDE DEF s
  <2>1. \A p : p \in App!paths(k) <=>
               p \in {x.action : x \in {y \in App!lifecycle : s \in y.from}}
    BY <1>2, <1>3, <1>4, <1>5, Zenon
  <2> QED
    BY <2>1 DEF s

\* An order a courier must move on is his current one.
LEMMA CommandsAreCurrent ==
    ASSUME NEW s \in App!OrderStatus, NEW x \in App!lifecycle, s \in x.from
    PROVE  s \in App!activeCourierStatuses
BY DEF App!lifecycle, App!activeCourierStatuses

\* Every command has a path of its own kind, and none frees an order.
LEMMA CommandsTyped ==
    ASSUME NEW x \in App!lifecycle
    PROVE  x.action \in Path /\ x.to \in App!OrderStatus \ App!unassignedStatuses
<1>1. x.action \in Path
  BY DEF Path
<1> QED
  BY <1>1 DEF App!lifecycle, App!OrderStatus, App!unassignedStatuses

\* What nothing but a load or a press may be.
LEMMA AppIdle == App!Idle \in Served
BY DEF App!Idle, Served, App!Tab, Path

\* What TypeOK says of the rows.
RowsTyped ==
    /\ row \in [Order -> App!Row] /\ updates \in Nat
    /\ \A o \in Order : row[o].mine => row[o].status \notin App!unassignedStatuses

ScreenTyped ==
    /\ tab \in App!Tab /\ busy \in BOOLEAN
    /\ tabs \in [App!Tab -> SUBSET App!Card]

CallsTyped == appCall \in [AppCall -> Served]

\* The inductive invariant.
AppTyped == RowsTyped /\ ScreenTyped /\ CallsTyped

LEMMA TypedSays == AppTyped => App!TypeOK
BY DEF AppTyped, RowsTyped, ScreenTyped, CallsTyped, Served, App!TypeOK

\* One call changes.
LEMMA OneAppCall ==
    ASSUME AppTyped, NEW c \in AppCall, NEW new \in Served,
           appCall' = [appCall EXCEPT ![c] = new]
    PROVE  CallsTyped'
BY DEF AppTyped, CallsTyped

\* A call is sent.
LEMMA SentTyped ==
    ASSUME NEW kind \in {"load", "accept", "transition", "cancel"},
           NEW target \in App!Tab, NEW cards \in SUBSET App!Card, NEW path \in Path
    PROVE  App!Sent(kind, target, cards, path) \in Served
BY DEF App!Sent, Served

LEMMA AnswerTyped ==
    ASSUME AppTyped, NEW c \in AppCall, NEW answer \in SUBSET App!Card,
           App!Answer(c, answer)
    PROVE  CallsTyped'
<1> DEFINE new == [appCall[c] EXCEPT !.step = "answered", !.answer = answer]
<1>1. appCall[c] \in Served
  BY DEF AppTyped, CallsTyped
<1>2. appCall' = [appCall EXCEPT ![c] = new]
  BY <1>1 DEF App!Answer, AppTyped, CallsTyped, Served
<1>3. new \in Served
  BY <1>1 DEF Served
<1> HIDE DEF new
<1> QED
  BY <1>2, <1>3, OneAppCall

LEMMA ThenLoadTyped ==
    ASSUME AppTyped, NEW c \in AppCall, NEW target \in App!Tab, App!ThenLoad(c, target)
    PROVE  CallsTyped'
<1>1. PICK new : new = App!Sent("load", target, {}, "")
  OBVIOUS
<1>2. new \in Served
  BY <1>1, SentTyped DEF Path
<1> QED
  BY <1>1, <1>2, OneAppCall DEF App!ThenLoad

LEMMA DoneTyped ==
    ASSUME AppTyped, NEW c \in AppCall, App!Done(c)
    PROVE  CallsTyped'
BY AppIdle, OneAppCall DEF App!Done

\* A row is put.
LEMMA PutTyped ==
    ASSUME App!Assumptions, AppTyped, NEW o \in Order, NEW changed \in App!Row,
           App!Put(o, changed),
           changed.mine => changed.status \notin App!unassignedStatuses
    PROVE  RowsTyped'
<1> DEFINE new == [changed EXCEPT !.version = row[o].version + 1,
                                  !.updatedAt = updates + 1]
<1>1. /\ row \in [Order -> App!Row] /\ updates \in Nat /\ row[o].version < MaxVersion
      /\ row' = [row EXCEPT ![o] = new] /\ updates' = updates + 1
      /\ MaxVersion \in Nat \ {0}
  BY DEF AppTyped, RowsTyped, App!Put, App!Assumptions
<1>2. row[o] \in App!Row
  BY <1>1
<1>3. row[o].version + 1 \in 1 .. MaxVersion
  BY <1>1, <1>2 DEF App!Row
<1>4. new \in App!Row /\ new.mine = changed.mine /\ new.status = changed.status
  <2>1. PICK v, u : v = row[o].version + 1 /\ u = updates + 1
    OBVIOUS
  <2>2. v \in 1 .. MaxVersion /\ u \in Nat
    BY <1>1, <1>3, <2>1
  <2>3. /\ [changed EXCEPT !.version = v, !.updatedAt = u] \in App!Row
        /\ [changed EXCEPT !.version = v, !.updatedAt = u].mine = changed.mine
        /\ [changed EXCEPT !.version = v, !.updatedAt = u].status = changed.status
    BY <2>2 DEF App!Row
  <2> QED
    BY <2>1, <2>3
<1> HIDE DEF new
<1>5. row' \in [Order -> App!Row] /\ updates' \in Nat
  BY <1>1, <1>4
<1>6. \A p \in Order : row'[p].mine => row'[p].status \notin App!unassignedStatuses
  BY <1>1, <1>4 DEF AppTyped, RowsTyped
<1> QED
  BY <1>5, <1>6 DEF RowsTyped

-----------------------------------------------------------------------------

LEMMA CardTyped ==
    ASSUME AppTyped, NEW o \in Order
    PROVE  App!card(o) \in App!Card
BY DEF AppTyped, RowsTyped, App!card, App!Card

LEMMA ContentTyped ==
    ASSUME AppTyped, NEW t \in App!Tab
    PROVE  App!content[t] \in SUBSET App!Card
<1>1. /\ App!available \subseteq Order /\ App!latest \subseteq Order
      /\ App!past \subseteq Order
  BY DEF App!available, App!latest, App!active, App!past
<1>2. /\ {App!card(o) : o \in App!available} \subseteq App!Card
      /\ {App!card(o) : o \in App!latest} \subseteq App!Card
      /\ {App!card(o) : o \in App!past} \subseteq App!Card
  BY <1>1, CardTyped
<1> QED
  BY <1>2 DEF App!content, App!Tab

\* The tabs, the timer, events: a load is sent, served and taken.
LEMMA LoadsKeep ==
    ASSUME AppTyped, NEW c \in AppCall,
           \/ App!Reload(c) \/ App!MarketplaceChanges(c)
           \/ \E t \in App!Tab : App!SwitchTab(c, t)
    PROVE  AppTyped'
<1>1. \E t \in App!Tab : App!Send(c, "load", t, {}, "") /\ tab' \in {tab, t}
  BY DEF AppTyped, ScreenTyped, App!Reload, App!MarketplaceChanges, App!SwitchTab,
     App!Tab, App!screen
<1>2. PICK t \in App!Tab : App!Send(c, "load", t, {}, "") /\ tab' \in {tab, t}
  BY <1>1
<1>3. PICK new : new = App!Sent("load", t, {}, "")
  OBVIOUS
<1>4. new \in Served
  BY <1>3, SentTyped DEF Path
<1>5. CallsTyped'
  BY <1>2, <1>3, <1>4, OneAppCall DEF App!Send
<1>6. UNCHANGED <<row, updates, tabs, busy>>
  BY DEF App!Reload, App!MarketplaceChanges, App!SwitchTab, App!rows, App!screen
<1> QED
  BY <1>2, <1>5, <1>6 DEF AppTyped, RowsTyped, ScreenTyped

LEMMA ServeLoadKeeps ==
    ASSUME AppTyped, NEW c \in AppCall, App!ServeLoad(c)
    PROVE  AppTyped'
<1>1. PICK answer : answer = App!content[appCall[c].target]
  OBVIOUS
<1>2. appCall[c].target \in App!Tab
  BY DEF AppTyped, CallsTyped, Served
<1>3. answer \in SUBSET App!Card
  BY <1>1, <1>2, ContentTyped
<1>4. App!Answer(c, answer) /\ UNCHANGED <<row, updates, tab, tabs, busy>>
  BY <1>1 DEF App!ServeLoad, App!rows, App!screen
<1>5. CallsTyped'
  BY <1>3, <1>4, AnswerTyped
<1> QED
  BY <1>4, <1>5 DEF AppTyped, RowsTyped, ScreenTyped

LEMMA TakeLoadKeeps ==
    ASSUME AppTyped, NEW c \in AppCall, App!TakeLoad(c)
    PROVE  AppTyped'
<1>1. appCall[c] \in Served
  BY DEF AppTyped, CallsTyped
<1>2. tabs' = [tabs EXCEPT ![appCall[c].target] = appCall[c].answer]
  BY DEF App!TakeLoad
<1>3. tabs' \in [App!Tab -> SUBSET App!Card]
  BY <1>1, <1>2 DEF AppTyped, ScreenTyped, Served
<1>4. CallsTyped' /\ busy' = FALSE /\ UNCHANGED <<row, updates, tab>>
  BY DoneTyped DEF App!TakeLoad, App!rows
<1> QED
  BY <1>3, <1>4 DEF AppTyped, RowsTyped, ScreenTyped

LEMMA DropExpiredKeeps == ASSUME AppTyped, App!DropExpired PROVE AppTyped'
<1>1. PICK k \in tabs["available"] :
        tabs' = [tabs EXCEPT !["available"] = @ \ {k}]
  BY DEF App!DropExpired
<1>2. tabs' \in [App!Tab -> SUBSET App!Card]
  BY <1>1 DEF AppTyped, ScreenTyped, App!Tab
<1>3. UNCHANGED <<row, updates, tab, busy, appCall>>
  BY DEF App!DropExpired, App!rows
<1> QED
  BY <1>2, <1>3 DEF AppTyped, RowsTyped, ScreenTyped, CallsTyped

-----------------------------------------------------------------------------
(* The buttons.                                                            *)

LEMMA PressTyped ==
    ASSUME AppTyped, NEW c \in AppCall, NEW kind \in {"accept", "transition", "cancel"},
           NEW k \in App!Card, NEW path \in Path, App!Press(c, kind, k, path)
    PROVE  AppTyped'
<1>1. PICK new : new = App!Sent(kind, "current", {k}, path)
  OBVIOUS
<1>2. new \in Served
  BY <1>1, SentTyped DEF App!Tab
<1>3. CallsTyped'
  BY <1>1, <1>2, OneAppCall DEF App!Press, App!Send
<1>4. UNCHANGED <<row, updates, tab, tabs>> /\ busy' = TRUE
  BY DEF App!Press, App!rows
<1> QED
  BY <1>3, <1>4 DEF AppTyped, RowsTyped, ScreenTyped

LEMMA PressesKeep ==
    ASSUME AppTyped, NEW c \in AppCall,
           App!Accept(c) \/ App!Transition(c) \/ App!CancelBeforePickup(c)
    PROVE  AppTyped'
<1>1. tabs["available"] \subseteq App!Card /\ tabs["current"] \subseteq App!Card
  BY DEF AppTyped, ScreenTyped, App!Tab
<1>2. CASE App!Accept(c)
  BY <1>1, <1>2, PressTyped DEF App!Accept, Path
<1>3. CASE App!CancelBeforePickup(c)
  BY <1>1, <1>3, PressTyped DEF App!CancelBeforePickup, Path
<1>4. CASE App!Transition(c)
  <2>1. PICK k \in tabs["current"] : \E p \in App!paths(k) :
                                       App!Press(c, "transition", k, p)
    BY <1>4 DEF App!Transition
  <2>2. PICK p \in App!paths(k) : App!Press(c, "transition", k, p)
    BY <2>1
  <2>3. k \in App!Card /\ k.row.status \in App!OrderStatus
    BY <1>1, <2>1 DEF App!Card, App!Row
  <2>4. p \in Path
    <3>1. p \in {x.action : x \in {y \in App!lifecycle : k.row.status \in y.from}}
      BY <2>2, <2>3, ButtonsAreCommands
    <3>2. \E x \in App!lifecycle : p = x.action
      BY <3>1
    <3> QED
      BY <3>2 DEF Path
  <2> QED
    BY <2>2, <2>3, <2>4, PressTyped
<1> QED
  BY <1>2, <1>3, <1>4

\* A command writes one row, and is answered.
LEMMA CommandTyped ==
    ASSUME App!Assumptions, AppTyped, NEW c \in AppCall, NEW o \in Order,
           NEW changed \in App!Row, App!Put(o, changed),
           changed.mine => changed.status \notin App!unassignedStatuses,
           App!Answer(c, {}), UNCHANGED App!screen
    PROVE  AppTyped'
<1>1. RowsTyped'
  BY PutTyped
<1>2. CallsTyped'
  <2>1. {} \in SUBSET App!Card
    OBVIOUS
  <2> QED
    BY <2>1, AnswerTyped
<1>3. UNCHANGED <<tab, tabs, busy>>
  BY DEF App!screen
<1> QED
  BY <1>1, <1>2, <1>3 DEF AppTyped, ScreenTyped

\* The cards of a call are cards.
LEMMA CallsCard ==
    ASSUME AppTyped, NEW c \in AppCall, NEW k \in appCall[c].card
    PROVE  k.order \in Order /\ row[k.order] \in App!Row
<1>1. appCall[c] \in Served
  BY DEF AppTyped, CallsTyped
<1>2. k \in App!Card
  BY <1>1 DEF Served
<1> QED
  BY <1>2 DEF AppTyped, RowsTyped, App!Card

LEMMA ServeAcceptKeeps ==
    ASSUME App!Assumptions, AppTyped, NEW c \in AppCall, App!ServeAccept(c)
    PROVE  AppTyped'
<1>1. PICK k \in appCall[c].card :
        App!Put(k.order, [row[k.order] EXCEPT !.status = "COURIER_ASSIGNED",
                                              !.mine = TRUE])
  BY DEF App!ServeAccept
<1>2. PICK o, changed : o = k.order /\ changed = [row[o] EXCEPT
                            !.status = "COURIER_ASSIGNED", !.mine = TRUE]
  OBVIOUS
<1>3. o \in Order /\ row[o] \in App!Row
  BY <1>2, CallsCard
<1>4. changed \in App!Row /\ changed.status = "COURIER_ASSIGNED"
  BY <1>2, <1>3 DEF App!Row, App!OrderStatus
<1>5. App!Put(o, changed)
  BY <1>1, <1>2
<1>6. changed.mine => changed.status \notin App!unassignedStatuses
  BY <1>4 DEF App!unassignedStatuses
<1> QED
  BY <1>3, <1>4, <1>5, <1>6, CommandTyped DEF App!ServeAccept

LEMMA ServeTransitionKeeps ==
    ASSUME App!Assumptions, AppTyped, NEW c \in AppCall, App!ServeTransition(c)
    PROVE  AppTyped'
<1>1. PICK k \in appCall[c].card, x \in App!lifecycle :
        App!Put(k.order, [row[k.order] EXCEPT !.status = x.to])
  BY DEF App!ServeTransition
<1>2. PICK o, changed : o = k.order /\ changed = [row[o] EXCEPT !.status = x.to]
  OBVIOUS
<1>3. o \in Order /\ row[o] \in App!Row
  BY <1>2, CallsCard
<1>4. x.to \in App!OrderStatus /\ x.to \notin App!unassignedStatuses
  BY CommandsTyped
<1>5. changed \in App!Row /\ changed.status = x.to
  BY <1>2, <1>3, <1>4 DEF App!Row
<1>6. App!Put(o, changed)
  BY <1>1, <1>2
<1> QED
  BY <1>3, <1>4, <1>5, <1>6, CommandTyped DEF App!ServeTransition

LEMMA ServeCancelKeeps ==
    ASSUME App!Assumptions, AppTyped, NEW c \in AppCall, App!ServeCancel(c)
    PROVE  AppTyped'
<1>1. PICK k \in appCall[c].card : App!Put(k.order, App!published(row[k.order]))
  BY DEF App!ServeCancel
<1>2. PICK o, changed : o = k.order /\ changed = App!published(row[o])
  OBVIOUS
<1>3. o \in Order /\ row[o] \in App!Row
  BY <1>2, CallsCard
<1>4. changed \in App!Row /\ changed.mine = FALSE
  BY <1>2, <1>3 DEF App!Row, App!OrderStatus, App!published
<1>5. App!Put(o, changed)
  BY <1>1, <1>2
<1> QED
  BY <1>3, <1>4, <1>5, CommandTyped DEF App!ServeCancel

LEMMA TakesKeep ==
    ASSUME AppTyped, NEW c \in AppCall,
           \/ App!TakeAccepted(c) \/ App!TakeMoved(c) \/ App!TakeCancelled(c)
           \/ App!AcceptFails(c) \/ App!Fail(c)
    PROVE  AppTyped'
<1>1. UNCHANGED <<row, updates>>
  BY DEF App!TakeAccepted, App!TakeMoved, App!TakeCancelled, App!AcceptFails,
     App!Fail, App!rows
<1>2. CallsTyped'
  <2>1. "current" \in App!Tab /\ "available" \in App!Tab
    BY DEF App!Tab
  <2> QED
    BY <2>1, ThenLoadTyped, DoneTyped DEF App!TakeAccepted, App!TakeMoved,
       App!TakeCancelled, App!AcceptFails, App!Fail
<1>3. tab' \in {tab, "current", "available"} /\ busy' \in {busy, FALSE}
      /\ (tabs' = tabs \/ tabs' = [tabs EXCEPT !["current"] = {}])
  BY DEF App!TakeAccepted, App!TakeMoved, App!TakeCancelled, App!AcceptFails,
     App!Fail, App!screen
<1>4. ScreenTyped'
  BY <1>3 DEF AppTyped, ScreenTyped, App!Tab
<1> QED
  BY <1>1, <1>2, <1>4 DEF AppTyped, RowsTyped

-----------------------------------------------------------------------------
(* The rest of the world.                                                  *)

\* Others leave an order with its courier only in a status that has one.
LEMMA ElsewhereTyped ==
    ASSUME NEW r \in App!Row, NEW s \in App!elsewhere(r)
    PROVE  /\ s \in App!OrderStatus
           /\ r.mine => s = "CANCELLED" \/ s \notin App!unassignedStatuses
<1>1. CASE r.mine
  <2>1. \/ s = App!cancellationTarget(r.status) /\ s # "REFUSED"
        \/ s \in {"DELIVERY_DISPUTED", "COMPLETED"}
        \/ \E x \in App!resolutions : s = x.target
    BY <1>1 DEF App!elsewhere
  <2>2. App!cancellationTarget(r.status) \in {"CANCELLED", "RETURNING_TO_STORE", "REFUSED"}
    BY DEF App!cancellationTarget
  <2>3. \A x \in App!resolutions :
           x.target \in {"COMPLETED", "DELIVERY_FAILED", "RETURNING_TO_STORE"}
    BY DEF App!resolutions
  <2> QED
    BY <2>1, <2>2, <2>3 DEF App!OrderStatus, App!unassignedStatuses
<1>2. CASE ~r.mine
  <2>1. r.status \in App!OrderStatus
    BY DEF App!Row
  <2>2. s \in App!allOrderTransitions[r.status] \/ s = "SEARCHING_COURIER"
    BY <1>2 DEF App!elsewhere
  <2>3. App!allOrderTransitions[r.status] \subseteq App!OrderStatus
    BY <2>1 DEF App!allOrderTransitions, App!OrderStatus
  <2> QED
    BY <1>2, <2>2, <2>3 DEF App!OrderStatus
<1> QED
  BY <1>1, <1>2

LEMMA MoveOrderTyped == ASSUME App!Assumptions, AppTyped, App!MoveOrder PROVE AppTyped'
<1>0. PICK o \in Order : \E s \in App!elsewhere(row[o]) :
          App!Put(o, [row[o] EXCEPT
                        !.status = s,
                        !.mine = row[o].mine /\ s # "CANCELLED",
                        !.ended = FALSE,
                        !.dispute = IF s = "DELIVERY_DISPUTED" THEN "OPEN" ELSE "NONE"])
  BY DEF App!MoveOrder
<1>1. PICK s \in App!elsewhere(row[o]) :
          App!Put(o, [row[o] EXCEPT
                        !.status = s,
                        !.mine = row[o].mine /\ s # "CANCELLED",
                        !.ended = FALSE,
                        !.dispute = IF s = "DELIVERY_DISPUTED" THEN "OPEN" ELSE "NONE"])
  BY <1>0
<1>2. row[o] \in App!Row
  BY DEF AppTyped, RowsTyped
<1>3. PICK mine \in BOOLEAN, dispute \in {"NONE", "OPEN"} :
         /\ mine = (row[o].mine /\ s # "CANCELLED")
         /\ dispute = IF s = "DELIVERY_DISPUTED" THEN "OPEN" ELSE "NONE"
  BY <1>2
<1>4. PICK changed : changed = [row[o] EXCEPT !.status = s, !.mine = mine,
                                              !.ended = FALSE, !.dispute = dispute]
  OBVIOUS
<1>5. s \in App!OrderStatus
      /\ (row[o].mine => s = "CANCELLED" \/ s \notin App!unassignedStatuses)
  BY <1>2, ElsewhereTyped
<1>6. changed \in App!Row /\ changed.mine = mine /\ changed.status = s
  BY <1>2, <1>3, <1>4, <1>5 DEF App!Row
<1>7. changed.mine => changed.status \notin App!unassignedStatuses
  BY <1>3, <1>5, <1>6
<1>8. App!Put(o, changed)
  BY <1>1, <1>3, <1>4
<1>9. RowsTyped'
  BY <1>6, <1>7, <1>8, PutTyped
<1>10. UNCHANGED <<tab, tabs, busy, appCall>>
  BY DEF App!MoveOrder, App!screen
<1> QED
  BY <1>9, <1>10 DEF AppTyped, ScreenTyped, CallsTyped

LEMMA WindowEndsTyped == ASSUME AppTyped, App!WindowEnds PROVE AppTyped'
<1>1. PICK o \in App!available : row' = [row EXCEPT ![o].ended = TRUE]
  BY DEF App!WindowEnds
<1>2. o \in Order /\ row[o] \in App!Row
  BY DEF App!available, AppTyped, RowsTyped
<1>3. [row[o] EXCEPT !.ended = TRUE] \in App!Row
      /\ [row[o] EXCEPT !.ended = TRUE].mine = row[o].mine
      /\ [row[o] EXCEPT !.ended = TRUE].status = row[o].status
  BY <1>2 DEF App!Row
<1>4. row' \in [Order -> App!Row]
      /\ \A p \in Order : row'[p].mine = row[p].mine /\ row'[p].status = row[p].status
  BY <1>1, <1>2, <1>3 DEF AppTyped, RowsTyped
<1>5. UNCHANGED <<updates, tab, tabs, busy, appCall>>
  BY DEF App!WindowEnds, App!screen
<1> QED
  BY <1>4, <1>5 DEF AppTyped, RowsTyped, ScreenTyped, CallsTyped

LEMMA AppInit == ASSUME App!Assumptions, App!Init PROVE AppTyped
<1>1. \A o \in Order : row[o].mine => row[o].status \notin App!unassignedStatuses
  BY DEF App!Init
<1>2. ASSUME NEW s \in Start, NEW mine \in BOOLEAN PROVE App!found(s, mine) \in App!Row
  BY DEF App!found, App!Row, App!Assumptions
<1>3. row \in [Order -> App!Row] /\ updates \in Nat
  BY <1>2 DEF App!Init
<1>4. ScreenTyped
  BY DEF App!Init, ScreenTyped, App!Tab
<1>5. CallsTyped
  BY AppIdle DEF App!Init, CallsTyped
<1> QED
  BY <1>1, <1>3, <1>4, <1>5 DEF AppTyped, RowsTyped

LEMMA AppStep == ASSUME App!Assumptions, AppTyped, [App!Next]_(App!vars) PROVE AppTyped'
<1>1. ASSUME NEW c \in AppCall,
             \/ App!Reload(c) \/ App!MarketplaceChanges(c)
             \/ \E t \in App!Tab : App!SwitchTab(c, t)
      PROVE  AppTyped'
  BY <1>1, LoadsKeep
<1>2. ASSUME NEW c \in AppCall, App!ServeLoad(c) \/ App!TakeLoad(c) PROVE AppTyped'
  BY <1>2, ServeLoadKeeps, TakeLoadKeeps
<1>3. ASSUME NEW c \in AppCall,
             App!Accept(c) \/ App!Transition(c) \/ App!CancelBeforePickup(c)
      PROVE  AppTyped'
  BY <1>3, PressesKeep
<1>4. ASSUME NEW c \in AppCall,
             App!ServeAccept(c) \/ App!ServeTransition(c) \/ App!ServeCancel(c)
      PROVE  AppTyped'
  BY <1>4, ServeAcceptKeeps, ServeTransitionKeeps, ServeCancelKeeps
<1>5. ASSUME NEW c \in AppCall,
             \/ App!TakeAccepted(c) \/ App!TakeMoved(c) \/ App!TakeCancelled(c)
             \/ App!AcceptFails(c) \/ App!Fail(c)
      PROVE  AppTyped'
  BY <1>5, TakesKeep
<1>6. App!DropExpired \/ App!MoveOrder \/ App!WindowEnds => AppTyped'
  BY DropExpiredKeeps, MoveOrderTyped, WindowEndsTyped
<1>7. CASE UNCHANGED App!vars
  BY <1>7 DEF App!vars, App!rows, App!screen, AppTyped, RowsTyped, ScreenTyped, CallsTyped
<1> QED
  BY <1>1, <1>2, <1>3, <1>4, <1>5, <1>6, <1>7 DEF App!Next

LEMMA AppAlways == AppSpec => []AppTyped
<1>1. Init /\ App!Init => AppTyped
  BY CourierAppAssumption, AppInit
<1>2. [App!Next /\ UNCHANGED vars]_<<vars, appVars>> => [App!Next]_(App!vars)
  BY DEF appVars, App!vars, App!rows, App!screen
<1>3. AppTyped /\ [App!Next]_(App!vars) => AppTyped'
  BY CourierAppAssumption, AppStep
<1> QED
  BY <1>1, <1>2, <1>3, PTL DEF AppSpec

\* Orders, tabs and calls of the courier's app are well typed, and no order is
\* his in a status without a courier (operational-app.tsx).
THEOREM AppTypeCorrect == AppSpec => []AppTypeOK
<1>1. AppTyped => AppTypeOK
  BY TypedSays DEF AppTypeOK
<1> QED
  BY <1>1, AppAlways, PTL

\* An order that only its courier can move on is listed, with a button for each
\* of his commands and no other (nextAction in operational-app.tsx,
\* activeCourierStatuses and lifecycle in courier-orders.service.ts).
THEOREM NoOrderIsStrandedHolds == AppSpec => []NoOrderIsStranded
<1>1. AppTyped => NoOrderIsStranded
  <2> SUFFICES ASSUME AppTyped, NEW o \in Order,
                      NEW commands,
                      commands = {x \in App!lifecycle : row[o].status \in x.from},
                      row[o].mine, commands # {}
               PROVE  /\ o \in App!active
                      /\ App!paths(App!card(o)) = {x.action : x \in commands}
                      /\ App!mayHandBack(App!card(o))
                           <=> row[o].status \in App!courierCancellable
    BY DEF NoOrderIsStranded, App!NoOrderIsStranded
  <2>1. row[o].status \in App!OrderStatus
    BY DEF AppTyped, RowsTyped, App!Row
  <2>2. PICK x \in App!lifecycle : row[o].status \in x.from
    OBVIOUS
  <2>3. o \in App!active
    BY <2>1, <2>2, CommandsAreCurrent DEF App!active
  <2>4. PICK k : k = App!card(o)
    OBVIOUS
  <2>5. k.row.status = row[o].status
    BY <2>4 DEF App!card
  <2>6. App!paths(k) = {y.action : y \in commands}
    BY <2>1, <2>5, ButtonsAreCommands
  <2>7. App!mayHandBack(k) <=> row[o].status \in App!courierCancellable
    BY <2>5 DEF App!mayHandBack, App!courierCancellable
  <2> QED
    BY <2>3, <2>4, <2>6, <2>7
<1> QED
  BY <1>1, AppAlways, PTL
=============================================================================
