--------------------------------- MODULE Quotes ---------------------------------
(***************************************************************************)
(* How one merchant's price quotes come to be, expire, are replaced and    *)
(* become orders (orders.service.ts: createQuote, quote, recalculateQuote, *)
(* createOrder).  Requests run concurrently and in several steps: a quote  *)
(* is looked up by its idempotency key, priced in a serializable           *)
(* transaction and read back; reading an expired quote marks it EXPIRED in *)
(* a second statement; recalculation reads the original long before it     *)
(* replaces it; and the order's transaction holds the quote's row lock     *)
(* from its checks to its commit, while the clock goes on.                 *)
(***************************************************************************)
EXTENDS Naturals, Sequences, FiniteSets

CONSTANTS Key,       \* idempotency keys the merchant's client may choose
          NoKey,
          Handler,   \* requests the API serves at the same time
          Ttl,       \* QUOTE_TTL_SECONDS
          MaxTime,   \* bound on the clock
          MaxQuotes  \* bound on the number of quotes

\* What an instance assumes of these.
Assumptions ==
    /\ NoKey \notin Key
    /\ Ttl \in Nat \ {0}
    /\ {MaxTime, MaxQuotes} \subseteq Nat

VARIABLES now,
          quote,   \* PriceQuote rows; a row's index is its id
          order,   \* quotes that have their DeliveryOrder row
          record,  \* completed IdempotencyRecord of createOrder, by key
          handler  \* what each request being served has come to

vars == <<now, quote, order, record, handler>>

Status == {"ACTIVE", "EXPIRED", "SUPERSEDED", "CONSUMED"}

\* The canonical data of a quote request, for one delivery: its address was
\* entered, or taken from the saved ones, as every recalculation does.
Data == {"entered", "saved"}

None == 0
QuoteId == 1 .. MaxQuotes

\* Snapshots and prices of a row never change (PriceQuote_snapshot_immutable).
\* The version of a row grows with every write; requests bound the writes.
Row == [data: Data, key: Key, status: Status, version: Nat, expiresAt: Nat,
        supersedes: QuoteId \cup {None}]

Request == [kind: {"none", "create", "recalculate", "read", "order"},
            key: Key \cup {NoKey}, data: Data, quote: QuoteId \cup {None},
            version: Nat]

Step == {"idle", "lookup", "price", "read", "expire", "replay", "order",
         "commit", "recover", "answered"}

\* "of" is the quote that quote() is reading, "then" what follows that read.
Serving == [step: Step, request: Request, of: QuoteId \cup {None},
            then: {"lookup", "answer"},
            answer: {"none", "quote", "ordered", "refused"}]

NoRequest == [kind |-> "none", key |-> NoKey, data |-> "entered",
              quote |-> None, version |-> 0]

Idle == [step |-> "idle", request |-> NoRequest, of |-> None,
         then |-> "answer", answer |-> "none"]

\* What the idempotency record of an order request keeps: its hash.
NoHash == [quote |-> None, version |-> 0]
hash(r) == [quote |-> r.quote, version |-> r.version]

Init ==
    /\ now = 0
    /\ quote = <<>>
    /\ order = {}
    /\ record = [k \in Key |-> NoHash]
    /\ handler = [h \in Handler |-> Idle]

Goto(h, step) == handler' = [handler EXCEPT ![h].step = step]

Reply(h, answer) ==
    handler' = [handler EXCEPT ![h].step = "answered", ![h].answer = answer]

ReadBack(h, q) ==
    handler' = [handler EXCEPT ![h].step = "read", ![h].of = q,
                               ![h].then = "answer"]

quoteIsExpired(q) == quote[q].expiresAt <= now
keyed(k) == {q \in DOMAIN quote : quote[q].key = k}

\* Mistake: the order's transaction neither locks the row nor is serializable.
neverLocked(q) == FALSE

\* The row lock of an order's transaction that is under way.
locked(q) ==
    \E h \in Handler : handler[h].step = "commit" /\ handler[h].request.quote = q

\* A confirmation carries the version that some screen shows of its quote.
incoming ==
    [kind: {"create"}, key: Key, data: Data, quote: {None}, version: {0}]
        \cup [kind: {"read"}, key: {NoKey}, data: {"entered"},
              quote: DOMAIN quote, version: {0}]
        \cup [kind: {"recalculate"}, key: Key, data: {"saved"},
              quote: DOMAIN quote, version: {0}]
        \cup UNION {[kind: {"order"}, key: Key, data: {"entered"}, quote: {q},
                     version: 1 .. quote[q].version] : q \in DOMAIN quote}

\* What each kind of request begins with.
entry == [create |-> "lookup", recalculate |-> "read", read |-> "read",
          order |-> "replay"]

Receive(h) ==
    /\ handler[h].step = "idle"
    /\ \E r \in incoming :
          handler' =
              [handler EXCEPT
                 ![h] = [step |-> entry[r.kind],
                         request |-> r,
                         of |-> IF r.kind = "order" THEN None ELSE r.quote,
                         then |-> IF r.kind = "recalculate" THEN "lookup"
                                  ELSE "answer",
                         answer |-> "none"]]
    /\ UNCHANGED <<now, quote, order, record>>

-----------------------------------------------------------------------------
(* quote(), by which every request but an order's answers.                 *)

\* What follows once the row, or what the reader makes of it, has a status.
Continue(h, status) ==
    IF handler[h].then = "answer" THEN Reply(h, "quote")
    ELSE IF status = "CONSUMED" THEN Reply(h, "refused")
    ELSE handler' = [handler EXCEPT ![h].step = "lookup", ![h].then = "answer"]

Read(h) ==
    LET q == handler[h].of IN
    /\ handler[h].step = "read"
    /\ IF quote[q].status = "ACTIVE" /\ quoteIsExpired(q)
       THEN Goto(h, "expire") ELSE Continue(h, quote[q].status)
    /\ UNCHANGED <<now, quote, order, record>>

\* Mistake: reading an old quote brings it back.
ExpireRenews(h) ==
    LET q == handler[h].of IN
    /\ handler[h].step = "expire"
    /\ ~locked(q)
    /\ quote' = [quote EXCEPT ![q].status = "ACTIVE", ![q].version = @ + 1]
    /\ Continue(h, "EXPIRED")
    /\ UNCHANGED <<now, order, record>>

\* Mistake: an expired quote is not returned.
ExpireSilently(h) ==
    LET q == handler[h].of IN
    /\ handler[h].step = "expire"
    /\ ~locked(q)
    /\ quote' = [quote EXCEPT ![q].status = "EXPIRED", ![q].version = @ + 1]
    /\ Goto(h, "answered")
    /\ UNCHANGED <<now, order, record>>

\* The update names the row by its id only, whatever became of it since.
Expire(h) ==
    LET q == handler[h].of IN
    /\ handler[h].step = "expire"
    /\ ~locked(q)
    /\ quote' = [quote EXCEPT ![q].status = "EXPIRED", ![q].version = @ + 1]
    /\ Continue(h, "EXPIRED")
    /\ UNCHANGED <<now, order, record>>

-----------------------------------------------------------------------------
(* createQuote and recalculateQuote.                                       *)

Lookup(h) ==
    LET r == handler[h].request IN
    /\ handler[h].step = "lookup"
    /\ \/ keyed(r.key) = {} /\ Goto(h, "price")
       \/ \E q \in keyed(r.key) :
             IF quote[q].data = r.data THEN ReadBack(h, q)
             ELSE Reply(h, "refused")
    /\ UNCHANGED <<now, quote, order, record>>

newQuote(r) ==
    [data |-> r.data, key |-> r.key, status |-> "ACTIVE", version |-> 1,
     expiresAt |-> now + Ttl, supersedes |-> r.quote]

\* Mistake: a replaced quote stays as it is.
notReplaced(q) == quote

\* The rows after the original, if there is one, has been replaced.
replaced(q) ==
    IF q # None /\ quote[q].status \in {"ACTIVE", "EXPIRED"}
    THEN [quote EXCEPT ![q].status = "SUPERSEDED", ![q].version = @ + 1]
    ELSE quote

\* The serializable transaction; the key is unique among the merchant's quotes.
PriceQuote(h) ==
    LET r == handler[h].request IN
    /\ handler[h].step = "price"
    /\ keyed(r.key) = {}
    /\ ~locked(r.quote)
    /\ Len(quote) < MaxQuotes
    /\ quote' = Append(replaced(r.quote), newQuote(r))
    /\ ReadBack(h, Len(quote) + 1)
    /\ UNCHANGED <<now, order, record>>

\* Mistake: the fingerprint of the quote that won is not compared.
PricingFailsAny(h) ==
    LET r == handler[h].request IN
    /\ handler[h].step = "price"
    /\ \/ Reply(h, "refused")
       \/ \E q \in keyed(r.key) : ReadBack(h, q)
    /\ UNCHANGED <<now, quote, order, record>>

\* The transaction throws: outside the zones, no rule, too far, a failure of
\* the database.  After a unique conflict the quote that won is returned.
PricingFails(h) ==
    LET r == handler[h].request IN
    /\ handler[h].step = "price"
    /\ \/ Reply(h, "refused")
       \/ \E q \in keyed(r.key) : quote[q].data = r.data /\ ReadBack(h, q)
    /\ UNCHANGED <<now, quote, order, record>>

-----------------------------------------------------------------------------
(* createOrder.                                                            *)

\* idempotencyReplay.
Replay(h) ==
    LET r == handler[h].request IN
    /\ handler[h].step = "replay"
    /\ IF record[r.key] = NoHash THEN Goto(h, "order")
       ELSE Reply(h, IF record[r.key] = hash(r) THEN "ordered" ELSE "refused")
    /\ UNCHANGED <<now, quote, order, record>>

\* claimIdempotency, and the row lock; both wait for a transaction under way.
claimed(r) ==
    /\ record[r.key] \in {NoHash, hash(r)}
    /\ \A h \in Handler :
           handler[h].step = "commit" => handler[h].request.key # r.key
    /\ ~locked(r.quote)

\* Whether store and zone still serve the delivery is open: see OrderFails.
confirmable(r) ==
    /\ quote[r.quote].status = "ACTIVE"
    /\ ~quoteIsExpired(r.quote)
    /\ quote[r.quote].version = r.version

\* The quote has its order already: the key is completed with that one.
OrderExists(h) ==
    LET r == handler[h].request IN
    /\ handler[h].step = "order"
    /\ claimed(r)
    /\ r.quote \in order
    /\ record' = [record EXCEPT ![r.key] = hash(r)]
    /\ Reply(h, "ordered")
    /\ UNCHANGED <<now, quote, order>>

\* The checks, with the clock as it is now.
Check(h) ==
    LET r == handler[h].request IN
    /\ handler[h].step = "order"
    /\ claimed(r)
    /\ r.quote \notin order
    /\ confirmable(r)
    /\ Goto(h, "commit")
    /\ UNCHANGED <<now, quote, order, record>>

\* The order is created, the quote consumed; quoteId is unique among orders.
Commit(h) ==
    LET r == handler[h].request IN
    /\ handler[h].step = "commit"
    /\ r.quote \notin order
    /\ order' = order \cup {r.quote}
    /\ quote' = [quote EXCEPT ![r.quote].status = "CONSUMED",
                              ![r.quote].version = @ + 1]
    /\ record' = [record EXCEPT ![r.key] = hash(r)]
    /\ Reply(h, "ordered")
    /\ UNCHANGED now

\* A check fails, that of the store and revalidateZone among them, or the
\* database; nothing is written, the claim included.
OrderFails(h) ==
    /\ handler[h].step \in {"order", "commit"}
    /\ Goto(h, "recover")
    /\ UNCHANGED <<now, quote, order, record>>

\* Mistake: after a failure any recorded answer will do.
RecoverAnyHash(h) ==
    LET r == handler[h].request IN
    /\ handler[h].step = "recover"
    /\ Reply(h, IF record[r.key] # NoHash THEN "ordered" ELSE "refused")
    /\ UNCHANGED <<now, quote, order, record>>

\* idempotencyReplay again, in the catch block.
Recover(h) ==
    LET r == handler[h].request IN
    /\ handler[h].step = "recover"
    /\ Reply(h, IF record[r.key] = hash(r) THEN "ordered" ELSE "refused")
    /\ UNCHANGED <<now, quote, order, record>>

-----------------------------------------------------------------------------

\* The answer has reached the client, or the process died; a transaction under
\* way is rolled back.
Done(h) ==
    /\ handler[h].step # "idle"
    /\ handler' = [handler EXCEPT ![h] = Idle]
    /\ UNCHANGED <<now, quote, order, record>>

Tick ==
    /\ now < MaxTime
    /\ now' = now + 1
    /\ UNCHANGED <<quote, order, record, handler>>

Next ==
    \/ \E h \in Handler :
          \/ Receive(h) \/ Read(h) \/ Expire(h) \/ Lookup(h) \/ PriceQuote(h)
          \/ PricingFails(h) \/ Replay(h) \/ OrderExists(h) \/ Check(h)
          \/ Commit(h) \/ OrderFails(h) \/ Recover(h) \/ Done(h)
    \/ Tick

Spec == Init /\ [][Next]_vars

-----------------------------------------------------------------------------
(* What must hold of quotes and their orders.                              *)

TypeOK ==
    /\ now \in 0 .. MaxTime
    /\ quote \in Seq(Row)
    /\ Len(quote) <= MaxQuotes
    /\ order \subseteq DOMAIN quote
    /\ record \in [Key -> [quote: QuoteId \cup {None}, version: Nat]]
    /\ handler \in [Handler -> Serving]
    /\ \A h \in Handler :
           handler[h].step = "answered" => handler[h].answer # "none"

\* docs: "A quote is one-time" (quote-lifecycle.md:19), and its recalculation
\* "marks the old active/expired quote superseded" (:13-14).  Whatever expires,
\* replaces or reads it at the same time, a quote that has its order or its
\* replacement never looks confirmable again, and none is consumed without an
\* order.
SpentOnce ==
    \A q \in DOMAIN quote :
        /\ q \in order => quote[q].status # "ACTIVE"
        /\ quote[q].status = "CONSUMED" => q \in order
        /\ quote[q].supersedes # None => quote[quote[q].supersedes].status # "ACTIVE"

\* docs: "Expired or non-active quotes cannot create an order" (:15).  At the
\* instant an order is committed, its quote is what the merchant reviewed,
\* although readers and recalculations ran since the transaction checked it.
OrderedAsReviewed ==
    [][\A q \in order' \ order :
         /\ quote[q].status = "ACTIVE"
         /\ \E h \in Handler :
               /\ handler[h].step = "commit"
               /\ handler[h].request.quote = q
               /\ handler[h].request.version = quote[q].version]_vars

\* A quote stays spent along every run, and each order is confirmed from a quote
\* that was still what the merchant had reviewed.
SpentAsReviewed == []SpentOnce /\ OrderedAsReviewed

\* docs: "An identical idempotent request returns the original quote.  Reusing
\* a key with different canonical data returns 409" (:11-12), also when both
\* requests looked the key up before either had priced its quote.  A merchant
\* told that the order exists gets the order of the quote that this request
\* confirms, not of another one confirmed under the same key.
AnswersAreTrue ==
    /\ [](\A q, s \in DOMAIN quote : quote[q].key = quote[s].key => q = s)
    /\ [](\A h \in Handler :
           LET r == handler[h].request IN
           /\ handler[h].answer = "quote" /\ r.kind \in {"create", "recalculate"} =>
                 /\ quote[handler[h].of].key = r.key
                 /\ quote[handler[h].of].data = r.data
           /\ handler[h].answer = "ordered" => r.quote \in order)
=============================================================================
