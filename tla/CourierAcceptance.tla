--------------------------- MODULE CourierAcceptance ---------------------------
(***************************************************************************)
(* How couriers race for one published order (courier-orders.service.ts,   *)
(* accept).  An accept request is not one step: the API checks the         *)
(* courier's eligibility, looks for a recorded answer to the same          *)
(* idempotency key, runs the serializable transaction that takes the       *)
(* order, loads the accepted order and only then answers; when the         *)
(* transaction throws it looks for the recorded answer once more and then  *)
(* reads the order to explain the refusal.  Between any two of these steps *)
(* other couriers, the order's owner, the worker and administrators act,   *)
(* the same request may arrive twice, and the API process may die.         *)
(***************************************************************************)
EXTENDS Naturals, FiniteSets

CONSTANTS Courier, NoCourier,
          Key,        \* idempotency keys a courier's client may choose
          Handler,    \* requests the API serves at the same time
          MaxVersion  \* bound on the order's version

ASSUME NoCourierAssumption == NoCourier \notin Courier
ASSUME VersionAssumption == MaxVersion \in Nat \ {0}
ASSUME ClientAssumption == Courier # {} /\ Key # {}

VARIABLES order,    \* the DeliveryOrder row: status, courierId, version, expired
          eligible, \* couriers courierOperationalEligibility accepts
          member,   \* couriers active in the order's active service zone
          record,   \* completed IdempotencyRecord: request hash, by scope and key
          handler,  \* what each request being served has come to
          accepted  \* the commits that took the order, as they happened

vars == <<order, eligible, member, record, handler, accepted>>

Status == {"SEARCHING_COURIER", "COURIER_ASSIGNED", "NO_COURIER_AVAILABLE",
           "CANCELLED"}

\* A request carries the version of the card the courier tapped; the request
\* hash of the record is that version, as the scope names order and courier.
Request == [courierId: Courier, key: Key, version: 1 .. MaxVersion]

NoHash == 0

OrderRow == [status: Status, courierId: Courier \cup {NoCourier},
             version: 1 .. MaxVersion, expired: BOOLEAN]

\* What the client is told: 201 (accepted), 403 (ineligible, not in zone),
\* 404 (not found), 409 (key reused, expired, taken, changed), 500 (failure).
Answer == {"accepted", "ineligible", "not in zone", "not found", "key reused",
           "expired", "taken", "changed", "failure"}

Step == {"idle", "replay", "transaction", "load", "recover", "explain",
         "answered"}

\* Once a step has failed, "answer" is the error at hand until it is reworded.
Serving == [step: Step, request: Request, answer: Answer \cup {"none"}]

Idle == [step |-> "idle", answer |-> "none",
         request |-> CHOOSE r \in Request : TRUE]

Init ==
    /\ order = [status |-> "SEARCHING_COURIER", courierId |-> NoCourier,
                version |-> 1, expired |-> FALSE]
    /\ eligible \in SUBSET Courier
    /\ member \in SUBSET Courier
    /\ record = [scope \in Courier \X Key |-> NoHash]
    /\ handler = [h \in Handler |-> Idle]
    /\ accepted = {}

Goto(h, step) == handler' = [handler EXCEPT ![h].step = step]

Fail(h, error) ==
    handler' = [handler EXCEPT ![h].step = "recover", ![h].answer = error]

Reply(h, answer) ==
    handler' = [handler EXCEPT ![h].step = "answered", ![h].answer = answer]

\* The request's idempotency record.
recorded(r) == record[<<r.courierId, r.key>>]

-----------------------------------------------------------------------------
(* One request, step by step.                                              *)

\* The request arrives; eligibleCourier is read outside any transaction.
Receive(h, r) ==
    /\ handler[h].step = "idle"
    /\ r.version <= order.version
    /\ handler' = [handler EXCEPT
                     ![h] = [step |-> IF r.courierId \in eligible
                                      THEN "replay" ELSE "answered",
                             request |-> r,
                             answer |-> IF r.courierId \in eligible
                                        THEN "none" ELSE "ineligible"]]
    /\ UNCHANGED <<order, eligible, member, record, accepted>>

\* Mistake: a used key is replayed for any request.
ReplayAnyHash(h) ==
    LET r == handler[h].request IN
    /\ handler[h].step = "replay"
    /\ \/ recorded(r) = NoHash /\ Goto(h, "transaction")
       \/ /\ recorded(r) # NoHash
          /\ Reply(h, IF order.courierId = r.courierId THEN "accepted"
                      ELSE "not found")
    /\ UNCHANGED <<order, eligible, member, record, accepted>>

\* idempotencyReplay; a replayed answer is the order, if it is still theirs.
Replay(h) ==
    LET r == handler[h].request IN
    /\ handler[h].step = "replay"
    /\ \/ recorded(r) = NoHash /\ Goto(h, "transaction")
       \/ recorded(r) \notin {NoHash, r.version} /\ Reply(h, "key reused")
       \/ /\ recorded(r) = r.version
          /\ Reply(h, IF order.courierId = r.courierId THEN "accepted"
                      ELSE "not found")
    /\ UNCHANGED <<order, eligible, member, record, accepted>>

\* Mistake: the version of the card is not compared under the lock.
refusalUnversioned(r) ==
    IF recorded(r) \notin {NoHash, r.version} THEN "key reused"
    ELSE IF order.status # "SEARCHING_COURIER" \/ order.courierId # NoCourier
         THEN "taken"
    ELSE IF order.expired THEN "expired"
    ELSE IF r.courierId \notin member THEN "not in zone"
    ELSE "none"

\* Mistake: the zone is checked before the order.
refusalZoneFirst(r) ==
    IF recorded(r) \notin {NoHash, r.version} THEN "key reused"
    ELSE IF r.courierId \notin member THEN "not in zone"
    ELSE IF order.status # "SEARCHING_COURIER" \/ order.courierId # NoCourier
         THEN "taken"
    ELSE IF order.expired THEN "expired"
    ELSE IF order.version # r.version THEN "changed"
    ELSE "none"

\* The first check that fails under the row lock, or "none".  claimIdempotency
\* lets a key whose record is COMPLETED pass.
refusal(r) ==
    IF recorded(r) \notin {NoHash, r.version} THEN "key reused"
    ELSE IF order.status # "SEARCHING_COURIER" \/ order.courierId # NoCourier
         THEN "taken"
    ELSE IF order.expired THEN "expired"
    ELSE IF order.version # r.version THEN "changed"
    ELSE IF r.courierId \notin member THEN "not in zone"
    ELSE "none"

Take(h) ==
    LET r == handler[h].request IN
    /\ handler[h].step = "transaction"
    /\ refusal(r) = "none"
    /\ order.version < MaxVersion
    /\ order' = [order EXCEPT !.status = "COURIER_ASSIGNED",
                              !.courierId = r.courierId,
                              !.expired = TRUE,
                              !.version = @ + 1]
    /\ record' = [record EXCEPT ![<<r.courierId, r.key>>] = r.version]
    /\ accepted' = accepted \cup {[request |-> r, version |-> order.version]}
    /\ Goto(h, "load")
    /\ UNCHANGED <<eligible, member>>

\* Mistake: a request is refused without a reason.
RefuseAny(h) ==
    /\ handler[h].step = "transaction"
    /\ Fail(h, refusal(handler[h].request))
    /\ UNCHANGED <<order, eligible, member, record, accepted>>

\* The transaction writes nothing, the claim of the key included: a check
\* fails, or the database gives up after the one retry.
Refuse(h) ==
    /\ handler[h].step = "transaction"
    /\ refusal(handler[h].request) # "none"
    /\ Fail(h, refusal(handler[h].request))
    /\ UNCHANGED <<order, eligible, member, record, accepted>>

DatabaseFails(h) ==
    /\ handler[h].step = "transaction"
    /\ Fail(h, "failure")
    /\ UNCHANGED <<order, eligible, member, record, accepted>>

\* assignedOrder after the commit: by now the courier may have lost it.
LoadAssigned(h) ==
    /\ handler[h].step = "load"
    /\ IF order.courierId = handler[h].request.courierId
       THEN Reply(h, "accepted") ELSE Fail(h, "not found")
    /\ UNCHANGED <<order, eligible, member, record, accepted>>

\* Mistake: a failed request is explained without looking for its duplicate.
RecoverNothing(h) ==
    /\ handler[h].step = "recover"
    /\ Goto(h, "explain")
    /\ UNCHANGED <<order, eligible, member, record, accepted>>

\* idempotencyReplayIfCompleted.
Recover(h) ==
    LET r == handler[h].request IN
    /\ handler[h].step = "recover"
    /\ \/ recorded(r) # r.version /\ Goto(h, "explain")
       \/ /\ recorded(r) = r.version
          /\ Reply(h, IF order.courierId = r.courierId THEN "accepted"
                      ELSE "not found")
    /\ UNCHANGED <<order, eligible, member, record, accepted>>

\* The refusal is worded after the order as it is now.
Explain(h) ==
    /\ handler[h].step = "explain"
    /\ Reply(h, IF \/ order.status = "NO_COURIER_AVAILABLE"
                   \/ order.status = "SEARCHING_COURIER" /\ order.expired
                THEN "expired"
                ELSE IF order.status # "SEARCHING_COURIER" THEN "taken"
                ELSE handler[h].answer)
    /\ UNCHANGED <<order, eligible, member, record, accepted>>

\* The answer has reached the client, or the process died before it could.
Done(h) ==
    /\ handler[h].step # "idle"
    /\ handler' = [handler EXCEPT ![h] = Idle]
    /\ UNCHANGED <<order, eligible, member, record, accepted>>

-----------------------------------------------------------------------------
(* The others.                                                             *)

Change(from, to) ==
    /\ order.status \in from
    /\ order.version < MaxVersion
    /\ order' = [order EXCEPT !.status = to, !.version = @ + 1,
                              !.courierId = NoCourier,
                              !.expired = to # "SEARCHING_COURIER"]
    /\ UNCHANGED <<eligible, member, record, handler, accepted>>

\* cancelBeforePickup and retryCourierSearch publish the order again; the
\* worker times it out; the merchant cancels it.
HandBack == Change({"COURIER_ASSIGNED"}, "SEARCHING_COURIER")
Retry == Change({"NO_COURIER_AVAILABLE"}, "SEARCHING_COURIER")
Expire == order.expired /\ Change({"SEARCHING_COURIER"}, "NO_COURIER_AVAILABLE")
Cancel == Change({"SEARCHING_COURIER", "COURIER_ASSIGNED"}, "CANCELLED")

\* The acceptance window passes.
WindowEnds ==
    /\ order.status = "SEARCHING_COURIER" /\ ~order.expired
    /\ order' = [order EXCEPT !.expired = TRUE]
    /\ UNCHANGED <<eligible, member, record, handler, accepted>>

\* An administrator suspends or reinstates a courier, a document expires.
EligibilityChanges(c) ==
    /\ eligible' = IF c \in eligible THEN eligible \ {c} ELSE eligible \cup {c}
    /\ UNCHANGED <<order, member, record, handler, accepted>>

\* A courier joins or leaves the zone.
MembershipChanges(c) ==
    /\ member' = IF c \in member THEN member \ {c} ELSE member \cup {c}
    /\ UNCHANGED <<order, eligible, record, handler, accepted>>

Serve(h) ==
    \/ Replay(h) \/ Take(h) \/ Refuse(h) \/ DatabaseFails(h)
    \/ LoadAssigned(h) \/ Recover(h) \/ Explain(h) \/ Done(h)

Next ==
    \/ \E h \in Handler, r \in Request : Receive(h, r)
    \/ \E h \in Handler : Serve(h)
    \/ HandBack \/ Retry \/ Expire \/ Cancel \/ WindowEnds
    \/ \E c \in Courier : EligibilityChanges(c) \/ MembershipChanges(c)

Spec == Init /\ [][Next]_vars

-----------------------------------------------------------------------------
(* What must hold of every acceptance.                                     *)

TypeOK ==
    /\ order \in OrderRow
    /\ eligible \subseteq Courier
    /\ member \subseteq Courier
    /\ record \in [Courier \X Key -> 0 .. MaxVersion]
    /\ handler \in [Handler -> Serving]
    /\ \A h \in Handler :
           handler[h].step = "answered" => handler[h].answer # "none"
    /\ accepted \subseteq [request: Request, version: 1 .. MaxVersion]

\* First courier wins: one publication of the order is taken at most once, and
\* one request takes it at most once, however often it is delivered and
\* whatever is handed back in between.
FirstCourierWins ==
    \A a, b \in accepted :
        a.version = b.version \/ a.request = b.request => a = b

\* A request refused because its own duplicate took the order first is
\* answered like that duplicate: catching any error, accept looks for the
\* recorded answer before it explains a refusal.
duplicateAgrees(h) ==
    LET r == handler[h].request IN
    /\ handler[h].step = "recover"
    /\ \E a \in accepted : a.request = r
    /\ handler'[h].step \notin {"recover", "idle"}
    => /\ handler'[h].step = "answered"
       /\ handler'[h].answer \in {"accepted", "not found"}

\* Another courier took what was published to this one as well.
loserGetsConflict(h) ==
    LET r == handler[h].request IN
    /\ handler[h].step = "transaction"
    /\ \E a \in accepted : a.version = r.version
                            /\ a.request.courierId # r.courierId
    /\ handler'[h].step = "recover"
    /\ handler'[h].answer # "failure"
    => handler'[h].answer \in {"key reused", "taken", "expired", "changed"}

\* Nobody is told the order is theirs, or was, whose own request never took it:
\* not by a replayed record, not by an order they hold through another request.
\* Of a request delivered twice both are answered alike, and "Every different
\* eligible courier racing the same version receives HTTP 409 after the winner
\* commits" (phase-3-marketplace-accounting.md:53-54), unless the database fails.
AnswersAreTrue ==
    /\ [](\A h \in Handler :
            handler[h].step = "answered"
            /\ handler[h].answer \in {"accepted", "not found"}
            => \E a \in accepted : a.request = handler[h].request)
    /\ [][\A h \in Handler : duplicateAgrees(h) /\ loserGetsConflict(h)]_vars
=============================================================================
