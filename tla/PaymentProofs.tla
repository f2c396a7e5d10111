------------------------------ MODULE PaymentProofs ------------------------------
(***************************************************************************)
(* How one courier's receipts become payments (payment-proofs.service.ts)  *)
(* beside the payments that finance staff enter directly                   *)
(* (finance.service.ts).  Submitting stores the file before it inserts the *)
(* row and deletes it again when that fails; approving looks at the proof, *)
(* then records the payment and the decision in one serializable           *)
(* transaction; a direct payment looks for a recorded answer first.        *)
(* Requests run concurrently, arrive twice, and die at any step.           *)
(*                                                                         *)
(* Rows are decided on while PENDING_CONFIRMATION only, and every write    *)
(* ends that status, so the version that commands carry tells nothing more *)
(* than the status does and is left out.  Settlements that close meanwhile *)
(* only add to what is owed: module Settlement has them.                   *)
(***************************************************************************)
EXTENDS Naturals, Sequences, FiniteSets

CONSTANTS Key,         \* idempotency keys clients may choose
          NoKey,
          Amount,      \* amounts submitted, approved and paid
          Debt,        \* bound on what is outstanding
          Handler,     \* requests the API serves at the same time
          MaxUploads,  \* bound on the submissions that reach the storage
          MaxPayments  \* bound on the payment records

\* What an instance assumes of these.
Assumptions ==
    /\ NoKey \notin Key
    /\ Amount \subseteq Nat \ {0} /\ Debt \in Nat
    /\ MaxUploads \in Nat /\ MaxPayments \in Nat

VARIABLES owed,    \* what is outstanding on the courier's settlements
          uploads, \* proof ids given out so far
          stored,  \* proof ids whose receipt is in the object storage
          proof,   \* CourierPaymentProof rows, by id
          review,  \* PaymentProofReview rows of each proof: what was decided
          payment, \* ExternalPaymentRecord rows; a row's index is its id
          record,  \* completed IdempotencyRecord of payments, by key
          handler  \* what each request being served has come to

vars == <<owed, uploads, stored, proof, review, payment, record, handler>>

None == 0
ProofId == 1 .. MaxUploads

approvedStatuses == {"APPROVED", "PARTIALLY_APPROVED"}
Status == {"PENDING_CONFIRMATION", "REJECTED", "CANCELLED_BY_COURIER"}
              \cup approvedStatuses

Proof == [key: Key, submitted: Amount, approved: Amount \cup {None},
          status: Status, payment: 0 .. MaxPayments]

\* A payment's note names the proof it was approved from.
Payment == [key: Key \cup {NoKey}, amount: Amount, proof: ProofId \cup {None},
            reverses: 0 .. MaxPayments]

Request == [kind: {"none", "submit", "approve", "pay"}, key: Key \cup {NoKey},
            amount: Amount \cup {None}, proof: ProofId \cup {None}]

Step == {"idle", "lookup", "store", "insert", "clean", "check", "replay",
         "transaction", "answered"}

\* "id" is the proof id a submission has given itself.
Serving == [step: Step, request: Request, id: ProofId \cup {None},
            answer: {"none", "submitted", "approved", "paid"}]

NoRequest == [kind |-> "none", key |-> NoKey, amount |-> None, proof |-> None]
Idle == [step |-> "idle", request |-> NoRequest, id |-> None, answer |-> "none"]

\* What the hash of a payment request tells apart.
NoHash == [amount |-> None, proof |-> None]
hash(r) == [amount |-> r.amount, proof |-> r.proof]

Init ==
    /\ owed \in 0 .. Debt
    /\ uploads = 0
    /\ stored = {}
    /\ proof = [id \in {} |-> NoHash]
    /\ review = [id \in ProofId |-> <<>>]
    /\ payment = <<>>
    /\ record = [k \in Key |-> NoHash]
    /\ handler = [h \in Handler |-> Idle]

Goto(h, step) == handler' = [handler EXCEPT ![h].step = step]

Reply(h, answer) ==
    handler' = [handler EXCEPT ![h].step = "answered", ![h].answer = answer,
                               ![h].id = None]

\* A refusal speaks of no row, so the request is over with it.
Refuse(h) == handler' = [handler EXCEPT ![h] = Idle]

\* A staff member approves a proof that was submitted.
incoming ==
    [kind: {"submit", "pay"}, key: Key, amount: Amount, proof: {None}]
        \cup [kind: {"approve"}, key: Key, amount: Amount, proof: DOMAIN proof]

\* What each kind of request begins with.
entry == [submit |-> "lookup", approve |-> "check", pay |-> "replay"]

Receive(h) ==
    /\ handler[h].step = "idle"
    /\ \E r \in incoming :
          handler' = [handler EXCEPT ![h].step = entry[r.kind], ![h].request = r]
    /\ UNCHANGED <<owed, uploads, stored, proof, review, payment, record>>

-----------------------------------------------------------------------------
(* submit.                                                                 *)

keyTaken(k) == \E id \in DOMAIN proof : proof[id].key = k

\* A used key answers with its proof; else the submission gets an id.
Lookup(h) ==
    /\ handler[h].step = "lookup"
    /\ \/ /\ keyTaken(handler[h].request.key)
          /\ Reply(h, "submitted")
          /\ UNCHANGED uploads
       \/ /\ ~keyTaken(handler[h].request.key)
          /\ uploads < MaxUploads
          /\ uploads' = uploads + 1
          /\ handler' = [handler EXCEPT ![h].step = "store",
                                        ![h].id = uploads + 1]
    /\ UNCHANGED <<owed, stored, proof, review, payment, record>>

Store(h) ==
    /\ handler[h].step = "store"
    /\ stored' = stored \cup {handler[h].id}
    /\ Goto(h, "insert")
    /\ UNCHANGED <<owed, uploads, proof, review, payment, record>>

\* The key is unique among proofs.
Insert(h) ==
    LET r == handler[h].request IN
    /\ handler[h].step = "insert"
    /\ ~keyTaken(r.key)
    /\ proof' = [id \in DOMAIN proof \cup {handler[h].id} |->
                   IF id = handler[h].id
                   THEN [key |-> r.key, submitted |-> r.amount,
                         approved |-> None, status |-> "PENDING_CONFIRMATION",
                         payment |-> None]
                   ELSE proof[id]]
    /\ Reply(h, "submitted")
    /\ UNCHANGED <<owed, uploads, stored, review, payment, record>>

\* A duplicate was faster, or the database fails.
InsertFails(h) ==
    /\ handler[h].step = "insert"
    /\ Goto(h, "clean")
    /\ UNCHANGED <<owed, uploads, stored, proof, review, payment, record>>

\* Mistake: the file is found by the submission's key.
CleanByKey(h) ==
    /\ handler[h].step = "clean"
    /\ stored' = {id \in stored \ {handler[h].id} :
                     id \in DOMAIN proof
                     => proof[id].key # handler[h].request.key}
    /\ Refuse(h)
    /\ UNCHANGED <<owed, uploads, proof, review, payment, record>>

\* deleteObject; the insertion's error is what the client is told.
Clean(h) ==
    /\ handler[h].step = "clean"
    /\ stored' = stored \ {handler[h].id}
    /\ Refuse(h)
    /\ UNCHANGED <<owed, uploads, proof, review, payment, record>>

-----------------------------------------------------------------------------
(* The accounting command that approvals and direct payments share.        *)

\* Mistake: payment records have no unique key.
payableKeyReused(r) ==
    /\ record[r.key] \in {NoHash, hash(r)}
    /\ r.amount <= owed
    /\ Len(payment) < MaxPayments

\* Mistake: nothing keeps payments from exceeding what is outstanding.
payableOverpaid(r) ==
    /\ record[r.key] \in {NoHash, hash(r)}
    /\ \A i \in DOMAIN payment : payment[i].key # r.key
    /\ Len(payment) < MaxPayments

\* claimIdempotency lets a completed key of the same request pass; then the
\* unique key of the payment record stops it.  Overpayment is refused.
payable(r) ==
    /\ record[r.key] \in {NoHash, hash(r)}
    /\ r.amount <= owed
    /\ \A i \in DOMAIN payment : payment[i].key # r.key
    /\ Len(payment) < MaxPayments

RecordPayment(r) ==
    /\ payable(r)
    /\ payment' = Append(payment, [key |-> r.key, amount |-> r.amount,
                                   proof |-> r.proof, reverses |-> None])
    /\ owed' = owed - r.amount
    /\ record' = [record EXCEPT ![r.key] = hash(r)]

-----------------------------------------------------------------------------
(* approve.                                                                *)

isPending(id) ==
    proof[id].status = "PENDING_CONFIRMATION" /\ proof[id].payment = None

\* The first look at the proof, outside the transaction.
Check(h) ==
    LET r == handler[h].request IN
    /\ handler[h].step = "check"
    /\ IF proof[r.proof].payment # None THEN Reply(h, "approved")
       ELSE IF isPending(r.proof) /\ r.amount <= proof[r.proof].submitted
       THEN Goto(h, "transaction")
       ELSE Refuse(h)
    /\ UNCHANGED <<owed, uploads, stored, proof, review, payment, record>>

Decide(id, row) ==
    /\ proof' = [proof EXCEPT ![id] = row]
    /\ review' = [review EXCEPT ![id] = Append(@, row.status)]

\* paymentProofApproval; a reason is given where one is required.
paymentProofApproval(submitted, approved) ==
    IF approved = submitted THEN "APPROVED" ELSE "PARTIALLY_APPROVED"

approvedRow(r) ==
    [proof[r.proof] EXCEPT
        !.status = paymentProofApproval(proof[r.proof].submitted, r.amount),
        !.approved = r.amount,
        !.payment = Len(payment) + 1]

\* Mistake: the first look at the proof is trusted.
ApproveUnlocked(h) ==
    LET r == handler[h].request IN
    /\ handler[h].step = "transaction"
    /\ r.kind = "approve"
    /\ RecordPayment(r)
    /\ Decide(r.proof, approvedRow(r))
    /\ Reply(h, "approved")
    /\ UNCHANGED <<uploads, stored>>

\* Under the proof's row lock.
Approve(h) ==
    LET r == handler[h].request IN
    /\ handler[h].step = "transaction"
    /\ r.kind = "approve"
    /\ isPending(r.proof)
    /\ RecordPayment(r)
    /\ Decide(r.proof, approvedRow(r))
    /\ Reply(h, "approved")
    /\ UNCHANGED <<uploads, stored>>

\* An approval or a direct payment writes nothing: decided or paid meanwhile,
\* overpaid, the key used, or a failure of the database.
TransactionFails(h) ==
    /\ handler[h].step = "transaction"
    /\ Refuse(h)
    /\ UNCHANGED <<owed, uploads, stored, proof, review, payment, record>>

\* Mistake: the courier's cancelled proof may still be rejected.
RejectDecided(id) ==
    /\ proof[id].status \in {"PENDING_CONFIRMATION", "CANCELLED_BY_COURIER"}
    /\ Decide(id, [proof[id] EXCEPT !.status = "REJECTED"])
    /\ UNCHANGED <<owed, uploads, stored, payment, record, handler>>

\* reject and cancel are one conditional update each.
Reject(id) ==
    /\ proof[id].status = "PENDING_CONFIRMATION"
    /\ Decide(id, [proof[id] EXCEPT !.status = "REJECTED"])
    /\ UNCHANGED <<owed, uploads, stored, payment, record, handler>>

\* Mistake: the courier's own decision is entered as a review.
CancelReviewed(id) ==
    /\ proof[id].status = "PENDING_CONFIRMATION"
    /\ Decide(id, [proof[id] EXCEPT !.status = "CANCELLED_BY_COURIER"])
    /\ UNCHANGED <<owed, uploads, stored, payment, record, handler>>

Cancel(id) ==
    /\ proof[id].status = "PENDING_CONFIRMATION"
    /\ proof' = [proof EXCEPT ![id].status = "CANCELLED_BY_COURIER"]
    /\ UNCHANGED <<owed, uploads, stored, review, payment, record, handler>>

-----------------------------------------------------------------------------
(* recordExternalPayment, reverseExternalPayment.                          *)

\* Mistake: a recorded answer is replayed for any request.
ReplayAnyHash(h) ==
    LET r == handler[h].request IN
    /\ handler[h].step = "replay"
    /\ IF record[r.key] = NoHash THEN Goto(h, "transaction") ELSE Reply(h, "paid")
    /\ UNCHANGED <<owed, uploads, stored, proof, review, payment, record>>

\* idempotencyReplay.
Replay(h) ==
    LET r == handler[h].request IN
    /\ handler[h].step = "replay"
    /\ IF record[r.key] = NoHash THEN Goto(h, "transaction")
       ELSE IF record[r.key] = hash(r) THEN Reply(h, "paid") ELSE Refuse(h)
    /\ UNCHANGED <<owed, uploads, stored, proof, review, payment, record>>

Pay(h) ==
    LET r == handler[h].request IN
    /\ handler[h].step = "transaction"
    /\ r.kind = "pay"
    /\ RecordPayment(r)
    /\ Reply(h, "paid")
    /\ UNCHANGED <<uploads, stored, proof, review>>

isReversed(i) == \E j \in DOMAIN payment : payment[j].reverses = i

\* A record of its own, under a key of its own; the proof stays approved.
Reverse(i) ==
    /\ payment[i].reverses = None
    /\ ~isReversed(i)
    /\ Len(payment) < MaxPayments
    /\ payment' = Append(payment, [key |-> NoKey, amount |-> payment[i].amount,
                                   proof |-> None, reverses |-> i])
    /\ owed' = owed + payment[i].amount
    /\ UNCHANGED <<uploads, stored, proof, review, record, handler>>

-----------------------------------------------------------------------------

\* The answer has reached the client, or the process died.
Done(h) ==
    /\ handler[h].step # "idle"
    /\ handler' = [handler EXCEPT ![h] = Idle]
    /\ UNCHANGED <<owed, uploads, stored, proof, review, payment, record>>

Next ==
    \/ \E h \in Handler :
          \/ Receive(h) \/ Lookup(h) \/ Store(h) \/ Insert(h)
          \/ InsertFails(h) \/ Clean(h) \/ Check(h) \/ Approve(h)
          \/ TransactionFails(h) \/ Replay(h) \/ Pay(h) \/ Done(h)
    \/ \E id \in DOMAIN proof : Reject(id) \/ Cancel(id)
    \/ \E i \in DOMAIN payment : Reverse(i)

Spec == Init /\ [][Next]_vars

-----------------------------------------------------------------------------
(* What must hold of proofs and payments.                                  *)

TypeOK ==
    /\ owed \in Nat
    /\ uploads \in 0 .. MaxUploads
    /\ stored \subseteq 1 .. uploads
    /\ DOMAIN proof \subseteq 1 .. uploads
    /\ \A id \in DOMAIN proof : proof[id] \in Proof
    /\ review \in [ProofId -> Seq(Status)]
    /\ payment \in Seq(Payment)
    /\ record \in [Key -> [amount: Amount \cup {None},
                           proof: ProofId \cup {None}]]
    /\ handler \in [Handler -> Serving]

\* docs: "a committed approval always has exactly one payment/ledger effect,
\* while rollback changes neither.  Rejection creates no financial entry"
\* (phase-4-operations.md:101-103).  Two staff members approve, reject and a
\* courier cancels at once, an approval is sent twice with other keys.
ApprovalIsOnePayment ==
    \A id \in DOMAIN proof :
        LET mine == {i \in DOMAIN payment : payment[i].proof = id} IN
        /\ proof[id].status \in approvedStatuses <=> mine # {}
        /\ \A i \in mine :
              /\ proof[id].payment = i
              /\ payment[i].amount = proof[id].approved
              /\ proof[id].approved <= proof[id].submitted
              /\ proof[id].status = "APPROVED"
                 <=> proof[id].approved = proof[id].submitted

\* Decisions are final: no later command, and no reversal of the payment,
\* changes a proof that was approved, rejected or cancelled, and the review
\* history tells every decision of the staff once, and no other.
DecisionsAreFinal ==
    /\ [](\A id \in ProofId :
            review[id] = IF id \in DOMAIN proof
                            /\ proof[id].status \in approvedStatuses \cup {"REJECTED"}
                         THEN <<proof[id].status>> ELSE <<>>)
    /\ [][\A id \in DOMAIN proof :
            proof[id].status # "PENDING_CONFIRMATION" => proof'[id] = proof[id]]_vars

\* Every proof's receipt can be read: the failing duplicate of a submission
\* deletes its own file only, at whichever step the two overtake each other.
ReceiptsAreKept == DOMAIN proof \subseteq stored

\* A key pays once: two requests that both found no recorded answer, or a
\* direct payment and an approval, never record two payments under one key, and
\* the recorded answer is about that payment.  Who is told that a payment was
\* recorded has one of that amount, under the key that was sent; who is told that
\* a proof was submitted or approved has one that is.
KeyPaysOnce ==
    /\ \A k \in Key :
          LET mine == {i \in DOMAIN payment : payment[i].key = k} IN
          IF record[k] = NoHash THEN mine = {}
          ELSE \E i \in mine : mine = {i} /\ hash(payment[i]) = record[k]
    /\ \A h \in Handler :
          LET r == handler[h].request IN
          /\ handler[h].answer = "paid" =>
                \E i \in DOMAIN payment :
                    payment[i].key = r.key /\ hash(payment[i]) = hash(r)
          /\ handler[h].answer = "submitted" => keyTaken(r.key)
          /\ handler[h].answer = "approved" =>
                proof[r.proof].status \in approvedStatuses

\* A receipt and a key each pay once.
PaidOnce == ApprovalIsOnePayment /\ KeyPaysOnce
=============================================================================
