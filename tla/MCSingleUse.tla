------------------------------ MODULE MCSingleUse ------------------------------
(***************************************************************************)
(* What can be had once: a session for a code or for a refresh token, and  *)
(* a payment for a receipt.  Sessions and PaymentProofs share no row, so   *)
(* each is run on its own: "wanted" says which.                            *)
(*                                                                         *)
(* Of sessions, there are a request that polls and the sign-out, two       *)
(* refreshes of one token, and two verifications of one challenge.  Of     *)
(* payments, there are two requests at a time: a submission or an approval *)
(* and its duplicate, two approvals, or an approval and a direct payment.  *)
(* The two refreshes stand for the two requests then, and the two          *)
(* verifications for the two keys.                                         *)
(***************************************************************************)
EXTENDS Sessions, TLC

CONSTANTS NoKey, Amount, Debt, MaxUploads, MaxPayments

VARIABLES wanted, owed, uploads, stored, proof, review, payment, record, handler

paymentVars == <<owed, uploads, stored, proof, review, payment, record, handler>>

Proofs == INSTANCE PaymentProofs WITH Handler <- Refresh, Key <- Verifier

ASSUME ProofsAssumption == Proofs!Assumptions

\* Refreshes are interchangeable, and so are verifications.
Symmetry == Permutations(Refresh) \cup Permutations(Verifier)

\* While only payments are wanted, one state of the account is enough.
WantedInit ==
    /\ Init /\ Proofs!Init
    /\ wanted \in {"session", "payment"}
    /\ wanted = "session" => owed = 0
    /\ wanted = "payment" => account = "ACTIVE"

WantedNext ==
    \/ wanted = "session" /\ Next /\ UNCHANGED <<wanted, paymentVars>>
    \/ wanted = "payment" /\ Proofs!Next /\ UNCHANGED <<wanted, vars>>

WantedSpec == WantedInit /\ [][WantedNext]_<<wanted, vars, paymentVars>>

\* Sessions and payments are well typed.
WantedTypeOK ==
    /\ wanted = "session" => TypeOK
    /\ wanted = "payment" => Proofs!TypeOK

\* A receipt is paid once.
PaidOnce == wanted = "payment" => Proofs!PaidOnce

\* The receipt of a proof that may yet be looked at is in the storage.
ReceiptsAreKept == wanted = "payment" => Proofs!ReceiptsAreKept

\* What has been revoked, decided or paid stays so.
DecisionsAreFinal == RevokedIsFinal /\ Proofs!DecisionsAreFinal
=============================================================================
