------------------------------ MODULE MCRequests ------------------------------
(***************************************************************************)
(* Two requests at a time, of couriers who race for one order or of a      *)
(* merchant who asks for quotes and confirms them.  The two kinds share no *)
(* row, so each is run on its own: "asked" says which.                     *)
(*                                                                         *)
(* Two requests are enough for two couriers, for a request and its         *)
(* duplicate, for two confirmations, and for a confirmation beside a       *)
(* recalculation or a read of the same quote; the order may be handed back *)
(* and published again between their steps.                                *)
(***************************************************************************)
EXTENDS CourierAcceptance, TLC

CONSTANTS QuoteKey, NoKey, Ttl, MaxTime, MaxQuotes

VARIABLES asked, now, quote, ordered, quoteRecord, quoteHandler

quoteVars == <<now, quote, ordered, quoteRecord, quoteHandler>>

Merchant == INSTANCE Quotes WITH Key <- QuoteKey, order <- ordered,
                                 record <- quoteRecord, handler <- quoteHandler

ASSUME QuotesAssumption == Merchant!Assumptions

\* Requests are alike, and so are a merchant's keys; a courier's key is not, as
\* Idle chooses one.
Symmetry == Permutations(Handler) \cup Permutations(QuoteKey)

\* While only merchants ask, one state of the couriers is enough.
RequestsInit ==
    /\ Init /\ Merchant!Init
    /\ asked \in {"courier", "merchant"}
    /\ asked = "merchant" => eligible = Courier /\ member = Courier

RequestsNext ==
    \/ asked = "courier" /\ Next /\ UNCHANGED <<asked, quoteVars>>
    \/ asked = "merchant" /\ Merchant!Next /\ UNCHANGED <<asked, vars>>

RequestsSpec == RequestsInit /\ [][RequestsNext]_<<asked, vars, quoteVars>>

\* The state of the couriers' and of the merchant's requests is well typed.
RequestsTypeOK == TypeOK /\ Merchant!TypeOK

\* Couriers and merchants are told what became of their requests: whoever is told
\* that he has the order, the quote or the order confirmed has it, and a duplicate
\* is answered like its twin.
RequestsAreAnsweredTruly == AnswersAreTrue /\ Merchant!AnswersAreTrue

\* A quote is spent once, and as it was reviewed.
SpentAsReviewed == Merchant!SpentAsReviewed
=============================================================================
