----------------------------- MODULE RequestsProofs -----------------------------
(***************************************************************************)
(* Proofs about the requests that MCRequests runs, for any couriers, keys  *)
(* and requests served at a time, any lifetime of a quote, and any bounds  *)
(* on versions, quotes and the clock.                                      *)
(*                                                                         *)
(* Couriers' requests for an order (CourierAcceptance) come first.  IInv   *)
(* ties three pieces of state together that the code writes in one         *)
(* transaction and reads in others: each commit used up the version it     *)
(* took, the idempotency records are exactly the commits, and an answer    *)
(* that speaks of having the order stems from a commit.                    *)
(*                                                                         *)
(* A merchant's requests (Quotes) follow.  QuotesInv says what each knows  *)
(* while it is served (QuoteServingOK), that the row lock of an order's    *)
(* transaction is what keeps its checks true until it commits (LockInv),   *)
(* and that keys, records and orders fit.  Both invariants together are    *)
(* about every run of MCRequests, as its steps are steps of one of the     *)
(* two.                                                                    *)
(***************************************************************************)
EXTENDS MCRequests, SequenceTheorems, TLAPS

\* A commit took the version its request named, which is over by now; another
\* commit took another version.
CommitInv ==
    /\ \A a \in accepted : a.version = a.request.version /\ a.version < order.version
    /\ \A a, b \in accepted : a.version = b.version => a = b

\* The records are the commits.
RecordInv ==
    \A r \in Request :
        recorded(r) = r.version <=> \E a \in accepted : a.request = r

\* Who has read, been told or is about to be told of an acceptance has one.
TakenInv ==
    \A h \in Handler :
        handler[h].step = "load" \/ handler[h].answer \in {"accepted", "not found"}
        => \E a \in accepted : a.request = handler[h].request

\* A request that failed has an error to tell.
ErrorInv ==
    \A h \in Handler :
        handler[h].step \in {"recover", "explain"} => handler[h].answer # "none"

\* The inductive invariant.
IInv == TypeOK /\ CommitInv /\ RecordInv /\ TakenInv /\ ErrorInv

-----------------------------------------------------------------------------
(* What becomes of one handler.                                            *)

\* There is a request that an idle handler can hold.
LEMMA IdleTyped ==
    Idle \in Serving /\ Idle.step = "idle" /\ Idle.answer = "none"
<1>1. \E r \in Request : TRUE
  <2>1. PICK c \in Courier, k \in Key : TRUE
    BY ClientAssumption
  <2>2. [courierId |-> c, key |-> k, version |-> 1] \in Request
    BY VersionAssumption DEF Request
  <2> QED
    BY <2>2
<1>2. (CHOOSE r \in Request : TRUE) \in Request
  BY <1>1
<1> QED
  BY <1>2 DEF Idle, Serving, Step

\* A step that only changes what one handler has come to.
LEMMA HandlerOnly ==
    ASSUME IInv, NEW h \in Handler, NEW new \in Serving,
           new.step \in {"recover", "explain", "answered"} => new.answer # "none",
           new.step = "load" \/ new.answer \in {"accepted", "not found"} =>
               \E a \in accepted : a.request = new.request,
           handler' = [handler EXCEPT ![h] = new],
           UNCHANGED <<order, eligible, member, record, accepted>>
    PROVE  IInv'
<1>1. /\ handler' \in [Handler -> Serving] /\ handler'[h] = new
      /\ \A g \in Handler \ {h} : handler'[g] = handler[g]
  BY DEF IInv, TypeOK
<1>2. TypeOK'
  BY <1>1 DEF IInv, TypeOK
<1>3. CommitInv' /\ RecordInv'
  BY DEF IInv, CommitInv, RecordInv, recorded
<1>4. TakenInv' /\ ErrorInv'
  BY <1>1 DEF IInv, TakenInv, ErrorInv
<1> QED
  BY <1>2, <1>3, <1>4 DEF IInv

\* A handler goes on to a step that claims nothing.
LEMMA GotoIInv ==
    ASSUME IInv, NEW h \in Handler, NEW step \in {"transaction", "explain"},
           Goto(h, step), UNCHANGED <<order, eligible, member, record, accepted>>,
           step = "explain" => handler[h].step = "recover"
    PROVE  IInv'
<1> DEFINE new == [handler[h] EXCEPT !.step = step]
<1>1. handler[h] \in Serving
  BY DEF IInv, TypeOK
<1>2. new \in Serving /\ new.step = step /\ new.answer = handler[h].answer
      /\ new.request = handler[h].request
  BY <1>1 DEF Serving, Step
<1>3. handler' = [handler EXCEPT ![h] = new]
  BY DEF Goto
<1> HIDE DEF new
<1>4. step = "explain" => handler[h].answer # "none"
  BY DEF IInv, ErrorInv
<1>5. handler[h].answer \in {"accepted", "not found"} =>
          \E a \in accepted : a.request = handler[h].request
  BY DEF IInv, TakenInv
<1> QED
  BY <1>2, <1>3, <1>4, <1>5, HandlerOnly

\* A handler answers, or has an error at hand; who speaks of an acceptance has
\* seen one.
LEMMA ReplyIInv ==
    ASSUME IInv, NEW h \in Handler, NEW answer \in Answer,
           Reply(h, answer) \/ Fail(h, answer),
           answer \in {"accepted", "not found"} =>
               \E a \in accepted : a.request = handler[h].request,
           UNCHANGED <<order, eligible, member, record, accepted>>
    PROVE  IInv'
<1>1. PICK step \in {"answered", "recover"} :
         handler' = [handler EXCEPT ![h].step = step, ![h].answer = answer]
  BY DEF Reply, Fail
<1> DEFINE new == [handler[h] EXCEPT !.step = step, !.answer = answer]
<1>2. handler[h] \in Serving /\ answer # "none"
  BY DEF IInv, TypeOK, Answer
<1>3. new \in Serving /\ new.step = step /\ new.answer = answer
      /\ new.request = handler[h].request
  BY <1>2 DEF Serving, Step
<1>4. handler' = [handler EXCEPT ![h] = new]
  BY <1>1
<1> HIDE DEF new
<1> QED
  BY <1>2, <1>3, <1>4, HandlerOnly

\* What a handler has come to afterwards.
LEMMA Outcome ==
    ASSUME TypeOK, NEW h \in Handler
    PROVE  /\ \A step : Goto(h, step) => handler'[h].step = step
           /\ \A answer : Reply(h, answer) => /\ handler'[h].step = "answered"
                                             /\ handler'[h].answer = answer
           /\ \A error : Fail(h, error) => /\ handler'[h].step = "recover"
                                           /\ handler'[h].answer = error
<1>1. handler \in [Handler -> Serving] /\ handler[h] \in Serving
  BY DEF TypeOK
<1> QED
  BY <1>1 DEF Goto, Reply, Fail, Serving

\* The refusals are answers.
LEMMA RefusalTyped ==
    ASSUME NEW r PROVE refusal(r) \in (Answer \ {"accepted", "not found"}) \cup {"none"}
BY DEF refusal, Answer

-----------------------------------------------------------------------------
(* One lemma per step that is more than an answer.                         *)

\* A request arrives with a version that there was.
LEMMA ReceiveIInv ==
    ASSUME IInv, NEW h \in Handler, NEW r \in Request, Receive(h, r) PROVE IInv'
<1> DEFINE new == [step |-> IF r.courierId \in eligible THEN "replay" ELSE "answered",
                   request |-> r,
                   answer |-> IF r.courierId \in eligible THEN "none"
                              ELSE "ineligible"]
<1>1. /\ handler' = [handler EXCEPT ![h] = new]
      /\ UNCHANGED <<order, eligible, member, record, accepted>>
  BY DEF Receive
<1>2. new \in Serving /\ new.step \in {"replay", "answered"}
      /\ new.answer \in {"none", "ineligible"}
      /\ (new.step = "answered" => new.answer # "none")
  BY DEF Serving, Step, Answer
<1> HIDE DEF new
<1> QED
  BY <1>1, <1>2, HandlerOnly

\* A record that answers a request is that request's own commit.
LEMMA ReplayIInv ==
    ASSUME IInv, NEW h \in Handler, Replay(h) \/ Recover(h) PROVE IInv'
<1> DEFINE r == handler[h].request
<1>1. r \in Request
  BY DEF IInv, TypeOK, Serving
<1>2. recorded(r) = r.version => \E a \in accepted : a.request = r
  BY <1>1 DEF IInv, RecordInv
<1>3. UNCHANGED <<order, eligible, member, record, accepted>>
  BY DEF Replay, Recover
<1>4. \/ Goto(h, "transaction")
      \/ Goto(h, "explain") /\ handler[h].step = "recover"
      \/ Reply(h, "key reused")
      \/ /\ recorded(r) = r.version
         /\ Reply(h, "accepted") \/ Reply(h, "not found")
  BY DEF Replay, Recover
<1>5. {"key reused", "accepted", "not found"} \subseteq Answer
  BY DEF Answer
<1> QED
  BY <1>2, <1>3, <1>4, <1>5, GotoIInv, ReplyIInv

\* The transaction that takes the order records its request with the version it
\* took, which nobody took before.
LEMMA TakeIInv ==
    ASSUME IInv, NEW h \in Handler, Take(h) PROVE IInv'
<1> DEFINE r == handler[h].request
           new == [handler[h] EXCEPT !.step = "load"]
           taken == [request |-> r, version |-> order.version]
<1>1. /\ handler[h] \in Serving /\ r \in Request /\ order \in OrderRow
      /\ record \in [Courier \X Key -> 0 .. MaxVersion]
  BY DEF IInv, TypeOK, Serving
<1>2. /\ recorded(r) \in {NoHash, r.version}
      /\ order.version = r.version
  BY DEF Take, refusal
<1>3. /\ order' = [order EXCEPT !.status = "COURIER_ASSIGNED",
                                !.courierId = r.courierId,
                                !.expired = TRUE,
                                !.version = @ + 1]
      /\ order.version < MaxVersion
      /\ record' = [record EXCEPT ![<<r.courierId, r.key>>] = r.version]
      /\ accepted' = accepted \cup {taken}
      /\ UNCHANGED <<eligible, member>>
  BY DEF Take
<1>4. handler' = [handler EXCEPT ![h] = new]
  BY DEF Take, Goto
<1>5. new \in Serving /\ new.step = "load" /\ new.request = r
  BY <1>1 DEF Serving, Step
<1> HIDE DEF new
<1>6. order' \in OrderRow /\ order'.version = order.version + 1
  <2>1. order.version + 1 \in 1 .. MaxVersion
    BY <1>1, <1>3, VersionAssumption DEF OrderRow
  <2>2. r.courierId \in Courier /\ "COURIER_ASSIGNED" \in Status
    BY <1>1 DEF Request, Status
  <2>3. order'.version = order.version + 1
    BY <1>1, <1>3 DEF OrderRow
  <2> HIDE DEF r
  <2> QED
    BY <1>1, <1>3, <2>1, <2>2, <2>3 DEF OrderRow
<1>7. TypeOK'
  <2>1. record' \in [Courier \X Key -> 0 .. MaxVersion]
    BY <1>1, <1>3 DEF Request
  <2>2. accepted' \subseteq [request: Request, version: 1 .. MaxVersion]
    BY <1>1, <1>3 DEF IInv, TypeOK, OrderRow
  <2>3. /\ handler' \in [Handler -> Serving]
        /\ \A g \in Handler :
               handler'[g].step = "answered" => handler'[g].answer # "none"
    BY <1>4, <1>5 DEF IInv, TypeOK
  <2> QED
    BY <1>3, <1>6, <2>1, <2>2, <2>3 DEF IInv, TypeOK
<1>8. CommitInv'
  <2>1. order.version \in Nat /\ \A a \in accepted : a.version < order.version
                                                  /\ a.version \in Nat
    BY <1>1, VersionAssumption DEF IInv, CommitInv, TypeOK, OrderRow
  <2>2. taken.version = order.version /\ taken.version = taken.request.version
    BY <1>2
  <2> HIDE DEF taken
  <2> QED
    BY <1>3, <1>6, <2>1, <2>2 DEF IInv, CommitInv
<1>9. RecordInv'
  <2> SUFFICES ASSUME NEW q \in Request
               PROVE  recorded(q)' = q.version <=>
                          \E a \in accepted' : a.request = q
    BY DEF RecordInv
  <2>1. recorded(q) = q.version <=> \E a \in accepted : a.request = q
    BY DEF IInv, RecordInv
  <2>2. taken.request = r
    OBVIOUS
  <2> HIDE DEF taken
  <2>3. (\E a \in accepted' : a.request = q) <=>
            q = r \/ \E a \in accepted : a.request = q
    BY <1>3, <2>2
  <2>4. CASE q.courierId # r.courierId \/ q.key # r.key
    <3>1. recorded(q)' = recorded(q)
      BY <1>1, <1>3, <2>4 DEF recorded, Request
    <3> QED
      BY <2>1, <2>3, <2>4, <3>1
  <2>5. CASE q.courierId = r.courierId /\ q.key = r.key
    <3>1. recorded(q)' = r.version /\ recorded(q) = recorded(r)
      BY <1>1, <1>3, <2>5 DEF recorded, Request
    <3>2. q = r <=> q.version = r.version
      BY <1>1, <2>5 DEF Request
    <3>3. recorded(q) = q.version => q.version = r.version
      BY <1>2, <3>1 DEF Request, NoHash
    <3> QED
      BY <2>1, <2>3, <3>1, <3>2, <3>3
  <2> QED
    BY <2>4, <2>5
<1>10. TakenInv' /\ ErrorInv'
  <2>1. taken.request = r /\ taken \in accepted' /\ accepted \subseteq accepted'
    BY <1>3
  <2>2. /\ handler'[h] = new
        /\ \A g \in Handler \ {h} : handler'[g] = handler[g]
    BY <1>4 DEF IInv, TypeOK
  <2> HIDE DEF taken
  <2> QED
    BY <1>5, <2>1, <2>2 DEF IInv, TakenInv, ErrorInv
<1> QED
  BY <1>7, <1>8, <1>9, <1>10 DEF IInv

\* Steps that answer, fail or explain.
LEMMA AnswerIInv ==
    ASSUME IInv, NEW h \in Handler,
           Refuse(h) \/ DatabaseFails(h) \/ LoadAssigned(h) \/ Explain(h)
    PROVE  IInv'
<1>1. UNCHANGED <<order, eligible, member, record, accepted>>
  BY DEF Refuse, DatabaseFails, LoadAssigned, Explain
<1>2. CASE Refuse(h)
  BY <1>1, <1>2, RefusalTyped, ReplyIInv DEF Refuse
<1>3. CASE DatabaseFails(h)
  BY <1>1, <1>3, ReplyIInv DEF DatabaseFails, Answer
<1>4. CASE LoadAssigned(h)
  <2>1. \E a \in accepted : a.request = handler[h].request
    BY <1>4 DEF LoadAssigned, IInv, TakenInv
  <2> QED
    BY <1>1, <1>4, <2>1, ReplyIInv DEF LoadAssigned, Answer
<1>5. CASE Explain(h)
  <2>1. handler[h] \in Serving /\ handler[h].answer # "none"
    BY <1>5 DEF Explain, IInv, ErrorInv, TypeOK
  <2>2. handler[h].answer \in Answer
    BY <2>1 DEF Serving
  <2>3. \/ Reply(h, "expired") \/ Reply(h, "taken")
        \/ Reply(h, handler[h].answer)
    BY <1>5 DEF Explain
  <2>4. handler[h].answer \in {"accepted", "not found"} =>
            \E a \in accepted : a.request = handler[h].request
    BY DEF IInv, TakenInv
  <2>5. {"expired", "taken"} \subseteq Answer
    BY DEF Answer
  <2> QED
    BY <1>1, <2>2, <2>3, <2>4, <2>5, ReplyIInv
<1> QED
  BY <1>2, <1>3, <1>4, <1>5

\* Steps of the others: the order's version never falls.
LEMMA OthersIInv ==
    ASSUME IInv, order' \in OrderRow, order'.version >= order.version,
           eligible' \subseteq Courier, member' \subseteq Courier,
           UNCHANGED <<record, handler, accepted>>
    PROVE  IInv'
<1>1. TypeOK'
  BY DEF IInv, TypeOK
<1>2. \A a \in accepted : a.version \in Nat
  BY VersionAssumption DEF IInv, TypeOK
<1>3. order.version \in Nat /\ order'.version \in Nat
  BY VersionAssumption DEF IInv, TypeOK, OrderRow
<1>4. CommitInv'
  BY <1>2, <1>3 DEF IInv, CommitInv
<1>5. RecordInv' /\ TakenInv' /\ ErrorInv'
  BY DEF IInv, RecordInv, recorded, TakenInv, ErrorInv
<1> QED
  BY <1>1, <1>4, <1>5 DEF IInv

\* Handing back, retrying, timing out and cancelling write the next version.
LEMMA ChangeIInv ==
    ASSUME IInv, NEW from, NEW to \in Status, Change(from, to) PROVE IInv'
<1> DEFINE expired == to # "SEARCHING_COURIER"
<1>1. /\ order' = [order EXCEPT !.status = to, !.version = @ + 1,
                                !.courierId = NoCourier, !.expired = expired]
      /\ order.version < MaxVersion
      /\ UNCHANGED <<eligible, member, record, handler, accepted>>
  BY DEF Change
<1>2. order \in OrderRow /\ expired \in BOOLEAN
  BY DEF IInv, TypeOK
<1> HIDE DEF expired
<1>3. order.version + 1 \in 1 .. MaxVersion /\ order.version \in Nat
  BY <1>1, <1>2, VersionAssumption DEF OrderRow
<1>4. order' \in OrderRow /\ order'.version = order.version + 1
  BY <1>1, <1>2, <1>3 DEF OrderRow
<1> QED
  BY <1>1, <1>3, <1>4, OthersIInv DEF IInv, TypeOK

-----------------------------------------------------------------------------

\* At the start nothing is recorded and nobody is served.
LEMMA InitIInv == Init => IInv
<1> SUFFICES ASSUME Init PROVE IInv
  OBVIOUS
<1>1. order \in OrderRow
  BY VersionAssumption DEF Init, OrderRow, Status
<1>2. TypeOK
  BY <1>1, IdleTyped, VersionAssumption DEF Init, TypeOK, NoHash
<1>3. CommitInv /\ TakenInv /\ ErrorInv
  BY IdleTyped DEF Init, CommitInv, TakenInv, ErrorInv
<1>4. RecordInv
  BY DEF Init, RecordInv, recorded, Request, NoHash
<1> QED
  BY <1>2, <1>3, <1>4 DEF IInv

\* IInv is inductive.
LEMMA NextIInv == IInv /\ [Next]_vars => IInv'
<1> SUFFICES ASSUME IInv, [Next]_vars PROVE IInv'
  OBVIOUS
<1>1. ASSUME NEW h \in Handler, NEW r \in Request, Receive(h, r) PROVE IInv'
  BY <1>1, ReceiveIInv
<1>2. ASSUME NEW h \in Handler, Serve(h) PROVE IInv'
  <2>1. CASE Done(h)
    BY <2>1, IdleTyped, HandlerOnly DEF Done
  <2> QED
    BY <1>2, <2>1, ReplayIInv, TakeIInv, AnswerIInv DEF Serve
<1>3. CASE HandBack \/ Retry \/ Expire \/ Cancel
  BY <1>3, ChangeIInv DEF HandBack, Retry, Expire, Cancel, Status
<1>4. CASE WindowEnds
  <2>1. order' = [order EXCEPT !.expired = TRUE] /\ order \in OrderRow
        /\ UNCHANGED <<eligible, member, record, handler, accepted>>
    BY <1>4 DEF WindowEnds, IInv, TypeOK
  <2>2. order' \in OrderRow /\ order'.version = order.version
    BY <2>1 DEF OrderRow
  <2>3. order'.version >= order.version
    BY <2>1, <2>2, VersionAssumption DEF OrderRow
  <2> QED
    BY <2>1, <2>2, <2>3, OthersIInv DEF IInv, TypeOK
<1>5. order \in OrderRow /\ order.version >= order.version
  BY VersionAssumption DEF IInv, TypeOK, OrderRow
<1>6. ASSUME NEW c \in Courier, EligibilityChanges(c) PROVE IInv'
  BY <1>5, <1>6, OthersIInv DEF EligibilityChanges, IInv, TypeOK
<1>7. ASSUME NEW c \in Courier, MembershipChanges(c) PROVE IInv'
  BY <1>5, <1>7, OthersIInv DEF MembershipChanges, IInv, TypeOK
<1>8. CASE UNCHANGED vars
  BY <1>5, <1>8, OthersIInv DEF vars, IInv, TypeOK
<1> QED
  BY <1>1, <1>2, <1>3, <1>4, <1>6, <1>7, <1>8 DEF Next

\* IInv holds in every reachable state.
LEMMA IInvAlways == Spec => []IInv
BY InitIInv, NextIInv, PTL DEF Spec

-----------------------------------------------------------------------------
(* The theorems.                                                           *)

\* The rows, records and requests keep their types.
THEOREM TypeCorrect == Spec => []TypeOK
<1>1. IInv => TypeOK
  BY DEF IInv
<1> QED
  BY <1>1, IInvAlways, PTL

\* One publication is taken at most once, and one request takes it at most once.
THEOREM FirstCourierWinsHolds == Spec => []FirstCourierWins
<1>1. IInv => FirstCourierWins
  BY DEF IInv, CommitInv, FirstCourierWins
<1> QED
  BY <1>1, IInvAlways, PTL

\* Who is told of an acceptance made it, a duplicate is answered like its twin,
\* and a loser is told of a conflict unless the database fails.
THEOREM AnswersAreTrueHolds == Spec => AnswersAreTrue
<1> DEFINE Told ==
      \A h \in Handler :
          handler[h].step = "answered"
          /\ handler[h].answer \in {"accepted", "not found"}
          => \E a \in accepted : a.request = handler[h].request
<1>1. IInv => Told
  BY DEF IInv, TakenInv
<1>2. ASSUME IInv, Next, NEW h \in Handler
      PROVE  duplicateAgrees(h) /\ loserGetsConflict(h)
  <2> DEFINE r == handler[h].request
  <2>1. /\ r \in Request /\ order \in OrderRow
        /\ handler \in [Handler -> Serving]
    BY <1>2 DEF IInv, TypeOK, Serving
  <2>2. \/ UNCHANGED handler
        \/ \E g \in Handler : Serve(g) \/ \E q \in Request : Receive(g, q)
    BY <1>2 DEF Next, HandBack, Retry, Expire, Cancel, Change, WindowEnds,
       EligibilityChanges, MembershipChanges
  <2>3. ASSUME NEW g \in Handler, g # h,
               Serve(g) \/ \E q \in Request : Receive(g, q)
        PROVE  handler'[h] = handler[h]
    BY <2>1, <2>3 DEF Serve, Replay, Take, Refuse, DatabaseFails, LoadAssigned,
       Recover, Explain, Done, Receive, Goto, Reply, Fail
  <2>4. ASSUME handler[h].step = "recover",
               \E a \in accepted : a.request = r,
               handler'[h].step \notin {"recover", "idle"}
        PROVE  /\ handler'[h].step = "answered"
               /\ handler'[h].answer \in {"accepted", "not found"}
    <3>1. Recover(h)
      BY <2>2, <2>3, <2>4, IdleTyped, <2>1 DEF Serve, Replay, Take, Refuse,
         DatabaseFails, LoadAssigned, Explain, Done, Receive
    <3>2. recorded(r) = r.version
      BY <1>2, <2>1, <2>4 DEF IInv, RecordInv
    <3> QED
      BY <1>2, <3>1, <3>2, Outcome DEF Recover, IInv
  <2>5. ASSUME handler[h].step = "transaction",
               \E a \in accepted : a.version = r.version
                                       /\ a.request.courierId # r.courierId,
               handler'[h].step = "recover",
               handler'[h].answer # "failure"
        PROVE  handler'[h].answer \in {"key reused", "taken", "expired", "changed"}
    <3>1. Refuse(h)
      <4>1. Take(h) \/ Refuse(h) \/ DatabaseFails(h) \/ Done(h)
        BY <2>2, <2>3, <2>5 DEF Serve, Replay, LoadAssigned, Recover, Explain,
           Receive
      <4>2. ~Take(h) /\ ~Done(h)
        BY <1>2, <2>1, <2>5, Outcome, IdleTyped DEF Take, Done, IInv
      <4>3. ~DatabaseFails(h)
        BY <1>2, <2>5, Outcome DEF DatabaseFails, IInv
      <4> QED
        BY <4>1, <4>2, <4>3
    <3>2. handler'[h].answer = refusal(r) /\ refusal(r) # "none"
      BY <2>1, <3>1 DEF Refuse, Fail
    <3>3. order.version # r.version
      <4>1. PICK a \in accepted : a.version = r.version
        BY <2>5
      <4>2. a.version < order.version /\ r.version \in Nat
            /\ order.version \in Nat
        BY <1>2, <2>1, VersionAssumption DEF IInv, CommitInv, Request, OrderRow
      <4> QED
        BY <4>1, <4>2
    <3> QED
      BY <3>2, <3>3 DEF refusal
  <2> QED
    BY <2>4, <2>5 DEF duplicateAgrees, loserGetsConflict
<1>3. IInv /\ [Next]_vars =>
        [\A h \in Handler : duplicateAgrees(h) /\ loserGetsConflict(h)]_vars
  BY <1>2
<1> QED
  BY <1>1, <1>3, IInvAlways, PTL DEF Spec, AnswersAreTrue

-----------------------------------------------------------------------------
(* The merchant's quotes.                                                  *)

\* The row q is the answer to a request r for a quote.
quoteAnswers(q, r) ==
    /\ q \in DOMAIN quote
    /\ r.kind \in {"create", "recalculate"} =>
          quote[q].key = r.key /\ quote[q].data = r.data

\* What is true of a request s being served.
QuoteServingOK(s) ==
    LET r == s.request IN
    /\ s \in Merchant!Serving
    /\ s.step = "answered" <=> s.answer # "none"
    /\ s.step \in {"lookup", "price"} => r.kind \in {"create", "recalculate"}
    /\ s.step \in {"replay", "order", "commit", "recover"} => r.kind = "order"
    /\ r.kind \in {"create", "recalculate", "order"} => r.key \in QuoteKey
    /\ r.kind = "create" => r.quote = Merchant!None
    /\ r.kind \in {"recalculate", "order"} => r.quote \in DOMAIN quote
    /\ r.kind = "order" => r.version # 0
    /\ s.step \in {"read", "expire"} =>
          /\ s.of \in DOMAIN quote
          /\ s.then = "lookup" => r.kind = "recalculate"
          /\ s.then = "answer" => quoteAnswers(s.of, r)
    /\ s.answer = "quote" => quoteAnswers(s.of, r)
    /\ s.answer = "ordered" => r.kind = "order" /\ r.quote \in ordered

\* The transaction that holds the row lock of a quote found it confirmable, and
\* no other has the lock.
LockInv ==
    \A h \in Handler :
        LET r == quoteHandler[h].request IN
        quoteHandler[h].step = "commit" =>
            /\ r.quote \notin ordered
            /\ quote[r.quote].status = "ACTIVE"
            /\ quote[r.quote].version = r.version
            /\ \A g \in Handler \ {h} :
                  quoteHandler[g].step = "commit" => quoteHandler[g].request.quote # r.quote

\* A key names one quote, and replacements replace earlier quotes.
KeysApart == \A q, s \in DOMAIN quote : quote[q].key = quote[s].key => q = s
OriginalsExist ==
    \A q \in DOMAIN quote : quote[q].supersedes \in DOMAIN quote \cup {Merchant!None}

\* A completed record speaks of an order.
QuoteRecordInv ==
    \A k \in QuoteKey :
        quoteRecord[k] # Merchant!NoHash => quoteRecord[k].quote \in ordered

\* The inductive invariant.
QuotesInv ==
    /\ Merchant!TypeOK
    /\ \A h \in Handler : QuoteServingOK(quoteHandler[h])
    /\ LockInv
    /\ KeysApart
    /\ OriginalsExist
    /\ QuoteRecordInv
    /\ Merchant!SpentOnce

quoteRows == <<now, quote, ordered, quoteRecord>>

-----------------------------------------------------------------------------
(* One request's progress.                                                 *)

LEMMA QuoteIdleOK == QuoteServingOK(Merchant!Idle) /\ Merchant!Idle.step = "idle"
BY DEF QuoteServingOK, Merchant!Idle, Merchant!NoRequest, Merchant!Serving,
   Merchant!Step, Merchant!Request, Merchant!Data, Merchant!None

\* Rows have ids within the bound.
LEMMA QuoteIds ==
    ASSUME Merchant!Assumptions, QuotesInv
    PROVE  /\ Len(quote) \in Nat /\ DOMAIN quote = 1 .. Len(quote)
           /\ DOMAIN quote \subseteq Merchant!QuoteId
           /\ Merchant!None \notin DOMAIN quote
           /\ \A q \in DOMAIN quote : quote[q] \in Merchant!Row
           /\ Len(quote) < MaxQuotes => Len(quote) + 1 \in Merchant!QuoteId
<1>1. quote \in Seq(Merchant!Row) /\ Len(quote) <= MaxQuotes
  BY DEF QuotesInv, Merchant!TypeOK
<1>2. Len(quote) \in Nat /\ DOMAIN quote = 1 .. Len(quote)
  BY <1>1
<1>3. MaxQuotes \in Nat
  BY DEF Merchant!Assumptions
<1>4. DOMAIN quote \subseteq Merchant!QuoteId /\ Merchant!None \notin DOMAIN quote
      /\ (Len(quote) < MaxQuotes => Len(quote) + 1 \in Merchant!QuoteId)
  BY <1>1, <1>2, <1>3 DEF Merchant!QuoteId, Merchant!None
<1>5. \A q \in DOMAIN quote : quote[q] \in Merchant!Row
  BY <1>1
<1> QED
  BY <1>2, <1>4, <1>5

\* Handler h comes to new, the others stay.
LEMMA Assign ==
    ASSUME QuotesInv, NEW h \in Handler, NEW new \in Merchant!Serving,
           quoteHandler' = [quoteHandler EXCEPT ![h] = new]
    PROVE  /\ quoteHandler'[h] = new
           /\ quoteHandler' \in [Handler -> Merchant!Serving]
           /\ \A g \in Handler \ {h} : quoteHandler'[g] = quoteHandler[g]
BY DEF QuotesInv, Merchant!TypeOK

LEMMA ReplyWith ==
    ASSUME QuotesInv, NEW h \in Handler, NEW answer, Merchant!Reply(h, answer)
    PROVE  quoteHandler' = [quoteHandler EXCEPT
                         ![h] = [quoteHandler[h] EXCEPT !.step = "answered",
                                                   !.answer = answer]]
BY DEF Merchant!Reply, QuotesInv, Merchant!TypeOK, Merchant!Serving

LEMMA GotoStep ==
    ASSUME QuotesInv, NEW h \in Handler, NEW step, Merchant!Goto(h, step)
    PROVE  quoteHandler' = [quoteHandler EXCEPT
                              ![h] = [quoteHandler[h] EXCEPT !.step = step]]
BY DEF Merchant!Goto, QuotesInv, Merchant!TypeOK, Merchant!Serving

\* A step that changes only what one request has come to, and takes no lock.
LEMMA QuoteHandlerOnly ==
    ASSUME QuotesInv, NEW h \in Handler, NEW new, QuoteServingOK(new), new.step # "commit",
           quoteHandler' = [quoteHandler EXCEPT ![h] = new], UNCHANGED quoteRows
    PROVE  QuotesInv'
<1>1. new \in Merchant!Serving
  BY DEF QuoteServingOK
<1>2. /\ quoteHandler'[h] = new /\ quoteHandler' \in [Handler -> Merchant!Serving]
      /\ \A g \in Handler \ {h} : quoteHandler'[g] = quoteHandler[g]
  BY <1>1, Assign
<1>3. UNCHANGED <<now, quote, ordered, quoteRecord>>
  BY DEF quoteRows
<1>4. \A g \in Handler : QuoteServingOK(quoteHandler[g])'
  BY <1>2, <1>3 DEF QuotesInv, QuoteServingOK, quoteAnswers
<1>5. Merchant!TypeOK'
  <2>1. \A g \in Handler :
           quoteHandler'[g].step = "answered" => quoteHandler'[g].answer # "none"
    BY <1>4 DEF QuoteServingOK
  <2> QED
    BY <1>2, <1>3, <2>1 DEF QuotesInv, Merchant!TypeOK
<1>6. LockInv'
  BY <1>2, <1>3 DEF QuotesInv, LockInv
<1>7. KeysApart' /\ OriginalsExist' /\ QuoteRecordInv' /\ Merchant!SpentOnce'
  BY <1>3 DEF QuotesInv, KeysApart, OriginalsExist, QuoteRecordInv,
     Merchant!SpentOnce
<1> QED
  BY <1>4, <1>5, <1>6, <1>7 DEF QuotesInv

\* A request ends: its answer is delivered, or its process died.
LEMMA EndKeeps ==
    ASSUME QuotesInv, NEW h \in Handler,
           quoteHandler' = [quoteHandler EXCEPT ![h] = Merchant!Idle],
           UNCHANGED quoteRows
    PROVE  QuotesInv'
BY QuoteIdleOK, QuoteHandlerOnly

\* An answer that is true of the rows.
LEMMA ReplyKeeps ==
    ASSUME QuotesInv, NEW h \in Handler, NEW answer \in {"quote", "ordered", "refused"},
           Merchant!Reply(h, answer), UNCHANGED quoteRows,
           answer = "quote" => quoteAnswers(quoteHandler[h].of, quoteHandler[h].request),
           answer = "ordered" => /\ quoteHandler[h].request.kind = "order"
                                 /\ quoteHandler[h].request.quote \in ordered
    PROVE  QuotesInv'
<1> DEFINE new == [quoteHandler[h] EXCEPT !.step = "answered", !.answer = answer]
<1>1. quoteHandler' = [quoteHandler EXCEPT ![h] = new]
  BY ReplyWith
<1>2. QuoteServingOK(quoteHandler[h])
  BY DEF QuotesInv
<1>3. /\ new.step = "answered" /\ new.answer = answer /\ new.of = quoteHandler[h].of
      /\ new.request = quoteHandler[h].request /\ new \in Merchant!Serving
  BY <1>2 DEF QuoteServingOK, Merchant!Serving, Merchant!Step
<1> HIDE DEF new
<1>4. QuoteServingOK(new)
  BY <1>2, <1>3 DEF QuoteServingOK
<1> QED
  BY <1>1, <1>3, <1>4, QuoteHandlerOnly

\* A request goes on to a step that needs nothing more than it knows.
LEMMA GotoKeeps ==
    ASSUME QuotesInv, NEW h \in Handler, NEW step, Merchant!Goto(h, step),
           UNCHANGED quoteRows,
           \/ quoteHandler[h].step = "read" /\ step = "expire"
           \/ quoteHandler[h].step = "lookup" /\ step = "price"
           \/ quoteHandler[h].step = "replay" /\ step = "order"
           \/ quoteHandler[h].step \in {"order", "commit"} /\ step = "recover"
    PROVE  QuotesInv'
<1> DEFINE new == [quoteHandler[h] EXCEPT !.step = step]
<1>1. quoteHandler' = [quoteHandler EXCEPT ![h] = new]
  BY GotoStep
<1>2. QuoteServingOK(quoteHandler[h])
  BY DEF QuotesInv
<1>3. /\ new.step = step /\ new.answer = quoteHandler[h].answer
      /\ new.of = quoteHandler[h].of /\ new.then = quoteHandler[h].then
      /\ new.request = quoteHandler[h].request /\ new \in Merchant!Serving
  BY <1>2 DEF QuoteServingOK, Merchant!Serving, Merchant!Step
<1> HIDE DEF new
<1>4. QuoteServingOK(new)
  BY <1>2, <1>3 DEF QuoteServingOK
<1> QED
  BY <1>1, <1>3, <1>4, QuoteHandlerOnly

\* A request for a quote reads the row that answers it.
LEMMA ReadBackKeeps ==
    ASSUME Merchant!Assumptions, QuotesInv, NEW h \in Handler, NEW q \in DOMAIN quote,
           Merchant!ReadBack(h, q), UNCHANGED quoteRows,
           quoteHandler[h].step \in {"lookup", "price"},
           quoteAnswers(q, quoteHandler[h].request)
    PROVE  QuotesInv'
<1> DEFINE new == [quoteHandler[h] EXCEPT !.step = "read", !.of = q, !.then = "answer"]
<1>1. QuoteServingOK(quoteHandler[h]) /\ q \in Merchant!QuoteId
  BY QuoteIds DEF QuotesInv
<1>2. quoteHandler' = [quoteHandler EXCEPT ![h] = new]
  BY <1>1 DEF Merchant!ReadBack, QuoteServingOK, Merchant!Serving, QuotesInv,
     Merchant!TypeOK
<1>3. /\ new.step = "read" /\ new.answer = quoteHandler[h].answer
      /\ new.of = q /\ new.then = "answer"
      /\ new.request = quoteHandler[h].request /\ new \in Merchant!Serving
  BY <1>1 DEF QuoteServingOK, Merchant!Serving, Merchant!Step
<1> HIDE DEF new
<1>4. QuoteServingOK(new)
  BY <1>1, <1>3 DEF QuoteServingOK
<1> QED
  BY <1>2, <1>3, <1>4, QuoteHandlerOnly

LEMMA ReceiveKeeps ==
    ASSUME Merchant!Assumptions, QuotesInv, NEW h \in Handler, Merchant!Receive(h)
    PROVE  QuotesInv'
<1>1. PICK r \in Merchant!incoming :
        quoteHandler' =
          [quoteHandler EXCEPT
             ![h] = [step |-> Merchant!entry[r.kind], request |-> r,
                     of |-> IF r.kind = "order" THEN Merchant!None ELSE r.quote,
                     then |-> IF r.kind = "recalculate" THEN "lookup" ELSE "answer",
                     answer |-> "none"]]
  BY DEF Merchant!Receive
<1> DEFINE new == [step |-> Merchant!entry[r.kind], request |-> r,
                   of |-> IF r.kind = "order" THEN Merchant!None ELSE r.quote,
                   then |-> IF r.kind = "recalculate" THEN "lookup" ELSE "answer",
                   answer |-> "none"]
<1>2. \A q \in DOMAIN quote : q \in Merchant!QuoteId /\ quote[q].version \in Nat
  BY QuoteIds DEF Merchant!Row
<1>3. /\ r \in Merchant!Request /\ r.kind \in {"create", "recalculate", "read", "order"}
      /\ r.kind # "read" => r.key \in QuoteKey
      /\ r.kind = "create" => r.quote = Merchant!None
      /\ r.kind # "create" => r.quote \in DOMAIN quote
      /\ r.kind = "order" => r.version # 0
  <2>1. CASE r \in [kind: {"create"}, key: QuoteKey, data: Merchant!Data,
                    quote: {Merchant!None},
                    version: {0}]
    BY <2>1 DEF Merchant!Request
  <2>2. CASE r \in [kind: {"read"}, key: {NoKey}, data: {"entered"},
                    quote: DOMAIN quote, version: {0}]
    BY <1>2, <2>2 DEF Merchant!Request, Merchant!Data
  <2>3. CASE r \in [kind: {"recalculate"}, key: QuoteKey, data: {"saved"},
                    quote: DOMAIN quote, version: {0}]
    BY <1>2, <2>3 DEF Merchant!Request, Merchant!Data
  <2>4. ASSUME NEW q \in DOMAIN quote,
               r \in [kind: {"order"}, key: QuoteKey, data: {"entered"}, quote: {q},
                      version: 1 .. quote[q].version]
        PROVE  /\ r \in Merchant!Request /\ r.kind = "order" /\ r.key \in QuoteKey
               /\ r.quote \in DOMAIN quote /\ r.version # 0
    BY <1>2, <2>4 DEF Merchant!Request, Merchant!Data
  <2> QED
    BY <2>1, <2>2, <2>3, <2>4 DEF Merchant!incoming
<1>4. /\ r.kind = "create" => new.step = "lookup"
      /\ r.kind \in {"read", "recalculate"} => new.step = "read"
      /\ r.kind = "order" => new.step = "replay"
  BY DEF Merchant!entry
<1>5. /\ new.request = r /\ new.answer = "none"
      /\ r.kind # "order" => new.of = r.quote
      /\ new.then = IF r.kind = "recalculate" THEN "lookup" ELSE "answer"
      /\ new.of \in Merchant!QuoteId \cup {Merchant!None}
  BY <1>2, <1>3
<1>6. new \in Merchant!Serving
  BY <1>3, <1>4, <1>5 DEF Merchant!Serving, Merchant!Step
<1> HIDE DEF new
<1>7. QuoteServingOK(new)
  BY <1>3, <1>4, <1>5, <1>6 DEF QuoteServingOK, quoteAnswers
<1>8. UNCHANGED quoteRows /\ quoteHandler' = [quoteHandler EXCEPT ![h] = new]
  BY <1>1 DEF Merchant!Receive, quoteRows, new
<1> QED
  BY <1>3, <1>4, <1>7, <1>8, QuoteHandlerOnly

\* Every key of a quote names the row that a request under it is answered with.
LEMMA KeyedAnswers ==
    ASSUME NEW r, NEW q \in Merchant!keyed(r.key), quote[q].data = r.data
    PROVE  quoteAnswers(q, r)
BY DEF Merchant!keyed, quoteAnswers

LEMMA LookupKeeps ==
    ASSUME Merchant!Assumptions, QuotesInv, NEW h \in Handler, Merchant!Lookup(h)
    PROVE  QuotesInv'
<1> DEFINE r == quoteHandler[h].request
<1>1. quoteHandler[h].step = "lookup" /\ UNCHANGED quoteRows
  BY DEF Merchant!Lookup, quoteRows
<1>2. CASE Merchant!Goto(h, "price")
  BY <1>1, <1>2, GotoKeeps
<1>3. CASE Merchant!Reply(h, "refused")
  BY <1>1, <1>3, ReplyKeeps
<1>4. ASSUME NEW q \in Merchant!keyed(r.key), quote[q].data = r.data, Merchant!ReadBack(h, q)
      PROVE  QuotesInv'
  <2>1. quoteAnswers(q, r) /\ q \in DOMAIN quote
    BY <1>4, KeyedAnswers DEF Merchant!keyed
  <2> QED
    BY <1>1, <1>4, <2>1, ReadBackKeeps
<1> QED
  BY <1>2, <1>3, <1>4 DEF Merchant!Lookup

LEMMA PricingFailsKeeps ==
    ASSUME Merchant!Assumptions, QuotesInv, NEW h \in Handler, Merchant!PricingFails(h)
    PROVE  QuotesInv'
<1> DEFINE r == quoteHandler[h].request
<1>1. quoteHandler[h].step = "price" /\ UNCHANGED quoteRows
  BY DEF Merchant!PricingFails, quoteRows
<1>2. CASE Merchant!Reply(h, "refused")
  BY <1>1, <1>2, ReplyKeeps
<1>3. ASSUME NEW q \in Merchant!keyed(r.key), quote[q].data = r.data, Merchant!ReadBack(h, q)
      PROVE  QuotesInv'
  <2>1. quoteAnswers(q, r) /\ q \in DOMAIN quote
    BY <1>3, KeyedAnswers DEF Merchant!keyed
  <2> QED
    BY <1>1, <1>3, <2>1, ReadBackKeeps
<1> QED
  BY <1>2, <1>3 DEF Merchant!PricingFails

\* What is recorded under the key of a confirmation is about an order.
LEMMA RecordedOrder ==
    ASSUME QuotesInv, NEW h \in Handler, quoteHandler[h].request.kind = "order",
           quoteRecord[quoteHandler[h].request.key] = Merchant!hash(quoteHandler[h].request)
    PROVE  quoteHandler[h].request.quote \in ordered
<1> DEFINE r == quoteHandler[h].request
<1>1. QuoteServingOK(quoteHandler[h])
  BY DEF QuotesInv
<1>2. r.key \in QuoteKey /\ r.version # 0
  BY <1>1 DEF QuoteServingOK
<1>3. Merchant!hash(r) # Merchant!NoHash /\ Merchant!hash(r).quote = r.quote
  BY <1>2 DEF Merchant!hash, Merchant!NoHash
<1> QED
  BY <1>2, <1>3 DEF QuotesInv, QuoteRecordInv

LEMMA ReplayKeeps ==
    ASSUME QuotesInv, NEW h \in Handler, Merchant!Replay(h)
    PROVE  QuotesInv'
<1> DEFINE r == quoteHandler[h].request
<1>1. quoteHandler[h].step = "replay" /\ UNCHANGED quoteRows
  BY DEF Merchant!Replay, quoteRows
<1>2. r.kind = "order"
  BY <1>1 DEF QuotesInv, QuoteServingOK
<1>3. CASE Merchant!Goto(h, "order")
  BY <1>1, <1>3, GotoKeeps
<1>4. CASE Merchant!Reply(h, "refused")
  BY <1>1, <1>4, ReplyKeeps
<1>5. CASE Merchant!Reply(h, "ordered") /\ quoteRecord[r.key] = Merchant!hash(r)
  BY <1>1, <1>2, <1>5, RecordedOrder, ReplyKeeps
<1> QED
  BY <1>3, <1>4, <1>5 DEF Merchant!Replay

LEMMA RecoverKeeps ==
    ASSUME QuotesInv, NEW h \in Handler, Merchant!Recover(h)
    PROVE  QuotesInv'
<1> DEFINE r == quoteHandler[h].request
<1>1. quoteHandler[h].step = "recover" /\ UNCHANGED quoteRows
  BY DEF Merchant!Recover, quoteRows
<1>2. r.kind = "order"
  BY <1>1 DEF QuotesInv, QuoteServingOK
<1>3. CASE Merchant!Reply(h, "refused")
  BY <1>1, <1>3, ReplyKeeps
<1>4. CASE Merchant!Reply(h, "ordered") /\ quoteRecord[r.key] = Merchant!hash(r)
  BY <1>1, <1>2, <1>4, RecordedOrder, ReplyKeeps
<1> QED
  BY <1>3, <1>4 DEF Merchant!Recover

\* What follows quote() without a write: the answer, a refusal, or the key.
LEMMA ContinueStep ==
    ASSUME QuotesInv, NEW h \in Handler, NEW status, Merchant!Continue(h, status),
           quoteHandler[h].step \in {"read", "expire"}
    PROVE  \E new \in Merchant!Serving :
             /\ quoteHandler' = [quoteHandler EXCEPT ![h] = new]
             /\ QuoteServingOK(new)
             /\ new.step # "commit" /\ new.request = quoteHandler[h].request
<1> DEFINE s == quoteHandler[h]
<1>1. QuoteServingOK(s) /\ s \in Merchant!Serving
  BY DEF QuotesInv, QuoteServingOK
<1>2. ASSUME NEW answer \in {"quote", "refused"}, Merchant!Reply(h, answer),
             answer = "quote" => s.then = "answer"
      PROVE  \E new \in Merchant!Serving :
               /\ quoteHandler' = [quoteHandler EXCEPT ![h] = new]
               /\ QuoteServingOK(new)
               /\ new.step # "commit" /\ new.request = s.request
  <2> DEFINE new == [s EXCEPT !.step = "answered", !.answer = answer]
  <2>1. quoteHandler' = [quoteHandler EXCEPT ![h] = new]
    BY <1>2, ReplyWith
  <2>2. /\ new.step = "answered" /\ new.answer = answer /\ new.of = s.of
        /\ new.request = s.request /\ new \in Merchant!Serving
    BY <1>1 DEF Merchant!Serving, Merchant!Step
  <2> HIDE DEF new
  <2>3. QuoteServingOK(new)
    BY <1>1, <1>2, <2>2 DEF QuoteServingOK
  <2> QED
    BY <2>1, <2>2, <2>3
<1>3. CASE s.then = "answer"
  BY <1>2, <1>3 DEF Merchant!Continue
<1>4. CASE s.then = "lookup" /\ status = "CONSUMED"
  BY <1>2, <1>4 DEF Merchant!Continue
<1>5. CASE s.then = "lookup" /\ status # "CONSUMED"
  <2> DEFINE new == [s EXCEPT !.step = "lookup", !.then = "answer"]
  <2>1. quoteHandler' = [quoteHandler EXCEPT ![h] = new]
    BY <1>1, <1>5 DEF Merchant!Continue, Merchant!Serving, QuotesInv,
       Merchant!TypeOK
  <2>2. /\ new.step = "lookup" /\ new.answer = s.answer /\ new.of = s.of
        /\ new.request = s.request /\ new \in Merchant!Serving
    BY <1>1 DEF Merchant!Serving, Merchant!Step
  <2> HIDE DEF new
  <2>3. QuoteServingOK(new)
    BY <1>1, <1>5, <2>2 DEF QuoteServingOK
  <2> QED
    BY <2>1, <2>2, <2>3
<1> QED
  BY <1>1, <1>3, <1>4, <1>5 DEF Merchant!Serving

LEMMA ReadKeeps ==
    ASSUME QuotesInv, NEW h \in Handler, Merchant!Read(h)
    PROVE  QuotesInv'
<1>1. quoteHandler[h].step = "read" /\ UNCHANGED quoteRows
  BY DEF Merchant!Read, quoteRows
<1>2. CASE Merchant!Goto(h, "expire")
  BY <1>1, <1>2, GotoKeeps
<1>3. CASE Merchant!Continue(h, quote[quoteHandler[h].of].status)
  BY <1>1, <1>3, ContinueStep, QuoteHandlerOnly
<1> QED
  BY <1>2, <1>3 DEF Merchant!Read

-----------------------------------------------------------------------------
(* Writes to the rows.                                                     *)

\* Rows only ever come, and keep what was asked for.
RowsGrow ==
    /\ DOMAIN quote \subseteq DOMAIN quote'
    /\ \A q \in DOMAIN quote :
          quote'[q].key = quote[q].key /\ quote'[q].data = quote[q].data
    /\ ordered \subseteq ordered'

\* What a request knows stays true while rows come.
LEMMA OtherServing ==
    ASSUME NEW s, QuoteServingOK(s), RowsGrow
    PROVE  QuoteServingOK(s)'
BY DEF QuoteServingOK, quoteAnswers, RowsGrow

\* A quote is written a new status.
written(q, status) == [quote EXCEPT ![q].status = status, ![q].version = @ + 1]

LEMMA Written ==
    ASSUME Merchant!Assumptions, QuotesInv, NEW q \in DOMAIN quote,
           NEW status \in Merchant!Status \ {"ACTIVE"}, NEW new,
           new = written(q, status)
    PROVE  /\ new \in Seq(Merchant!Row) /\ Len(new) = Len(quote)
           /\ DOMAIN new = DOMAIN quote
           /\ \A s \in DOMAIN quote \ {q} : new[s] = quote[s]
           /\ new[q].key = quote[q].key /\ new[q].data = quote[q].data
           /\ new[q].supersedes = quote[q].supersedes
           /\ new[q].status = status
<1> DEFINE row == [quote[q] EXCEPT !.status = status, !.version = @ + 1]
<1>1. /\ quote \in Seq(Merchant!Row) /\ q \in 1 .. Len(quote) /\ quote[q] \in Merchant!Row
  BY QuoteIds DEF QuotesInv, Merchant!TypeOK
<1>2. /\ row \in Merchant!Row /\ row.status = status /\ row.key = quote[q].key
      /\ row.data = quote[q].data /\ row.supersedes = quote[q].supersedes
  <2> DEFINE version == quote[q].version + 1
  <2>1. version \in Nat
    BY <1>1 DEF Merchant!Row
  <2> HIDE DEF version
  <2>2. row = [quote[q] EXCEPT !.status = status, !.version = version]
    BY DEF version
  <2> HIDE DEF row
  <2> QED
    BY <1>1, <2>1, <2>2 DEF Merchant!Row
<1>3. new = [quote EXCEPT ![q] = row]
  BY <1>1 DEF Merchant!Row, written
<1> HIDE DEF row
<1>4. /\ new \in Seq(Merchant!Row) /\ Len(new) = Len(quote)
      /\ \A j \in 1 .. Len(quote) : new[j] = IF j = q THEN row ELSE quote[j]
  <2>1. PICK r : r = row
    OBVIOUS
  <2>2. /\ new = [quote EXCEPT ![q] = r] /\ r \in Merchant!Row
        /\ quote \in Seq(Merchant!Row) /\ q \in 1 .. Len(quote)
    BY <1>1, <1>2, <1>3, <2>1
  <2>3. /\ new \in Seq(Merchant!Row) /\ Len(new) = Len(quote)
        /\ \A j \in 1 .. Len(quote) : new[j] = IF j = q THEN r ELSE quote[j]
    BY <2>2
  <2> QED
    BY <2>1, <2>3
<1>5. DOMAIN new = DOMAIN quote
  BY <1>1, <1>4
<1> QED
  BY <1>1, <1>2, <1>4, <1>5, QuoteIds

\* Every quote that has its order or its replacement stays spent when another
\* status is written than ACTIVE.
LEMMA WrittenKeeps ==
    ASSUME Merchant!Assumptions, QuotesInv, NEW q \in DOMAIN quote,
           NEW status \in Merchant!Status \ {"ACTIVE"},
           quote' = written(q, status),
           ordered' \in {ordered, ordered \cup {q}},
           status = "CONSUMED" => q \in ordered'
    PROVE  /\ quote' \in Seq(Merchant!Row) /\ Len(quote') = Len(quote)
           /\ DOMAIN quote' = DOMAIN quote
           /\ \A s \in DOMAIN quote \ {q} : quote'[s] = quote[s]
           /\ RowsGrow /\ KeysApart' /\ OriginalsExist' /\ Merchant!SpentOnce'
<1>1. /\ quote' \in Seq(Merchant!Row) /\ Len(quote') = Len(quote)
      /\ DOMAIN quote' = DOMAIN quote
      /\ \A s \in DOMAIN quote \ {q} : quote'[s] = quote[s]
      /\ quote'[q].key = quote[q].key /\ quote'[q].data = quote[q].data
      /\ quote'[q].supersedes = quote[q].supersedes
      /\ quote'[q].status = status
  <2>1. PICK new : new = quote'
    OBVIOUS
  <2>2. new = written(q, status)
    BY <2>1
  <2> QED
    BY <2>1, <2>2, Written
<1>2. \A s \in DOMAIN quote :
         /\ quote'[s].key = quote[s].key /\ quote'[s].data = quote[s].data
         /\ quote'[s].supersedes = quote[s].supersedes
         /\ quote'[s].status = IF s = q THEN status ELSE quote[s].status
  BY <1>1
<1>3. RowsGrow /\ KeysApart' /\ OriginalsExist'
  BY <1>1, <1>2 DEF RowsGrow, QuotesInv, KeysApart, OriginalsExist
<1>4. Merchant!SpentOnce'
  BY <1>1, <1>2 DEF QuotesInv, OriginalsExist, Merchant!SpentOnce
<1> QED
  BY <1>1, <1>3, <1>4

\* No transaction that holds the lock of another quote is touched by a write.
LEMMA LocksHold ==
    ASSUME QuotesInv, NEW h \in Handler, NEW q, quoteHandler'[h].step # "commit",
           \A g \in Handler \ {h} : quoteHandler'[g] = quoteHandler[g],
           \A g \in Handler \ {h} :
              quoteHandler[g].step = "commit" => quoteHandler[g].request.quote # q,
           \A s \in DOMAIN quote \ {q} : quote'[s] = quote[s],
           ordered' \in {ordered, ordered \cup {q}}
    PROVE  LockInv'
<1>1. \A g \in Handler : quoteHandler[g].step = "commit"
                          => quoteHandler[g].request.quote \in DOMAIN quote
  BY DEF QuotesInv, QuoteServingOK
<1> QED
  BY <1>1 DEF QuotesInv, LockInv

LEMMA ExpireKeeps ==
    ASSUME Merchant!Assumptions, QuotesInv, NEW h \in Handler, Merchant!Expire(h)
    PROVE  QuotesInv'
<1>0. PICK q : q = quoteHandler[h].of
  OBVIOUS
<1>1. /\ quoteHandler[h].step = "expire" /\ ~Merchant!locked(q)
      /\ Merchant!Continue(h, "EXPIRED")
      /\ quote' = written(q, "EXPIRED")
      /\ UNCHANGED <<now, ordered, quoteRecord>>
  BY <1>0 DEF Merchant!Expire, written
<1>2. q \in DOMAIN quote
  BY <1>0, <1>1 DEF QuotesInv, QuoteServingOK
<1>3. PICK new \in Merchant!Serving :
        /\ quoteHandler' = [quoteHandler EXCEPT ![h] = new]
        /\ QuoteServingOK(new)
        /\ new.step # "commit" /\ new.request = quoteHandler[h].request
  BY <1>1, ContinueStep
<1>4. /\ quoteHandler'[h] = new /\ quoteHandler' \in [Handler -> Merchant!Serving]
      /\ \A g \in Handler \ {h} : quoteHandler'[g] = quoteHandler[g]
  BY <1>3, Assign
<1>5. /\ quote' \in Seq(Merchant!Row) /\ Len(quote') = Len(quote)
      /\ DOMAIN quote' = DOMAIN quote
      /\ \A s \in DOMAIN quote \ {q} : quote'[s] = quote[s]
      /\ RowsGrow /\ KeysApart' /\ OriginalsExist' /\ Merchant!SpentOnce'
  BY <1>1, <1>2, WrittenKeeps DEF Merchant!Status
<1>6. \A g \in Handler : QuoteServingOK(quoteHandler[g])'
  <2>1. QuoteServingOK(new)'
    BY <1>3, <1>5, OtherServing
  <2>2. \A g \in Handler \ {h} : QuoteServingOK(quoteHandler[g])'
    <3> SUFFICES ASSUME NEW g \in Handler \ {h} PROVE QuoteServingOK(quoteHandler[g])'
      OBVIOUS
    <3>1. PICK s : s = quoteHandler[g]
      OBVIOUS
    <3>2. QuoteServingOK(s)
      BY <3>1 DEF QuotesInv
    <3>3. QuoteServingOK(s)'
      BY <1>5, <3>2, OtherServing
    <3> QED
      BY <1>4, <3>1, <3>3
  <2> QED
    BY <1>4, <2>1, <2>2
<1>7. LockInv'
  <2>1. \A g \in Handler \ {h} :
           quoteHandler[g].step = "commit" => quoteHandler[g].request.quote # q
    BY <1>1 DEF Merchant!locked
  <2>2. quoteHandler'[h].step # "commit" /\ ordered' = ordered
    BY <1>1, <1>3, <1>4
  <2> QED
    BY <1>4, <1>5, <2>1, <2>2, LocksHold
<1>8. Merchant!TypeOK'
  <2>1. \A g \in Handler :
           quoteHandler'[g].step = "answered" => quoteHandler'[g].answer # "none"
    BY <1>6 DEF QuoteServingOK
  <2> QED
    BY <1>1, <1>4, <1>5, <2>1 DEF QuotesInv, Merchant!TypeOK
<1>9. QuoteRecordInv'
  BY <1>1 DEF QuotesInv, QuoteRecordInv
<1> QED
  BY <1>5, <1>6, <1>7, <1>8, <1>9 DEF QuotesInv

LEMMA PriceQuoteKeeps ==
    ASSUME Merchant!Assumptions, QuotesInv, NEW h \in Handler, Merchant!PriceQuote(h)
    PROVE  QuotesInv'
<1>1. PICK r : r = quoteHandler[h].request
  OBVIOUS
<1>2. PICK n : n = Len(quote) + 1
  OBVIOUS
<1>3. /\ quoteHandler[h].step = "price" /\ Merchant!keyed(r.key) = {}
      /\ ~Merchant!locked(r.quote)
      /\ Len(quote) < MaxQuotes
      /\ quote' = Append(Merchant!replaced(r.quote), Merchant!newQuote(r))
      /\ Merchant!ReadBack(h, n) /\ UNCHANGED <<now, ordered, quoteRecord>>
  BY <1>1, <1>2 DEF Merchant!PriceQuote
<1>4. QuoteServingOK(quoteHandler[h])
  BY DEF QuotesInv
<1>5. /\ r \in Merchant!Request /\ r.kind \in {"create", "recalculate"} /\ r.key \in QuoteKey
      /\ r.quote \in DOMAIN quote \cup {Merchant!None}
  BY <1>1, <1>3, <1>4 DEF QuoteServingOK, Merchant!Serving
<1>6. /\ n \in Merchant!QuoteId /\ n \notin DOMAIN quote /\ n # Merchant!None
      /\ Len(quote) \in Nat /\ DOMAIN quote = 1 .. Len(quote)
  BY <1>2, <1>3, QuoteIds DEF Merchant!QuoteId, Merchant!None
\* The original, if there is one, is no longer ACTIVE.
<1>7. PICK mid : mid = Merchant!replaced(r.quote)
  OBVIOUS
<1>8. /\ mid \in Seq(Merchant!Row) /\ Len(mid) = Len(quote)
      /\ \A q \in DOMAIN quote :
            /\ mid[q].key = quote[q].key /\ mid[q].data = quote[q].data
            /\ mid[q].supersedes = quote[q].supersedes
            /\ mid[q].status \in {quote[q].status, "SUPERSEDED"}
            /\ q # r.quote => mid[q] = quote[q]
            /\ q = r.quote => mid[q].status # "ACTIVE"
            /\ quote[q].status # "ACTIVE" => mid[q].status # "ACTIVE"
            /\ mid[q].status = "CONSUMED" => quote[q].status = "CONSUMED"
  <2>1. CASE r.quote # Merchant!None /\ quote[r.quote].status \in {"ACTIVE", "EXPIRED"}
    <3>1. r.quote \in DOMAIN quote /\ "SUPERSEDED" \in Merchant!Status \ {"ACTIVE"}
      BY <1>5, <2>1 DEF Merchant!Status
    <3>2. mid = written(r.quote, "SUPERSEDED")
      BY <1>7, <2>1 DEF Merchant!replaced, written
    <3> QED
      BY <3>1, <3>2, Written
  <2>2. CASE ~(r.quote # Merchant!None /\ quote[r.quote].status \in {"ACTIVE", "EXPIRED"})
    <3>1. mid = quote
      BY <1>7, <2>2 DEF Merchant!replaced
    <3>2. \A q \in DOMAIN quote : q = r.quote => quote[q].status # "ACTIVE"
      BY <2>2, QuoteIds
    <3>3. quote \in Seq(Merchant!Row)
      BY DEF QuotesInv, Merchant!TypeOK
    <3> QED
      BY <3>1, <3>2, <3>3
  <2> QED
    BY <2>1, <2>2
<1>9. PICK row : row = Merchant!newQuote(r)
  OBVIOUS
<1>10. /\ row \in Merchant!Row /\ row.key = r.key /\ row.data = r.data
       /\ row.status = "ACTIVE" /\ row.supersedes = r.quote
  <2>1. now \in Nat /\ Ttl \in Nat /\ r.quote \in Merchant!QuoteId \cup {Merchant!None}
    BY <1>5, QuoteIds DEF Merchant!Assumptions, QuotesInv, Merchant!TypeOK
  <2>2. now + Ttl \in Nat /\ 1 \in Nat
    BY <2>1
  <2> QED
    BY <1>5, <1>9, <2>1, <2>2 DEF Merchant!newQuote, Merchant!Row, Merchant!Request,
       Merchant!Status
<1>11. quote' = Append(mid, row)
  BY <1>3, <1>7, <1>9
<1>12. /\ quote' \in Seq(Merchant!Row) /\ Len(quote') <= MaxQuotes
       /\ DOMAIN quote' = DOMAIN quote \cup {n} /\ quote'[n] = row
       /\ \A q \in DOMAIN quote : quote'[q] = mid[q]
  <2>1. /\ quote' \in Seq(Merchant!Row) /\ Len(quote') = Len(mid) + 1
        /\ \A q \in 1 .. Len(mid) : quote'[q] = mid[q]
        /\ quote'[Len(mid) + 1] = row
    BY <1>8, <1>10, <1>11, AppendProperties
  <2>2. MaxQuotes \in Nat
    BY DEF Merchant!Assumptions
  <2> QED
    BY <1>2, <1>3, <1>6, <1>8, <2>1, <2>2
<1>13. RowsGrow
  BY <1>3, <1>8, <1>12 DEF RowsGrow
<1>14. KeysApart'
  <2>1. \A q \in DOMAIN quote : quote[q].key # r.key
    BY <1>3 DEF Merchant!keyed
  <2> QED
    BY <1>8, <1>10, <1>12, <2>1 DEF QuotesInv, KeysApart
<1>15. OriginalsExist'
  BY <1>5, <1>8, <1>10, <1>12 DEF QuotesInv, OriginalsExist
<1>16. Merchant!SpentOnce'
  <2>1. n \notin ordered' /\ r.quote # n
    BY <1>3, <1>5, <1>6 DEF QuotesInv, Merchant!TypeOK
  <2>2. ASSUME NEW q \in DOMAIN quote
        PROVE  /\ q \in ordered' => quote'[q].status # "ACTIVE"
               /\ quote'[q].status = "CONSUMED" => q \in ordered'
               /\ quote'[q].supersedes # Merchant!None
                  => quote'[quote'[q].supersedes].status # "ACTIVE"
    <3>1. quote'[q] = mid[q] /\ mid[q].supersedes = quote[q].supersedes
          /\ quote[q].supersedes \in DOMAIN quote \cup {Merchant!None}
      BY <1>8, <1>12 DEF QuotesInv, OriginalsExist
    <3>2. (q \in ordered => quote[q].status # "ACTIVE")
          /\ (quote[q].status = "CONSUMED" => q \in ordered)
          /\ (quote[q].supersedes # Merchant!None
             => quote[quote[q].supersedes].status # "ACTIVE")
      BY DEF QuotesInv, Merchant!SpentOnce
    <3> QED
      BY <1>3, <1>8, <1>12, <3>1, <3>2
  <2>3. /\ quote'[n].status = "ACTIVE" /\ quote'[n].supersedes = r.quote
        /\ r.quote # Merchant!None => quote'[r.quote].status # "ACTIVE"
    BY <1>5, <1>8, <1>10, <1>12
  <2> QED
    BY <1>12, <2>1, <2>2, <2>3 DEF Merchant!SpentOnce
<1> DEFINE new == [quoteHandler[h] EXCEPT !.step = "read", !.of = n, !.then = "answer"]
<1>17. quoteHandler' = [quoteHandler EXCEPT ![h] = new]
  BY <1>3, <1>4 DEF Merchant!ReadBack, QuoteServingOK, Merchant!Serving, QuotesInv,
     Merchant!TypeOK
<1>18. /\ new.step = "read" /\ new.answer = quoteHandler[h].answer
       /\ new.of = n /\ new.then = "answer"
       /\ new.request = r /\ new \in Merchant!Serving
  BY <1>1, <1>4, <1>6 DEF QuoteServingOK, Merchant!Serving, Merchant!Step
<1> HIDE DEF new
<1>19. /\ quoteHandler'[h] = new /\ quoteHandler' \in [Handler -> Merchant!Serving]
       /\ \A g \in Handler \ {h} : quoteHandler'[g] = quoteHandler[g]
  BY <1>17, <1>18, Assign
<1>20. \A g \in Handler : QuoteServingOK(quoteHandler[g])'
  <2>1. QuoteServingOK(quoteHandler[h])'
    <3>1. quoteAnswers(n, r)'
      BY <1>10, <1>12 DEF quoteAnswers
    <3>2. r.quote \in DOMAIN quote => r.quote \in DOMAIN quote'
      BY <1>12
    <3> QED
      BY <1>1, <1>3, <1>4, <1>5, <1>12, <1>18, <1>19, <3>1, <3>2 DEF QuoteServingOK
  <2>2. ASSUME NEW g \in Handler \ {h} PROVE QuoteServingOK(quoteHandler[g])'
    <3>1. PICK s : s = quoteHandler[g]
      OBVIOUS
    <3>2. QuoteServingOK(s)
      BY <3>1 DEF QuotesInv
    <3>3. QuoteServingOK(s)'
      BY <1>13, <3>2, OtherServing
    <3> QED
      BY <1>19, <3>1, <3>3
  <2> QED
    BY <2>1, <2>2
<1>21. LockInv'
  <2>1. \A g \in Handler \ {h} :
           quoteHandler[g].step = "commit" => quoteHandler[g].request.quote # r.quote
    BY <1>3 DEF Merchant!locked
  <2>2. quoteHandler'[h].step # "commit" /\ ordered' = ordered
    BY <1>3, <1>18, <1>19
  <2>3. \A s \in DOMAIN quote \ {r.quote} : quote'[s] = quote[s]
    BY <1>8, <1>12
  <2>4. PICK q : q = r.quote
    OBVIOUS
  <2> QED
    BY <1>19, <2>1, <2>2, <2>3, <2>4, LocksHold
<1>22. Merchant!TypeOK'
  <2>1. \A g \in Handler :
           quoteHandler'[g].step = "answered" => quoteHandler'[g].answer # "none"
    BY <1>20 DEF QuoteServingOK
  <2> QED
    BY <1>3, <1>12, <1>19, <2>1 DEF QuotesInv, Merchant!TypeOK
<1>23. QuoteRecordInv'
  BY <1>3 DEF QuotesInv, QuoteRecordInv
<1> QED
  BY <1>14, <1>15, <1>16, <1>20, <1>21, <1>22, <1>23 DEF QuotesInv

-----------------------------------------------------------------------------
(* createOrder.                                                            *)

LEMMA OrderExistsKeeps ==
    ASSUME QuotesInv, NEW h \in Handler, Merchant!OrderExists(h)
    PROVE  QuotesInv'
<1>1. PICK r : r = quoteHandler[h].request
  OBVIOUS
<1>2. /\ quoteHandler[h].step = "order" /\ r.quote \in ordered
      /\ quoteRecord' = [quoteRecord EXCEPT ![r.key] = Merchant!hash(r)]
      /\ Merchant!Reply(h, "ordered") /\ UNCHANGED <<now, quote, ordered>>
  BY <1>1 DEF Merchant!OrderExists
<1>3. QuoteServingOK(quoteHandler[h])
  BY DEF QuotesInv
<1>4. r.kind = "order" /\ r.key \in QuoteKey /\ r \in Merchant!Request
  BY <1>1, <1>2, <1>3 DEF QuoteServingOK, Merchant!Serving
<1> DEFINE new == [quoteHandler[h] EXCEPT !.step = "answered", !.answer = "ordered"]
<1>5. quoteHandler' = [quoteHandler EXCEPT ![h] = new]
  BY <1>2, ReplyWith
<1>6. /\ new.step = "answered" /\ new.answer = "ordered" /\ new.of = quoteHandler[h].of
      /\ new.request = r /\ new \in Merchant!Serving
  BY <1>1, <1>3 DEF QuoteServingOK, Merchant!Serving, Merchant!Step
<1> HIDE DEF new
<1>7. /\ quoteHandler'[h] = new /\ quoteHandler' \in [Handler -> Merchant!Serving]
      /\ \A g \in Handler \ {h} : quoteHandler'[g] = quoteHandler[g]
  BY <1>5, <1>6, Assign
<1>8. QuoteServingOK(new)
  BY <1>1, <1>2, <1>3, <1>4, <1>6 DEF QuoteServingOK
<1>9. \A g \in Handler : QuoteServingOK(quoteHandler[g])'
  BY <1>2, <1>7, <1>8 DEF QuotesInv, QuoteServingOK, quoteAnswers
<1>10. /\ quoteRecord' \in [QuoteKey -> [quote: Merchant!QuoteId \cup {Merchant!None},
                                     version: Nat]]
       /\ quoteRecord'[r.key] = Merchant!hash(r) /\ Merchant!hash(r).quote = r.quote
       /\ \A k \in QuoteKey \ {r.key} : quoteRecord'[k] = quoteRecord[k]
  <2>1. Merchant!hash(r) \in [quote: Merchant!QuoteId \cup {Merchant!None}, version: Nat]
        /\ Merchant!hash(r).quote = r.quote
    BY <1>4 DEF Merchant!hash, Merchant!Request
  <2> QED
    BY <1>2, <1>4, <2>1 DEF QuotesInv, Merchant!TypeOK
<1>11. Merchant!TypeOK'
  <2>1. \A g \in Handler :
           quoteHandler'[g].step = "answered" => quoteHandler'[g].answer # "none"
    BY <1>9 DEF QuoteServingOK
  <2> QED
    BY <1>2, <1>7, <1>10, <2>1 DEF QuotesInv, Merchant!TypeOK
<1>12. LockInv'
  BY <1>2, <1>6, <1>7 DEF QuotesInv, LockInv
<1>13. QuoteRecordInv'
  BY <1>2, <1>10 DEF QuotesInv, QuoteRecordInv
<1>14. KeysApart' /\ OriginalsExist' /\ Merchant!SpentOnce'
  BY <1>2 DEF QuotesInv, KeysApart, OriginalsExist, Merchant!SpentOnce
<1> QED
  BY <1>9, <1>11, <1>12, <1>13, <1>14 DEF QuotesInv

\* The checks take the lock of a quote that no one else holds.
LEMMA CheckKeeps ==
    ASSUME QuotesInv, NEW h \in Handler, Merchant!Check(h)
    PROVE  QuotesInv'
<1>1. PICK r : r = quoteHandler[h].request
  OBVIOUS
<1>2. /\ quoteHandler[h].step = "order" /\ ~Merchant!locked(r.quote) /\ r.quote \notin ordered
      /\ quote[r.quote].status = "ACTIVE" /\ quote[r.quote].version = r.version
      /\ Merchant!Goto(h, "commit") /\ UNCHANGED <<now, quote, ordered, quoteRecord>>
  BY <1>1 DEF Merchant!Check, Merchant!claimed, Merchant!confirmable
<1>3. QuoteServingOK(quoteHandler[h])
  BY DEF QuotesInv
<1> DEFINE new == [quoteHandler[h] EXCEPT !.step = "commit"]
<1>4. quoteHandler' = [quoteHandler EXCEPT ![h] = new]
  BY <1>2, GotoStep
<1>5. /\ new.step = "commit" /\ new.answer = quoteHandler[h].answer
      /\ new.of = quoteHandler[h].of /\ new.then = quoteHandler[h].then
      /\ new.request = r /\ new \in Merchant!Serving
  BY <1>1, <1>3 DEF QuoteServingOK, Merchant!Serving, Merchant!Step
<1> HIDE DEF new
<1>6. /\ quoteHandler'[h] = new /\ quoteHandler' \in [Handler -> Merchant!Serving]
      /\ \A g \in Handler \ {h} : quoteHandler'[g] = quoteHandler[g]
  BY <1>4, <1>5, Assign
<1>7. QuoteServingOK(new)
  BY <1>1, <1>2, <1>3, <1>5 DEF QuoteServingOK
<1>8. \A g \in Handler : QuoteServingOK(quoteHandler[g])'
  BY <1>2, <1>6, <1>7 DEF QuotesInv, QuoteServingOK, quoteAnswers
<1>9. Merchant!TypeOK'
  <2>1. \A g \in Handler :
           quoteHandler'[g].step = "answered" => quoteHandler'[g].answer # "none"
    BY <1>8 DEF QuoteServingOK
  <2> QED
    BY <1>2, <1>6, <2>1 DEF QuotesInv, Merchant!TypeOK
<1>10. LockInv'
  <2>1. \A g \in Handler \ {h} :
           quoteHandler[g].step = "commit" => quoteHandler[g].request.quote # r.quote
    BY <1>2 DEF Merchant!locked
  <2> QED
    BY <1>2, <1>5, <1>6, <2>1 DEF QuotesInv, LockInv
<1>11. KeysApart' /\ OriginalsExist' /\ QuoteRecordInv' /\ Merchant!SpentOnce'
  BY <1>2 DEF QuotesInv, KeysApart, OriginalsExist, QuoteRecordInv,
     Merchant!SpentOnce
<1> QED
  BY <1>8, <1>9, <1>10, <1>11 DEF QuotesInv

LEMMA CommitKeeps ==
    ASSUME Merchant!Assumptions, QuotesInv, NEW h \in Handler, Merchant!Commit(h)
    PROVE  QuotesInv'
<1>1. PICK r : r = quoteHandler[h].request
  OBVIOUS
<1>2. PICK q : q = r.quote
  OBVIOUS
<1>3. /\ quoteHandler[h].step = "commit" /\ q \notin ordered
      /\ ordered' = ordered \cup {q} /\ quote' = written(q, "CONSUMED")
      /\ quoteRecord' = [quoteRecord EXCEPT ![r.key] = Merchant!hash(r)]
      /\ Merchant!Reply(h, "ordered") /\ UNCHANGED now
  BY <1>1, <1>2 DEF Merchant!Commit, written
<1>4. QuoteServingOK(quoteHandler[h])
  BY DEF QuotesInv
<1>5. r.kind = "order" /\ r.key \in QuoteKey /\ r \in Merchant!Request /\ q \in DOMAIN quote
  BY <1>1, <1>2, <1>3, <1>4 DEF QuoteServingOK, Merchant!Serving
<1>6. /\ quote' \in Seq(Merchant!Row) /\ Len(quote') = Len(quote)
      /\ DOMAIN quote' = DOMAIN quote
      /\ \A s \in DOMAIN quote \ {q} : quote'[s] = quote[s]
      /\ RowsGrow /\ KeysApart' /\ OriginalsExist' /\ Merchant!SpentOnce'
  <2>1. "CONSUMED" \in Merchant!Status \ {"ACTIVE"} /\ q \in ordered'
    BY <1>3 DEF Merchant!Status
  <2> QED
    BY <1>3, <1>5, <2>1, WrittenKeeps
<1> DEFINE new == [quoteHandler[h] EXCEPT !.step = "answered", !.answer = "ordered"]
<1>7. quoteHandler' = [quoteHandler EXCEPT ![h] = new]
  BY <1>3, ReplyWith
<1>8. /\ new.step = "answered" /\ new.answer = "ordered" /\ new.of = quoteHandler[h].of
      /\ new.request = r /\ new \in Merchant!Serving
  BY <1>1, <1>4 DEF QuoteServingOK, Merchant!Serving, Merchant!Step
<1> HIDE DEF new
<1>9. /\ quoteHandler'[h] = new /\ quoteHandler' \in [Handler -> Merchant!Serving]
      /\ \A g \in Handler \ {h} : quoteHandler'[g] = quoteHandler[g]
  BY <1>7, <1>8, Assign
<1>10. \A g \in Handler : QuoteServingOK(quoteHandler[g])'
  <2>1. QuoteServingOK(quoteHandler[h])'
    <3>1. q \in ordered' /\ q \in DOMAIN quote'
      BY <1>3, <1>5, <1>6
    <3> QED
      BY <1>1, <1>2, <1>3, <1>4, <1>5, <1>8, <1>9, <3>1 DEF QuoteServingOK
  <2>2. ASSUME NEW g \in Handler \ {h} PROVE QuoteServingOK(quoteHandler[g])'
    <3>1. PICK s : s = quoteHandler[g]
      OBVIOUS
    <3>2. QuoteServingOK(s)
      BY <3>1 DEF QuotesInv
    <3>3. QuoteServingOK(s)'
      BY <1>6, <3>2, OtherServing
    <3> QED
      BY <1>9, <3>1, <3>3
  <2> QED
    BY <2>1, <2>2
<1>11. LockInv'
  <2>1. \A g \in Handler \ {h} :
           quoteHandler[g].step = "commit" => quoteHandler[g].request.quote # q
    BY <1>1, <1>2, <1>3 DEF QuotesInv, LockInv
  <2>2. quoteHandler'[h].step # "commit"
    BY <1>8, <1>9
  <2> QED
    BY <1>3, <1>6, <1>9, <2>1, <2>2, LocksHold
<1>12. /\ quoteRecord' \in [QuoteKey -> [quote: Merchant!QuoteId \cup {Merchant!None},
                                     version: Nat]]
       /\ quoteRecord'[r.key] = Merchant!hash(r) /\ Merchant!hash(r).quote = q
       /\ \A k \in QuoteKey \ {r.key} : quoteRecord'[k] = quoteRecord[k]
  <2>1. Merchant!hash(r) \in [quote: Merchant!QuoteId \cup {Merchant!None}, version: Nat]
        /\ Merchant!hash(r).quote = q
    BY <1>2, <1>5 DEF Merchant!hash, Merchant!Request
  <2> QED
    BY <1>3, <1>5, <2>1 DEF QuotesInv, Merchant!TypeOK
<1>13. Merchant!TypeOK'
  <2>1. \A g \in Handler :
           quoteHandler'[g].step = "answered" => quoteHandler'[g].answer # "none"
    BY <1>10 DEF QuoteServingOK
  <2> QED
    BY <1>3, <1>5, <1>6, <1>9, <1>12, <2>1 DEF QuotesInv, Merchant!TypeOK
<1>14. QuoteRecordInv'
  BY <1>3, <1>12 DEF QuotesInv, QuoteRecordInv
<1> QED
  BY <1>6, <1>10, <1>11, <1>13, <1>14 DEF QuotesInv

LEMMA TickKeeps == ASSUME Merchant!Assumptions, QuotesInv, Merchant!Tick PROVE QuotesInv'
<1>1. now' = now + 1 /\ now < MaxTime
      /\ UNCHANGED <<quote, ordered, quoteRecord, quoteHandler>>
  BY DEF Merchant!Tick
<1>2. now' \in 0 .. MaxTime
  BY <1>1 DEF Merchant!Assumptions, QuotesInv, Merchant!TypeOK
<1> QED
  BY <1>1, <1>2 DEF QuotesInv, Merchant!TypeOK, QuoteServingOK, quoteAnswers,
     LockInv, KeysApart, OriginalsExist, QuoteRecordInv, Merchant!SpentOnce

-----------------------------------------------------------------------------
(* The specification.                                                      *)

LEMMA QuotesInitInv == ASSUME Merchant!Assumptions, Merchant!Init PROVE QuotesInv
<1>1. /\ now = 0 /\ quote = <<>> /\ ordered = {}
      /\ quoteRecord = [k \in QuoteKey |-> Merchant!NoHash]
      /\ quoteHandler = [h \in Handler |-> Merchant!Idle]
  BY DEF Merchant!Init
<1>2. /\ quote \in Seq(Merchant!Row) /\ Len(quote) = 0 /\ DOMAIN quote = {}
      /\ Len(quote) <= MaxQuotes
  BY <1>1 DEF Merchant!Assumptions
<1>3. /\ Merchant!Idle \in Merchant!Serving
      /\ Merchant!NoHash \in [quote: Merchant!QuoteId \cup {Merchant!None}, version: Nat]
  BY QuoteIdleOK DEF QuoteServingOK, Merchant!NoHash
<1>4. now \in 0 .. MaxTime
  BY <1>1 DEF Merchant!Assumptions
<1>5. Merchant!TypeOK
  BY <1>1, <1>2, <1>3, <1>4, QuoteIdleOK DEF Merchant!TypeOK
<1>6. (\A h \in Handler : QuoteServingOK(quoteHandler[h])) /\ LockInv
  BY <1>1, QuoteIdleOK DEF LockInv
<1>7. KeysApart /\ OriginalsExist /\ QuoteRecordInv /\ Merchant!SpentOnce
  BY <1>1, <1>2 DEF KeysApart, OriginalsExist, QuoteRecordInv, Merchant!SpentOnce
<1> QED
  BY <1>5, <1>6, <1>7 DEF QuotesInv

LEMMA QuotesNextInv ==
    ASSUME Merchant!Assumptions, QuotesInv, [Merchant!Next]_(Merchant!vars)
    PROVE  QuotesInv'
<1>1. ASSUME NEW h \in Handler, Merchant!Receive(h) PROVE QuotesInv'
  BY <1>1, ReceiveKeeps
<1>2. ASSUME NEW h \in Handler, Merchant!Read(h) PROVE QuotesInv'
  BY <1>2, ReadKeeps
<1>3. ASSUME NEW h \in Handler, Merchant!Expire(h) PROVE QuotesInv'
  BY <1>3, ExpireKeeps
<1>4. ASSUME NEW h \in Handler, Merchant!Lookup(h) PROVE QuotesInv'
  BY <1>4, LookupKeeps
<1>5. ASSUME NEW h \in Handler, Merchant!PriceQuote(h) PROVE QuotesInv'
  BY <1>5, PriceQuoteKeeps
<1>6. ASSUME NEW h \in Handler, Merchant!PricingFails(h) PROVE QuotesInv'
  BY <1>6, PricingFailsKeeps
<1>7. ASSUME NEW h \in Handler, Merchant!Replay(h) PROVE QuotesInv'
  BY <1>7, ReplayKeeps
<1>8. ASSUME NEW h \in Handler, Merchant!OrderExists(h) PROVE QuotesInv'
  BY <1>8, OrderExistsKeeps
<1>9. ASSUME NEW h \in Handler, Merchant!Check(h) PROVE QuotesInv'
  BY <1>9, CheckKeeps
<1>10. ASSUME NEW h \in Handler, Merchant!Commit(h) PROVE QuotesInv'
  BY <1>10, CommitKeeps
<1>11. ASSUME NEW h \in Handler, Merchant!OrderFails(h) PROVE QuotesInv'
  BY <1>11, GotoKeeps DEF Merchant!OrderFails, quoteRows
<1>12. ASSUME NEW h \in Handler, Merchant!Recover(h) PROVE QuotesInv'
  BY <1>12, RecoverKeeps
<1>13. ASSUME NEW h \in Handler, Merchant!Done(h) PROVE QuotesInv'
  BY <1>13, EndKeeps DEF Merchant!Done, quoteRows
<1>14. CASE Merchant!Tick
  BY <1>14, TickKeeps
<1>15. CASE UNCHANGED Merchant!vars
  BY <1>15 DEF Merchant!vars, QuotesInv, Merchant!TypeOK, QuoteServingOK,
     quoteAnswers, LockInv, KeysApart, OriginalsExist, QuoteRecordInv,
     Merchant!SpentOnce
<1> QED
  BY <1>1, <1>2, <1>3, <1>4, <1>5, <1>6, <1>7, <1>8, <1>9, <1>10, <1>11, <1>12,
     <1>13, <1>14, <1>15 DEF Merchant!Next

LEMMA QuotesInvAlways == Merchant!Spec => []QuotesInv
<1>1. Merchant!Init => QuotesInv
  BY QuotesAssumption, QuotesInitInv
<1>2. QuotesInv /\ [Merchant!Next]_(Merchant!vars) => QuotesInv'
  BY QuotesAssumption, QuotesNextInv
<1> QED
  BY <1>1, <1>2, PTL DEF Merchant!Spec

\* Every reachable state is well typed.
THEOREM QuotesTypeCorrect == Merchant!Spec => []Merchant!TypeOK
<1>1. QuotesInv => Merchant!TypeOK
  BY DEF QuotesInv
<1> QED
  BY <1>1, QuotesInvAlways, PTL

\* An order appears only when a transaction that holds the row lock commits.
LEMMA OrderedByCommit ==
    ASSUME QuotesInv, [Merchant!Next]_(Merchant!vars), NEW q \in ordered' \ ordered
    PROVE  /\ quote[q].status = "ACTIVE"
           /\ \E h \in Handler :
                 /\ quoteHandler[h].step = "commit"
                 /\ quoteHandler[h].request.quote = q
                 /\ quoteHandler[h].request.version = quote[q].version
<1>1. PICK h \in Handler : Merchant!Commit(h)
  <2>1. ordered' # ordered
    OBVIOUS
  <2>2. ASSUME NEW h \in Handler,
               \/ Merchant!Receive(h) \/ Merchant!Read(h) \/ Merchant!Expire(h)
               \/ Merchant!Lookup(h) \/ Merchant!PriceQuote(h)
               \/ Merchant!PricingFails(h) \/ Merchant!Replay(h)
               \/ Merchant!OrderExists(h) \/ Merchant!Check(h)
               \/ Merchant!OrderFails(h) \/ Merchant!Recover(h) \/ Merchant!Done(h)
        PROVE  FALSE
    BY <2>1, <2>2 DEF Merchant!Receive, Merchant!Read, Merchant!Expire,
       Merchant!Lookup, Merchant!PriceQuote, Merchant!PricingFails, Merchant!Replay,
       Merchant!OrderExists, Merchant!Check, Merchant!OrderFails, Merchant!Recover,
       Merchant!Done
  <2>3. ~Merchant!Tick /\ ~UNCHANGED Merchant!vars
    BY <2>1 DEF Merchant!Tick, Merchant!vars
  <2> QED
    BY <2>2, <2>3 DEF Merchant!Next
<1>2. quoteHandler[h].step = "commit" /\ quoteHandler[h].request.quote = q
  BY <1>1 DEF Merchant!Commit
<1> QED
  BY <1>2 DEF QuotesInv, LockInv

\* A quote that has its order or its replacement is never ACTIVE again, and an
\* order is committed from a quote that still is what the merchant reviewed, for
\* any interleaving of readers, recalculations and confirmations (createOrder).
THEOREM QuotesSpentAsReviewed == Merchant!Spec => Merchant!SpentAsReviewed
<1> DEFINE reviewed == \A q \in ordered' \ ordered :
                          /\ quote[q].status = "ACTIVE"
                          /\ \E h \in Handler :
                                /\ quoteHandler[h].step = "commit"
                                /\ quoteHandler[h].request.quote = q
                                /\ quoteHandler[h].request.version = quote[q].version
<1>1. QuotesInv => Merchant!SpentOnce
  BY DEF QuotesInv
<1>2. QuotesInv /\ [Merchant!Next]_(Merchant!vars) => [reviewed]_(Merchant!vars)
  BY OrderedByCommit
<1>3. Merchant!Spec => []Merchant!SpentOnce /\ [][reviewed]_(Merchant!vars)
  <2> HIDE DEF reviewed
  <2> QED
    BY <1>1, <1>2, QuotesInvAlways, PTL DEF Merchant!Spec
<1> QED
  BY <1>3 DEF Merchant!SpentAsReviewed, Merchant!OrderedAsReviewed

\* A key names one quote, a request for a quote is answered with the one it
\* describes, and who is told that the order exists confirmed its quote.
THEOREM QuotesAnswersAreTrue == Merchant!Spec => Merchant!AnswersAreTrue
<1> DEFINE apart == \A q, s \in DOMAIN quote :
                       quote[q].key = quote[s].key => q = s
           told == \A h \in Handler :
                      LET r == quoteHandler[h].request IN
                      /\ quoteHandler[h].answer = "quote"
                         /\ r.kind \in {"create", "recalculate"} =>
                            /\ quote[quoteHandler[h].of].key = r.key
                            /\ quote[quoteHandler[h].of].data = r.data
                      /\ quoteHandler[h].answer = "ordered" => r.quote \in ordered
<1>1. QuotesInv => apart /\ told
  BY DEF QuotesInv, KeysApart, QuoteServingOK, quoteAnswers
<1>2. Merchant!Spec => []apart /\ []told
  <2> HIDE DEF apart, told
  <2> QED
    BY <1>1, QuotesInvAlways, PTL
<1> QED
  BY <1>2 DEF Merchant!AnswersAreTrue

-----------------------------------------------------------------------------
(* Couriers' and merchants' requests.                                      *)

\* Of the two kinds of requests each does what its own specification allows,
\* whichever of them comes.
LEMMA EitherKind == RequestsSpec => Spec /\ Merchant!Spec
<1>1. RequestsInit => Init /\ Merchant!Init
  BY DEF RequestsInit
<1>2. [RequestsNext]_<<asked, vars, quoteVars>> =>
         [Next]_vars /\ [Merchant!Next]_(Merchant!vars)
  BY DEF RequestsNext, quoteVars, Merchant!vars
<1> QED
  BY <1>1, <1>2, PTL DEF RequestsSpec, Spec, Merchant!Spec

\* The rows, records and requests of both kinds keep their types.
THEOREM RequestsTypeCorrect == RequestsSpec => []RequestsTypeOK
BY EitherKind, TypeCorrect, QuotesTypeCorrect, PTL DEF RequestsTypeOK

\* Whoever is told that he has the order, the quote or the order confirmed has
\* it, and duplicates are answered alike (accept, createQuote, createOrder).
THEOREM RequestsAreAnsweredTrulyHolds == RequestsSpec => RequestsAreAnsweredTruly
BY EitherKind, AnswersAreTrueHolds, QuotesAnswersAreTrue DEF RequestsAreAnsweredTruly

\* An order is created from a quote that is spent once, and that still is what
\* the merchant reviewed (createOrder).
THEOREM SpentAsReviewedHolds == RequestsSpec => SpentAsReviewed
BY EitherKind, QuotesSpentAsReviewed DEF SpentAsReviewed
=============================================================================
