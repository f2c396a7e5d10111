---------------------------- MODULE SingleUseProofs ----------------------------
(***************************************************************************)
(* Proofs about Sessions, for any requests of the app, any refreshes and   *)
(* verifications, and any bounds on sessions and tokens; about             *)
(* PaymentProofs, for any keys, amounts and debt, any number of requests   *)
(* served at a time, and any bounds on uploads and payments; and about     *)
(* both kinds of things that MCSingleUse runs.                             *)
(*                                                                         *)
(* IInv says how tokens and sessions name each other (RowsOK), how far the *)
(* one challenge has been used (OtpInv), that a token which has been       *)
(* exchanged is nobody's current one (CredentialsWorkOnce with RowsOK),    *)
(* and that the token the app holds or renews is fresh, unless the app was *)
(* killed during that session (FreshInv).                                  *)
(*                                                                         *)
(* PaymentInv says what each request holds on to while it is served        *)
(* (ServingOK), that no two submissions hold on to one file, that a        *)
(* receipt is stored, reviewed and paid as its row tells, and that the     *)
(* records of idempotency keys and the payments are two views of the same  *)
(* commits.                                                                *)
(***************************************************************************)
EXTENDS MCSingleUse, SequenceTheorems, TLAPS

\* The session a token belongs to.
of(t) == issued[t].session

RequestOK ==
    /\ request \in [AppRequest -> [step: RequestStep, token: 0 .. newest]]
    /\ \A q \in AppRequest : request[q].step # "idle" => request[q].token # None

RowsOK ==
    /\ \A i \in DOMAIN issued :
          of(i) \in DOMAIN session /\ issued[i].for \in DOMAIN issued \cup {None}
    /\ \A s \in DOMAIN session :
          /\ session[s].current \in DOMAIN issued /\ of(session[s].current) = s
          /\ \A i \in DOMAIN issued : issued[i].for # session[s].current

\* The challenge's session is still to come, or has come; no other will.
OtpInv ==
    /\ \A v \in Verifier : verify[v] = "signed in" =>
          /\ challenge.consumed
          /\ \A w \in Verifier \ {v} : verify[w] # "signed in"
          /\ \A i \in DOMAIN issued : ~issued[i].otp
    /\ \A i \in DOMAIN issued : issued[i].otp => challenge.consumed

\* The refresh g that the app waits for is of session s.
renews(s) == \E g \in DOMAIN refresh : device.renewing = g /\ of(refresh[g].token) = s

\* A refresh that the app no longer waits for is of a session the app has left.
FreshInv ==
    /\ \A r \in DOMAIN refresh :
          LET s == of(refresh[r].token) IN
          s \notin device.killed =>
            /\ device.renewing = r =>
                  /\ session[s].previous # refresh[r].token
                  /\ refresh[r].step # "reuse"
            /\ device.renewing # r =>
                  /\ device.held # None => of(device.held) # s
                  /\ ~renews(s)
    /\ device.held # None /\ of(device.held) \notin device.killed
          /\ ~renews(of(device.held))
       => session[of(device.held)].previous # device.held

\* The inductive invariant.
IInv ==
    /\ TypeOK
    /\ RequestOK
    /\ RowsOK
    /\ OtpInv
    /\ CredentialsWorkOnce
    /\ FreshInv

-----------------------------------------------------------------------------
(* What steps leave alone.                                                 *)

\* No token is issued or exchanged; sessions may be revoked.
SameTokens ==
    /\ issued' = issued
    /\ session' \in Seq(Session)
    /\ Len(session') = Len(session) /\ DOMAIN session' = DOMAIN session
    /\ \A s \in DOMAIN session :
          /\ session'[s].current = session[s].current
          /\ session'[s].previous = session[s].previous

LEMMA Typed ==
    ASSUME IInv
    PROVE  /\ issued \in Seq(Pair) /\ session \in Seq(Session)
           /\ newest \in Nat /\ DOMAIN issued = 1 .. newest
           /\ Len(session) \in Nat /\ DOMAIN session = 1 .. Len(session)
           /\ \A s \in DOMAIN session : session[s] \in Session
           /\ \A i \in DOMAIN issued : issued[i] \in Pair
           /\ {MaxServing, MaxSessions, MaxTokens} \subseteq Nat
           /\ newest <= MaxTokens /\ Len(session) <= MaxSessions
<1>1. issued \in Seq(Pair) /\ session \in Seq(Session)
      /\ newest <= MaxTokens /\ Len(session) <= MaxSessions
  BY DEF IInv, TypeOK
<1>2. /\ newest \in Nat /\ DOMAIN issued = 1 .. newest
      /\ \A i \in DOMAIN issued : issued[i] \in Pair
  BY <1>1 DEF newest
<1>3. /\ Len(session) \in Nat /\ DOMAIN session = 1 .. Len(session)
      /\ \A s \in DOMAIN session : session[s] \in Session
  BY <1>1
<1> QED
  BY <1>1, <1>2, <1>3, BoundAssumption

\* What the refreshes and the device hold.
LEMMA AppTyped ==
    ASSUME IInv
    PROVE  /\ \A r \in DOMAIN refresh :
                 /\ refresh[r] \in [step: RefreshStep, token: DOMAIN issued]
                 /\ refresh[r].token \in DOMAIN issued
                 /\ of(refresh[r].token) \in DOMAIN session
           /\ device \in [held: 0 .. newest, renewing: DOMAIN refresh \cup {NoRefresh},
                          killed: SUBSET SessionId]
           /\ device.held # None => /\ device.held \in DOMAIN issued
                                   /\ of(device.held) \in DOMAIN session
<1>1. \A r \in DOMAIN refresh :
        refresh[r] \in [step: RefreshStep, token: DOMAIN issued]
  BY DEF IInv, TypeOK
<1>2. device \in [held: 0 .. newest, renewing: DOMAIN refresh \cup {NoRefresh},
                 killed: SUBSET SessionId]
  BY DEF IInv, TypeOK
<1>3. device.held # None => device.held \in DOMAIN issued
  BY <1>2, Typed DEF None
<1> QED
  BY <1>1, <1>2, <1>3 DEF IInv, RowsOK

LEMMA NextToken ==
    ASSUME IInv
    PROVE  /\ newest \in Nat /\ newest + 1 # None /\ newest + 1 \in 0 .. newest + 1
           /\ (0 .. newest) \subseteq (0 .. newest + 1)
<1>1. newest \in Nat
  BY Typed
<1> QED
  BY <1>1 DEF None

LEMMA SameSessions ==
    ASSUME IInv, UNCHANGED <<issued, session>>
    PROVE  SameTokens
BY Typed DEF SameTokens

LEMMA RowsKept ==
    ASSUME IInv, SameTokens
    PROVE  RowsOK' /\ CredentialsWorkOnce'
BY DEF IInv, SameTokens, RowsOK, CredentialsWorkOnce, of

LEMMA OtpKept ==
    ASSUME IInv, UNCHANGED <<issued, verify, challenge>>
    PROVE  OtpInv'
BY DEF IInv, OtpInv

\* Earlier tokens are as they were, and so is what their sessions had before.
KeptTokens ==
    /\ \A i \in DOMAIN issued : issued'[i] = issued[i]
    /\ \A s \in DOMAIN session : session'[s].previous = session[s].previous

\* The app keeps its tokens, or forgets them.
LEMMA FreshKept ==
    ASSUME IInv, KeptTokens, UNCHANGED refresh,
           device' \in {device, signedOut}
    PROVE  FreshInv'
<1>1. /\ device'.killed = device.killed /\ device'.renewing = device.renewing
      /\ device'.held \in {None, device.held}
  BY AppTyped DEF signedOut
<1>2. \A t \in DOMAIN issued : issued'[t].session = of(t)
  BY DEF KeptTokens, of
<1>3. \A s : renews(s)' <=> renews(s)
  BY <1>1, <1>2, AppTyped DEF renews, of
<1>4. \A r \in DOMAIN refresh :
         session'[of(refresh[r].token)].previous = session[of(refresh[r].token)].previous
  BY AppTyped DEF KeptTokens
<1>5. device.held # None =>
         session'[of(device.held)].previous = session[of(device.held)].previous
  BY AppTyped DEF KeptTokens
<1>6. /\ \A r \in DOMAIN refresh :
            issued'[refresh[r].token].session = of(refresh[r].token)
      /\ device.held # None => issued'[device.held].session = of(device.held)
  BY <1>2, AppTyped
<1> QED
  BY <1>1, <1>3, <1>4, <1>5, <1>6 DEF IInv, FreshInv, of

\* A step that writes neither tokens nor what the API is serving, and leaves the
\* app with tokens it had.
LEMMA QuietStep ==
    ASSUME IInv, SameTokens, UNCHANGED <<challenge, verify, refresh, signIn>>,
           account' \in {"PENDING", "ACTIVE", "SUSPENDED"},
           expired' \in 0 .. newest,
           device' \in {device, signedOut}, RequestOK'
    PROVE  IInv'
<1>1. RowsOK' /\ CredentialsWorkOnce' /\ OtpInv' /\ FreshInv'
  BY RowsKept, OtpKept, FreshKept DEF SameTokens, KeptTokens
<1>2. newest' = newest /\ DOMAIN issued' = DOMAIN issued
  BY DEF SameTokens, newest
<1>3. device' \in [held: 0 .. newest, renewing: DOMAIN refresh \cup {NoRefresh},
                  killed: SUBSET SessionId]
  BY AppTyped, Typed DEF signedOut, None
<1>4. TypeOK'
  <2>1. \A q \in AppRequest : request'[q] \in [step: RequestStep, token: 0 .. newest']
    BY DEF RequestOK
  <2> QED
    BY <1>2, <1>3, <2>1 DEF IInv, TypeOK, SameTokens
<1> QED
  BY <1>1, <1>4 DEF IInv

\* Requests that are over, or whose token is one the app holds.
LEMMA RequestStays ==
    ASSUME IInv, UNCHANGED <<issued, request>>
    PROVE  RequestOK'
BY DEF IInv, RequestOK, newest

LEMMA RequestIdle ==
    ASSUME IInv, NEW q \in AppRequest, request' = idle(q), UNCHANGED issued
    PROVE  RequestOK'
<1>1. newest' = newest /\ newest \in Nat
  BY Typed DEF newest
<1>2. [step |-> "idle", token |-> None] \in [step: RequestStep, token: 0 .. newest]
  BY <1>1 DEF RequestStep, None
<1> QED
  BY <1>1, <1>2 DEF IInv, RequestOK, idle

LEMMA RequestTries ==
    ASSUME IInv, NEW q \in AppRequest, NEW step \in RequestStep,
           device.held # None, UNCHANGED issued,
           request' = [request EXCEPT ![q] = [step |-> step, token |-> device.held]]
    PROVE  RequestOK'
<1>1. newest' = newest /\ device.held \in 0 .. newest
  BY AppTyped DEF newest
<1>2. [step |-> step, token |-> device.held] \in [step: RequestStep, token: 0 .. newest]
  BY <1>1
<1> QED
  BY <1>1, <1>2 DEF IInv, RequestOK

LEMMA RequestWaits ==
    ASSUME IInv, NEW q \in AppRequest, request[q].step # "idle", UNCHANGED issued,
           request' = [request EXCEPT ![q].step = "waiting"]
    PROVE  RequestOK'
<1>1. newest' = newest /\ request[q] \in [step: RequestStep, token: 0 .. newest]
  BY DEF IInv, RequestOK, newest
<1>2. /\ [request[q] EXCEPT !.step = "waiting"]
            \in [step: RequestStep, token: 0 .. newest]
      /\ [request[q] EXCEPT !.step = "waiting"].token = request[q].token
  BY <1>1 DEF RequestStep
<1>3. request' = [request EXCEPT ![q] = [request[q] EXCEPT !.step = "waiting"]]
  BY <1>1 DEF IInv, RequestOK
<1> QED
  BY <1>1, <1>2, <1>3 DEF IInv, RequestOK

\* Revoking one session or all of them exchanges no token.
LEMMA ReplacedRow ==
    ASSUME NEW rows \in Seq(Session), NEW s \in DOMAIN rows, NEW row \in Session
    PROVE  /\ [rows EXCEPT ![s] = row] \in Seq(Session)
           /\ Len([rows EXCEPT ![s] = row]) = Len(rows)
           /\ DOMAIN [rows EXCEPT ![s] = row] = DOMAIN rows
BY ExceptSeq

LEMMA RevokeOne ==
    ASSUME IInv, NEW s \in DOMAIN session, UNCHANGED issued,
           session' = [session EXCEPT ![s].revoked = TRUE]
    PROVE  SameTokens
<1>1. PICK row : row = [session[s] EXCEPT !.revoked = TRUE]
  OBVIOUS
<1>2. /\ row \in Session /\ row.current = session[s].current
      /\ row.previous = session[s].previous
  BY <1>1, Typed DEF Session
<1>3. session' = [session EXCEPT ![s] = row]
  BY <1>1
<1>4. PICK rows, rowsAfter : /\ rows = session /\ rows \in Seq(Session)
                            /\ rowsAfter = [rows EXCEPT ![s] = row]
                            /\ rowsAfter = session'
  BY <1>3, Typed
<1>6. /\ rowsAfter \in Seq(Session) /\ Len(rowsAfter) = Len(rows)
      /\ DOMAIN rowsAfter = DOMAIN rows
  BY <1>2, <1>4, ReplacedRow
<1>5. \A i \in DOMAIN session : session'[i] = IF i = s THEN row ELSE session[i]
  BY <1>3
<1> QED
  BY <1>2, <1>4, <1>5, <1>6 DEF SameTokens

LEMMA RevokeAll ==
    ASSUME IInv, UNCHANGED issued, revokeAll
    PROVE  SameTokens
<1>1. /\ session \in Seq(Session) /\ DOMAIN session = 1 .. Len(session)
      /\ Len(session) \in Nat
  BY Typed
<1>2. \A s \in DOMAIN session :
         /\ [session[s] EXCEPT !.revoked = TRUE] \in Session
         /\ [session[s] EXCEPT !.revoked = TRUE].current = session[s].current
         /\ [session[s] EXCEPT !.revoked = TRUE].previous = session[s].previous
  BY Typed DEF Session
<1>3. session' = [s \in 1 .. Len(session) |-> [session[s] EXCEPT !.revoked = TRUE]]
  BY <1>1 DEF revokeAll
<1>4. session' \in Seq(Session) /\ Len(session') = Len(session)
      /\ DOMAIN session' = DOMAIN session
  <2>1. \A s \in 1 .. Len(session) : session'[s] \in Session
    BY <1>1, <1>2, <1>3
  <2> QED
    BY <1>1, <1>3, <2>1
<1> QED
  BY <1>1, <1>2, <1>3, <1>4 DEF SameTokens

\* A new session with its first token.
LEMMA Created ==
    ASSUME IInv, NEW otp \in BOOLEAN, createSession(otp)
    PROVE  /\ issued' \in Seq(Pair) /\ newest' = newest + 1 /\ newest' <= MaxTokens
           /\ DOMAIN issued' = DOMAIN issued \cup {newest + 1}
           /\ newest + 1 \notin DOMAIN issued
           /\ \A i \in DOMAIN issued : issued'[i] = issued[i]
           /\ issued'[newest + 1].session = Len(session) + 1
           /\ issued'[newest + 1].for = None
           /\ issued'[newest + 1].otp = otp
           /\ session' \in Seq(Session) /\ Len(session') <= MaxSessions
           /\ DOMAIN session' = DOMAIN session \cup {Len(session) + 1}
           /\ Len(session) + 1 \notin DOMAIN session
           /\ \A s \in DOMAIN session : session'[s] = session[s]
           /\ session'[Len(session) + 1].previous = None
           /\ RowsOK'
<1>1. PICK n, m : n = newest + 1 /\ m = Len(session) + 1
  OBVIOUS
<1>2. PICK pair, row : /\ pair = [session |-> m, for |-> None, otp |-> otp]
                       /\ row = [current |-> n, previous |-> None, revoked |-> FALSE]
  OBVIOUS
<1>3. /\ Len(session) < MaxSessions /\ newest < MaxTokens
      /\ issued' = Append(issued, pair) /\ session' = Append(session, row)
  BY <1>1, <1>2 DEF createSession
<1>4. /\ n \in Token /\ m \in SessionId /\ n \notin DOMAIN issued /\ n # None
      /\ m \notin DOMAIN session /\ n <= MaxTokens /\ m <= MaxSessions
      /\ None \notin DOMAIN issued
  BY <1>1, <1>3, Typed DEF Token, SessionId, None
<1>5. pair \in Pair /\ row \in Session
  BY <1>2, <1>4 DEF Pair, Session
<1>6. /\ issued' \in Seq(Pair) /\ newest' = n /\ DOMAIN issued' = DOMAIN issued \cup {n}
      /\ (\A i \in DOMAIN issued : issued'[i] = issued[i]) /\ issued'[n] = pair
  <2>1. /\ issued' \in Seq(Pair) /\ Len(issued') = Len(issued) + 1
        /\ \A i \in 1 .. Len(issued) : issued'[i] = issued[i]
        /\ issued'[Len(issued) + 1] = pair
    BY <1>3, <1>5, Typed, AppendProperties
  <2> QED
    BY <1>1, <2>1, Typed DEF newest
<1>7. /\ session' \in Seq(Session) /\ Len(session') = m
      /\ DOMAIN session' = DOMAIN session \cup {m}
      /\ (\A s \in DOMAIN session : session'[s] = session[s]) /\ session'[m] = row
  <2>1. /\ session' \in Seq(Session) /\ Len(session') = Len(session) + 1
        /\ \A s \in 1 .. Len(session) : session'[s] = session[s]
        /\ session'[Len(session) + 1] = row
    BY <1>3, <1>5, Typed, AppendProperties
  <2> QED
    BY <1>1, <2>1, Typed
<1>8. /\ pair.session = m /\ pair.for = None /\ pair.otp = otp
      /\ row.current = n /\ row.previous = None
  BY <1>2
<1>9. RowsOK'
  BY <1>4, <1>6, <1>7, <1>8 DEF IInv, RowsOK, of
<1> QED
  BY <1>1, <1>4, <1>6, <1>7, <1>8, <1>9

-----------------------------------------------------------------------------
(* The app's steps, and those of administrators.                           *)

LEMMA AskKeeps == ASSUME IInv, NEW q \in AppRequest, ask(q) PROVE IInv'
<1>1. /\ device.held # None /\ UNCHANGED <<api, expired, serving, device>>
      /\ request' = [request EXCEPT ![q] = [step |-> "sent", token |-> device.held]]
  BY DEF ask
<1>2. RequestOK'
  BY <1>1, RequestTries DEF RequestStep, api
<1> QED
  BY <1>1, <1>2, SameSessions, QuietStep DEF api, serving, IInv, TypeOK

\* A request that is over leaves the app its tokens, unless it signed out.
LEMMA OverKeeps ==
    ASSUME IInv, NEW q \in AppRequest, over(q), SameTokens,
           UNCHANGED <<account, challenge, expired, serving>>
    PROVE  IInv'
<1>1. request' = idle(q) /\ device' \in {device, signedOut}
  BY DEF over
<1>2. RequestOK'
  BY <1>1, RequestIdle DEF SameTokens
<1> QED
  BY <1>1, <1>2, QuietStep DEF serving, IInv, TypeOK

LEMMA AnswerKeeps == ASSUME IInv, NEW q \in AppRequest, answer(q) PROVE IInv'
<1>1. PICK t : t = request[q].token
  OBVIOUS
<1>2. /\ over(q) /\ UNCHANGED <<account, issued, challenge, expired, serving>>
      /\ t > expired /\ flying(q)
      /\ session' = IF q = SignOut
                    THEN [session EXCEPT ![of(t)].revoked = TRUE] ELSE session
  BY <1>1 DEF answer, canActivate, of
<1>3. t \in DOMAIN issued
  <2>1. t \in 0 .. newest /\ t # None
    BY <1>1, <1>2 DEF IInv, RequestOK, flying
  <2> QED
    BY <2>1, Typed DEF None
<1>4. PICK s \in DOMAIN session : s = of(t)
  BY <1>3 DEF IInv, RowsOK
<1>5. SameTokens
  <2>1. CASE q = SignOut
    BY <1>2, <1>4, <2>1, RevokeOne
  <2>2. CASE q # SignOut
    BY <1>2, <2>2, SameSessions
  <2> QED
    BY <2>1, <2>2
<1> QED
  BY <1>2, <1>5, OverKeeps

LEMMA ConnectionFailsKeeps ==
    ASSUME IInv, NEW q \in AppRequest, connectionFails(q) PROVE IInv'
BY SameSessions, OverKeeps DEF connectionFails, api

LEMMA UnauthorizedAgainKeeps ==
    ASSUME IInv, NEW q \in AppRequest, unauthorizedAgain(q) PROVE IInv'
<1>1. /\ request' = idle(q) /\ device' = signedOut
      /\ UNCHANGED <<api, expired, serving>>
  BY DEF unauthorizedAgain
<1>2. RequestOK'
  BY <1>1, RequestIdle DEF api
<1> QED
  BY <1>1, <1>2, SameSessions, QuietStep DEF api, serving, IInv, TypeOK

LEMMA LogoutAllKeeps == ASSUME IInv, logoutAll PROVE IInv'
BY RevokeAll, RequestStays, QuietStep DEF logoutAll, serving, app, IInv, TypeOK

LEMMA UpdateUserStatusKeeps == ASSUME IInv, updateUserStatus PROVE IInv'
<1>1. /\ account' \in {"ACTIVE", "SUSPENDED"} /\ (session' = session \/ revokeAll)
      /\ UNCHANGED <<issued, challenge, expired, serving, app>>
  BY DEF updateUserStatus
<1>2. SameTokens
  BY <1>1, RevokeAll, SameSessions
<1> QED
  BY <1>1, <1>2, RequestStays, QuietStep DEF serving, app, IInv, TypeOK

LEMMA AccessTokenExpiresKeeps == ASSUME IInv, accessTokenExpires PROVE IInv'
<1>1. /\ expired < newest /\ expired' = expired + 1 /\ UNCHANGED <<api, serving, app>>
  BY DEF accessTokenExpires
<1>2. expired \in 0 .. newest /\ newest \in Nat
  BY Typed DEF IInv, TypeOK
<1>3. expired' \in 0 .. newest
  BY <1>1, <1>2
<1> QED
  BY <1>1, <1>3, SameSessions, RequestStays, QuietStep
     DEF api, serving, app, IInv, TypeOK

\* The app is killed: it waits for no refresh, and has left no session.
LEMMA RestoreKeeps == ASSUME IInv, restore PROVE IInv'
<1>1. /\ UNCHANGED <<issued, session, account, challenge, expired, verify, refresh>>
      /\ signIn' = "idle"
      /\ device' = [device EXCEPT !.renewing = NoRefresh,
                                  !.killed = @ \cup heldSession]
      /\ request' = [q \in AppRequest |-> [step |-> "idle", token |-> None]]
  BY DEF restore, api
<1>2. SameTokens /\ newest' = newest /\ newest \in Nat
  BY <1>1, SameSessions, Typed DEF newest
<1>3. PICK k : k = device.killed \cup heldSession
  OBVIOUS
<1>4. k \subseteq SessionId /\ (device.held # None => of(device.held) \in k)
  <2>1. device.held # None => of(device.held) \in SessionId
    BY AppTyped, Typed DEF SessionId
  <2> QED
    BY <1>3, <2>1, AppTyped DEF heldSession, of
<1>5. /\ device'.held = device.held /\ device'.renewing = NoRefresh
      /\ device'.killed = k
      /\ device' \in [held: 0 .. newest, renewing: DOMAIN refresh \cup {NoRefresh},
                      killed: SUBSET SessionId]
  BY <1>1, <1>3, <1>4, AppTyped
<1>6. RequestOK'
  <2>1. [step |-> "idle", token |-> None] \in [step: RequestStep, token: 0 .. newest]
    BY <1>2 DEF RequestStep, None
  <2> QED
    BY <1>1, <1>2, <2>1 DEF RequestOK
<1>7. TypeOK'
  <2>1. \A q \in AppRequest : request'[q] \in [step: RequestStep, token: 0 .. newest]
    BY <1>2, <1>6 DEF RequestOK
  <2> QED
    BY <1>1, <1>2, <1>5, <2>1 DEF IInv, TypeOK
<1>8. FreshInv'
  <2>1. NoRefresh \notin DOMAIN refresh
    BY RefreshAssumption DEF IInv, TypeOK, NoRefresh
  <2>2. \A s : ~renews(s)'
    BY <1>1, <1>5, <2>1 DEF renews
  <2> QED
    BY <1>1, <1>3, <1>4, <1>5, <2>1, <2>2 DEF FreshInv, of
<1> QED
  BY <1>1, <1>2, <1>6, <1>7, <1>8, RowsKept, OtpKept DEF IInv

-----------------------------------------------------------------------------
(* Signing in.                                                             *)

LEMMA Unissued ==
    ASSUME IInv, UNCHANGED <<issued, session, device>>
    PROVE  /\ SameTokens /\ KeptTokens /\ RowsOK' /\ CredentialsWorkOnce'
           /\ newest' = newest /\ DOMAIN issued' = DOMAIN issued
           /\ UNCHANGED refresh => FreshInv'
BY SameSessions, RowsKept, FreshKept DEF SameTokens, KeptTokens, newest

LEMMA CheckOtpKeeps == ASSUME IInv, NEW v \in Verifier, checkOtp(v) PROVE IInv'
<1>1. /\ UNCHANGED <<account, session, issued, expired, refresh, signIn, device, request>>
      /\ verify[v] = "idle" /\ challenge'.consumed = challenge.consumed
      /\ challenge' \in [consumed: BOOLEAN, valid: BOOLEAN]
      /\ \/ verify' = verify
         \/ \E step \in {"invited", "known"} : verify' = [verify EXCEPT ![v] = step]
  BY DEF checkOtp, app, IInv, TypeOK
<1>2. /\ verify' \in [Verifier -> {"idle", "invited", "known", "signed in"}]
      /\ \A w \in Verifier : verify'[w] = "signed in" <=> verify[w] = "signed in"
  BY <1>1 DEF IInv, TypeOK
<1>3. OtpInv'
  BY <1>1, <1>2 DEF IInv, OtpInv
<1>4. TypeOK'
  BY <1>1, <1>2, Unissued DEF IInv, TypeOK
<1> QED
  BY <1>1, <1>3, <1>4, Unissued, RequestStays DEF IInv

LEMMA ConsumeOtpKeeps == ASSUME IInv, NEW v \in Verifier, consumeOtp(v) PROVE IInv'
<1>1. /\ UNCHANGED <<session, issued, expired, refresh, signIn, device, request>>
      /\ verify[v] \in {"invited", "known"}
  BY DEF consumeOtp, app
<1>2. CASE /\ ~challenge.consumed /\ account' = "ACTIVE"
           /\ challenge' = [challenge EXCEPT !.consumed = TRUE]
           /\ verify' = [verify EXCEPT ![v] = "signed in"]
  <2>1. /\ verify' \in [Verifier -> {"idle", "invited", "known", "signed in"}]
        /\ challenge' \in [consumed: BOOLEAN, valid: BOOLEAN] /\ challenge'.consumed
        /\ \A w \in Verifier : verify'[w] = "signed in" =>
                                w = v \/ verify[w] = "signed in"
    BY <1>2 DEF IInv, TypeOK
  <2>2. OtpInv'
    BY <1>1, <1>2, <2>1 DEF IInv, OtpInv
  <2>3. TypeOK'
    BY <1>1, <1>2, <2>1, Unissued DEF IInv, TypeOK
  <2> QED
    BY <1>1, <2>2, <2>3, Unissued, RequestStays DEF IInv
<1>3. CASE verify' = [verify EXCEPT ![v] = "idle"] /\ UNCHANGED <<challenge, account>>
  <2>1. /\ verify' \in [Verifier -> {"idle", "invited", "known", "signed in"}]
        /\ \A w \in Verifier : verify'[w] = "signed in" => verify[w] = "signed in"
    BY <1>3 DEF IInv, TypeOK
  <2>2. OtpInv'
    BY <1>1, <1>3, <2>1 DEF IInv, OtpInv
  <2>3. TypeOK'
    BY <1>1, <1>3, <2>1, Unissued DEF IInv, TypeOK
  <2> QED
    BY <1>1, <2>2, <2>3, Unissued, RequestStays DEF IInv
<1> QED
  BY <1>2, <1>3 DEF consumeOtp, unused

LEMMA SignInStartsKeeps == ASSUME IInv, signInStarts PROVE IInv'
<1>1. /\ UNCHANGED <<account, session, issued, challenge, expired, verify, refresh,
                     device, request>>
      /\ signIn' = "read"
  BY DEF signInStarts, api, app
<1>2. TypeOK'
  BY <1>1, Unissued DEF IInv, TypeOK
<1> QED
  BY <1>1, <1>2, Unissued, RequestStays, OtpKept DEF IInv

\* The app is given the first token n of a new session m.
LEMMA FreshHeld ==
    ASSUME IInv, NEW n, NEW m, n # None, UNCHANGED refresh,
           device'.renewing = device.renewing, device'.killed = device.killed,
           device'.held = n, issued'[n].session = m, session'[m].previous = None,
           \A r \in DOMAIN refresh :
              /\ issued'[refresh[r].token].session = of(refresh[r].token)
              /\ of(refresh[r].token) # m
              /\ session'[of(refresh[r].token)] = session[of(refresh[r].token)]
    PROVE  FreshInv'
<1>1. \A s : renews(s)' <=> renews(s)
  BY DEF renews, of
<1>2. \A r \in DOMAIN refresh :
         LET s == of(refresh[r].token) IN
         s \notin device.killed =>
           /\ device.renewing = r =>
                 session[s].previous # refresh[r].token /\ refresh[r].step # "reuse"
           /\ device.renewing # r => ~renews(s)
  BY DEF IInv, FreshInv
<1> QED
  BY <1>1, <1>2 DEF FreshInv, of

\* The app with the token t.
holding(t) == [device EXCEPT !.held = t]

\* A session created for the challenge is the first one created for it.
LEMMA NewSessionKeeps ==
    ASSUME IInv, NEW otp \in BOOLEAN, createSession(otp),
           otp => /\ \A i \in DOMAIN issued : ~issued[i].otp
                  /\ challenge.consumed /\ \A w \in Verifier : verify'[w] # "signed in",
           verify' \in [Verifier -> {"idle", "invited", "known", "signed in"}],
           \A w \in Verifier : verify'[w] = "signed in" => verify[w] = "signed in",
           signIn' \in {"idle", "read"},
           device' \in {device, holding(newest + 1)},
           UNCHANGED <<account, challenge, expired, refresh, request>>
    PROVE  IInv'
<1>1. PICK n, m : n = newest + 1 /\ m = Len(session) + 1
  OBVIOUS
<1>2. /\ issued' \in Seq(Pair) /\ newest' = n /\ newest' <= MaxTokens
      /\ DOMAIN issued' = DOMAIN issued \cup {n} /\ n \notin DOMAIN issued
      /\ \A i \in DOMAIN issued : issued'[i] = issued[i]
      /\ issued'[n].session = m /\ issued'[n].for = None /\ issued'[n].otp = otp
  BY <1>1, Created
<1>3. /\ session' \in Seq(Session) /\ Len(session') <= MaxSessions
      /\ DOMAIN session' = DOMAIN session \cup {m} /\ m \notin DOMAIN session
      /\ \A s \in DOMAIN session : session'[s] = session[s]
      /\ session'[m].previous = None
  BY <1>1, Created
<1>4. /\ newest \in Nat /\ n = newest + 1 /\ n # None
      /\ (0 .. newest) \subseteq (0 .. newest') /\ n \in 0 .. newest'
  <2>1. n # None /\ n \in 0 .. n /\ newest \in Nat /\ (0 .. newest) \subseteq (0 .. n)
    BY <1>1, NextToken
  <2>2. newest' = n /\ n = newest + 1
    BY <1>1, <1>2
  <2> QED
    BY <2>1, <2>2
<1>5. /\ device'.renewing = device.renewing /\ device'.killed = device.killed
      /\ device'.held \in {device.held, n}
      /\ device' \in [held: 0 .. newest', renewing: DOMAIN refresh' \cup {NoRefresh},
                      killed: SUBSET SessionId]
  BY <1>1, <1>4, AppTyped DEF holding
<1>6. CredentialsWorkOnce'
  <2> SUFFICES ASSUME NEW i \in DOMAIN issued', NEW j \in DOMAIN issued', i # j
               PROVE  /\ issued'[i].for = issued'[j].for => issued'[i].for = None
                      /\ ~(issued'[i].otp /\ issued'[j].otp)
    BY DEF CredentialsWorkOnce
  <2>1. CASE i = n \/ j = n
    BY <1>2, <2>1
  <2>2. CASE i # n /\ j # n
    <3>1. /\ i \in DOMAIN issued /\ j \in DOMAIN issued
          /\ issued'[i] = issued[i] /\ issued'[j] = issued[j]
      BY <1>2, <2>2
    <3> QED
      BY <3>1 DEF IInv, CredentialsWorkOnce
  <2> QED
    BY <2>1, <2>2
<1>7. OtpInv'
  BY <1>2 DEF IInv, OtpInv
<1>8. RequestOK'
  BY <1>4 DEF IInv, RequestOK
<1>9. TypeOK'
  <2>1. \A r \in DOMAIN refresh' :
           refresh'[r] \in [step: RefreshStep, token: DOMAIN issued']
    BY <1>2, AppTyped
  <2>2. expired' \in 0 .. newest'
    BY <1>4 DEF IInv, TypeOK
  <2>3. \A q \in AppRequest : request'[q] \in [step: RequestStep, token: 0 .. newest']
    BY <1>8 DEF RequestOK
  <2> QED
    BY <1>2, <1>3, <1>5, <2>1, <2>2, <2>3 DEF IInv, TypeOK
<1>10. FreshInv'
  <2>1. CASE device' = device
    BY <1>2, <1>3, <2>1, FreshKept DEF KeptTokens
  <2>2. CASE device'.held = n
    <3>1. \A r \in DOMAIN refresh :
             /\ issued'[refresh[r].token].session = of(refresh[r].token)
             /\ of(refresh[r].token) # m
             /\ session'[of(refresh[r].token)] = session[of(refresh[r].token)]
      BY <1>2, <1>3, AppTyped DEF of
    <3>2. issued'[n].session = m /\ session'[m].previous = None /\ n # None
      BY <1>2, <1>3, <1>4
    <3>3. device'.renewing = device.renewing /\ device'.killed = device.killed
      BY <1>5
    <3>4. UNCHANGED refresh
      OBVIOUS
    <3> HIDE DEF createSession, holding
    <3> QED
      BY <2>2, <3>1, <3>2, <3>3, <3>4, FreshHeld
  <2> QED
    BY <1>1, <2>1, <2>2, AppTyped DEF holding
<1> QED
  BY <1>6, <1>7, <1>8, <1>9, <1>10, Created DEF IInv

LEMMA VerifyOtpKeeps == ASSUME IInv, NEW v \in Verifier, verifyOtp(v) PROVE IInv'
<1>1. /\ verify[v] = "signed in" /\ verify' = [verify EXCEPT ![v] = "idle"]
      /\ UNCHANGED <<account, challenge, expired, refresh, signIn, device, request>>
      /\ createSession(TRUE) \/ UNCHANGED <<session, issued>>
  BY DEF verifyOtp, app
<1>2. /\ verify' \in [Verifier -> {"idle", "invited", "known", "signed in"}]
      /\ \A w \in Verifier : verify'[w] = "signed in" => w # v /\ verify[w] = "signed in"
  BY <1>1 DEF IInv, TypeOK
<1>3. CASE createSession(TRUE)
  <2>1. /\ challenge.consumed /\ \A i \in DOMAIN issued : ~issued[i].otp
        /\ \A w \in Verifier : verify'[w] # "signed in"
    BY <1>1, <1>2 DEF IInv, OtpInv
  <2> QED
    BY <1>1, <1>2, <1>3, <2>1, NewSessionKeeps DEF IInv, TypeOK
<1>4. CASE UNCHANGED <<session, issued>>
  <2>1. OtpInv'
    BY <1>1, <1>2, <1>4 DEF IInv, OtpInv
  <2>2. TypeOK'
    BY <1>1, <1>2, <1>4, Unissued DEF IInv, TypeOK
  <2> QED
    BY <1>1, <1>4, <2>1, <2>2, Unissued, RequestStays DEF IInv
<1> QED
  BY <1>1, <1>3, <1>4

LEMMA PasswordLoginKeeps == ASSUME IInv, passwordLogin PROVE IInv'
<1>1. /\ createSession(FALSE) /\ signIn' = "idle"
      /\ device' \in {device, holding(newest + 1)}
      /\ UNCHANGED <<account, challenge, expired, verify, refresh, request>>
  BY DEF passwordLogin, holding
<1> QED
  BY <1>1, NewSessionKeeps DEF IInv, TypeOK

-----------------------------------------------------------------------------
(* Refreshing.                                                             *)

\* A refresh that goes on with the token it has.
LEMMA RefreshGoesOn ==
    ASSUME IInv, NEW r \in DOMAIN refresh, NEW step \in RefreshStep, SameTokens,
           refresh' = [refresh EXCEPT ![r].step = step],
           step = "reuse" =>
              session[of(refresh[r].token)].previous = refresh[r].token,
           UNCHANGED <<account, challenge, expired, verify, signIn, app>>
    PROVE  IInv'
<1>1. /\ DOMAIN refresh' = DOMAIN refresh
      /\ \A g \in DOMAIN refresh :
            /\ refresh'[g].token = refresh[g].token
            /\ refresh'[g].step = IF g = r THEN step ELSE refresh[g].step
            /\ refresh'[g] \in [step: RefreshStep, token: DOMAIN issued]
  <2>1. refresh[r] \in [step: RefreshStep, token: DOMAIN issued]
    BY AppTyped
  <2>2. /\ [refresh[r] EXCEPT !.step = step] \in [step: RefreshStep, token: DOMAIN issued]
        /\ [refresh[r] EXCEPT !.step = step].token = refresh[r].token
        /\ [refresh[r] EXCEPT !.step = step].step = step
    BY <2>1
  <2>3. refresh' = [refresh EXCEPT ![r] = [refresh[r] EXCEPT !.step = step]]
    OBVIOUS
  <2> QED
    BY <2>2, <2>3, AppTyped
<1>2. newest' = newest /\ DOMAIN issued' = DOMAIN issued
  BY DEF SameTokens, newest
<1>3. TypeOK'
  BY <1>1, <1>2 DEF IInv, TypeOK, SameTokens, app
<1>4. \A s : renews(s)' <=> renews(s)
  BY <1>1 DEF renews, of, SameTokens, app
<1>5. \A g \in DOMAIN refresh :
         session'[of(refresh[g].token)].previous = session[of(refresh[g].token)].previous
  BY AppTyped DEF SameTokens
<1>6. device.held # None =>
         session'[of(device.held)].previous = session[of(device.held)].previous
  BY AppTyped DEF SameTokens
<1>7. FreshInv'
  BY <1>1, <1>4, <1>5, <1>6 DEF IInv, FreshInv, SameTokens, of, app
<1> QED
  BY <1>3, <1>7, RowsKept, OtpKept, RequestStays DEF IInv, SameTokens, app

LEMMA ReadSessionKeeps == ASSUME IInv, NEW r \in Refresh, readSession(r) PROVE IInv'
<1>1. PICK t : t = refresh[r].token
  OBVIOUS
<1>2. /\ r \in DOMAIN refresh /\ UNCHANGED <<api, expired, verify, signIn, app>>
      /\ \E step \in RefreshStep :
            /\ refresh' = [refresh EXCEPT ![r].step = step]
            /\ step = "reuse" => session[of(t)].previous = t
  BY <1>1 DEF readSession, RefreshStep, of
<1> QED
  BY <1>1, <1>2, SameSessions, RefreshGoesOn DEF api

LEMMA RevokeReusedKeeps == ASSUME IInv, NEW r \in Refresh, revokeReused(r) PROVE IInv'
<1>1. PICK s : s = of(refresh[r].token)
  OBVIOUS
<1>2. /\ r \in DOMAIN refresh /\ refresh' = [refresh EXCEPT ![r].step = "refused"]
      /\ session' = [session EXCEPT ![s].revoked = TRUE]
      /\ UNCHANGED <<account, issued, challenge, expired, verify, signIn, app>>
  BY <1>1 DEF revokeReused, of
<1>3. SameTokens
  BY <1>1, <1>2, AppTyped, RevokeOne
<1> QED
  BY <1>2, <1>3, RefreshGoesOn DEF RefreshStep

\* What a rotation of the token t of session s writes.
LEMMA Rotated ==
    ASSUME IInv, NEW t \in DOMAIN issued, NEW s \in DOMAIN session, s = of(t),
           session[s].current = t, newest < MaxTokens,
           issued' = Append(issued, [session |-> s, for |-> t, otp |-> FALSE]),
           session' = [session EXCEPT ![s].current = newest + 1, ![s].previous = t]
    PROVE  /\ issued' \in Seq(Pair) /\ newest' = newest + 1 /\ newest' <= MaxTokens
           /\ DOMAIN issued' = DOMAIN issued \cup {newest + 1}
           /\ newest + 1 \notin DOMAIN issued
           /\ \A i \in DOMAIN issued : issued'[i] = issued[i]
           /\ issued'[newest + 1].session = s /\ issued'[newest + 1].for = t
           /\ issued'[newest + 1].otp = FALSE
           /\ session' \in Seq(Session) /\ Len(session') = Len(session)
           /\ DOMAIN session' = DOMAIN session
           /\ \A u \in DOMAIN session \ {s} : session'[u] = session[u]
           /\ session'[s].current = newest + 1 /\ session'[s].previous = t
<1>1. PICK n : n = newest + 1
  OBVIOUS
<1>2. PICK pair, row : /\ pair = [session |-> s, for |-> t, otp |-> FALSE]
                       /\ row = [session[s] EXCEPT !.current = n, !.previous = t]
  OBVIOUS
<1>3. issued' = Append(issued, pair) /\ session' = [session EXCEPT ![s] = row]
  BY <1>1, <1>2
<1>4. n \in Token /\ t \in Token /\ s \in SessionId /\ n \notin DOMAIN issued
  <2>1. newest \in Nat /\ DOMAIN issued = 1 .. newest /\ Len(session) \in Nat
        /\ DOMAIN session = 1 .. Len(session) /\ MaxTokens \in Nat /\ MaxSessions \in Nat
        /\ newest <= MaxTokens /\ Len(session) <= MaxSessions
    BY Typed
  <2> QED
    BY <1>1, <2>1 DEF Token, SessionId
<1>5. /\ pair \in Pair /\ row \in Session /\ row.current = n /\ row.previous = t
      /\ pair.session = s /\ pair.for = t /\ pair.otp = FALSE
  BY <1>2, <1>4, Typed DEF Pair, Session
<1>6. /\ issued' \in Seq(Pair) /\ newest' = n /\ DOMAIN issued' = DOMAIN issued \cup {n}
      /\ (\A i \in DOMAIN issued : issued'[i] = issued[i]) /\ issued'[n] = pair
  <2>1. /\ issued' \in Seq(Pair) /\ Len(issued') = Len(issued) + 1
        /\ \A i \in 1 .. Len(issued) : issued'[i] = issued[i]
        /\ issued'[Len(issued) + 1] = pair
    BY <1>3, <1>5, Typed, AppendProperties
  <2> QED
    BY <1>1, <2>1, Typed DEF newest
<1>7. PICK rows, rowsAfter : /\ rows = session /\ rows \in Seq(Session)
                            /\ rowsAfter = [rows EXCEPT ![s] = row]
                            /\ rowsAfter = session'
  BY <1>3, Typed
<1>8. /\ rowsAfter \in Seq(Session) /\ Len(rowsAfter) = Len(rows)
      /\ DOMAIN rowsAfter = DOMAIN rows
  BY <1>5, <1>7, ReplacedRow
<1>9. \A u \in DOMAIN session : session'[u] = IF u = s THEN row ELSE session[u]
  BY <1>3
<1>10. newest' <= MaxTokens
  <2>1. newest \in Nat /\ MaxTokens \in Nat
    BY Typed
  <2> QED
    BY <1>1, <1>6, <2>1
<1> QED
  BY <1>1, <1>4, <1>5, <1>6, <1>7, <1>8, <1>9, <1>10

\* The rotation of t by the refresh r.
LEMMA RotationKeeps ==
    ASSUME IInv, NEW r \in DOMAIN refresh, NEW t, NEW s, NEW n,
           t = refresh[r].token, s = of(t), session[s].current = t,
           n \notin DOMAIN issued, n # None, n \in Nat,
           newest' = n, newest' <= MaxTokens, (0 .. newest) \subseteq (0 .. n), n \in 0 .. n,
           issued' \in Seq(Pair), DOMAIN issued' = DOMAIN issued \cup {n},
           \A i \in DOMAIN issued : issued'[i] = issued[i],
           issued'[n].session = s, issued'[n].for = t, issued'[n].otp = FALSE,
           session' \in Seq(Session), Len(session') = Len(session),
           DOMAIN session' = DOMAIN session,
           \A u \in DOMAIN session \ {s} : session'[u] = session[u],
           session'[s].current = n, session'[s].previous = t,
           refresh' = [refresh EXCEPT ![r] = [step |-> "answer", token |-> n]],
           UNCHANGED <<account, challenge, expired, verify, signIn, device, request>>
    PROVE  IInv'
<1>1. /\ t \in DOMAIN issued /\ s \in DOMAIN session /\ t # n
      /\ None \notin DOMAIN issued
  <2>1. None \notin DOMAIN issued
    BY Typed DEF None
  <2> QED
    BY <2>1, AppTyped
<1>2. PICK answer_r : answer_r = [step |-> "answer", token |-> n]
  OBVIOUS
<1>3. /\ DOMAIN refresh' = DOMAIN refresh
      /\ \A g \in DOMAIN refresh \ {r} : refresh'[g] = refresh[g]
      /\ refresh'[r].token = n /\ refresh'[r].step = "answer"
      /\ \A g \in DOMAIN refresh' :
            refresh'[g] \in [step: RefreshStep, token: DOMAIN issued']
  <2>1. answer_r \in [step: RefreshStep, token: DOMAIN issued']
    BY <1>2 DEF RefreshStep
  <2>2. \A g \in DOMAIN refresh :
           refresh'[g] = IF g = r THEN answer_r ELSE refresh[g]
    BY <1>2
  <2> QED
    BY <1>2, <2>1, <2>2, AppTyped
<1>4. TypeOK'
  <2>1. device' \in [held: 0 .. newest', renewing: DOMAIN refresh' \cup {NoRefresh},
                     killed: SUBSET SessionId]
    BY <1>3, AppTyped
  <2>2. \A q \in AppRequest : request'[q] \in [step: RequestStep, token: 0 .. newest']
    BY DEF IInv, RequestOK
  <2>3. expired' \in 0 .. newest'
    BY DEF IInv, TypeOK
  <2>4. DOMAIN refresh' \subseteq Refresh /\ Len(session') <= MaxSessions
    BY <1>3 DEF IInv, TypeOK
  <2>5. UNCHANGED <<account, challenge, verify, signIn>>
    OBVIOUS
  <2> QED
    BY <1>3, <2>1, <2>2, <2>3, <2>4, <2>5 DEF IInv, TypeOK
<1>5. RequestOK'
  BY DEF IInv, RequestOK
<1>6. RowsOK'
  <2>1. /\ \A i \in DOMAIN issued :
              of(i) \in DOMAIN session /\ issued[i].for \in DOMAIN issued \cup {None}
        /\ \A u \in DOMAIN session :
              /\ session[u].current \in DOMAIN issued /\ of(session[u].current) = u
              /\ \A i \in DOMAIN issued : issued[i].for # session[u].current
    BY DEF IInv, RowsOK
  <2>2. \A i \in DOMAIN issued' :
           /\ issued'[i].session \in DOMAIN session'
           /\ issued'[i].for \in DOMAIN issued' \cup {None}
    BY <1>1, <2>1 DEF of
  <2>3. \A u \in DOMAIN session' :
           /\ session'[u].current \in DOMAIN issued'
           /\ issued'[session'[u].current].session = u
    <3> TAKE u \in DOMAIN session'
    <3>1. CASE u = s
      BY <3>1
    <3>2. CASE u # s
      <4>1. /\ session'[u] = session[u] /\ session[u].current \in DOMAIN issued
            /\ issued[session[u].current].session = u
        BY <2>1, <3>2 DEF of
      <4> QED
        BY <4>1
    <3> QED
      BY <3>1, <3>2
  <2>4. ASSUME NEW u \in DOMAIN session', NEW i \in DOMAIN issued'
        PROVE  issued'[i].for # session'[u].current
    <3>1. CASE i = n /\ u # s
      BY <1>1, <2>1, <3>1
    <3>2. CASE i = n /\ u = s
      BY <1>1, <3>2
    <3>3. CASE i # n /\ u # s
      BY <1>1, <2>1, <3>3
    <3>4. CASE i # n /\ u = s
      BY <1>1, <2>1, <3>4
    <3> QED
      BY <3>1, <3>2, <3>3, <3>4
  <2> QED
    BY <2>2, <2>3, <2>4 DEF RowsOK, of
<1>7. OtpInv'
  BY DEF IInv, OtpInv
<1>8. CredentialsWorkOnce'
  <2> SUFFICES ASSUME NEW i \in DOMAIN issued', NEW j \in DOMAIN issued', i # j
               PROVE  /\ issued'[i].for = issued'[j].for => issued'[i].for = None
                      /\ ~(issued'[i].otp /\ issued'[j].otp)
    BY DEF CredentialsWorkOnce
  <2>1. \A k \in DOMAIN issued : issued[k].for # t
    BY <1>1 DEF IInv, RowsOK
  <2>2. CASE i = n \/ j = n
    BY <1>1, <2>1, <2>2
  <2>3. CASE i # n /\ j # n
    <3>1. /\ i \in DOMAIN issued /\ j \in DOMAIN issued
          /\ issued'[i] = issued[i] /\ issued'[j] = issued[j]
      BY <2>3
    <3> QED
      BY <3>1 DEF IInv, CredentialsWorkOnce
  <2> QED
    BY <2>2, <2>3
<1>9. FreshInv'
  <2>1. \A g \in DOMAIN refresh :
           /\ issued'[refresh'[g].token].session = of(refresh[g].token)
           /\ g # r => refresh'[g].token # n
    BY <1>1, <1>3, AppTyped DEF of
  <2>2. \A u : renews(u)' <=> renews(u)
    BY <1>3, <2>1 DEF renews, of
  <2>3. device.held # None =>
           /\ issued'[device.held].session = of(device.held)
           /\ of(device.held) \in DOMAIN session
    BY AppTyped DEF of
  <2>4. device.renewing = r => renews(s)
    BY DEF renews
  <2>5. s \notin device.killed /\ device.renewing # r =>
           ~renews(s) /\ (device.held # None => of(device.held) # s)
    BY DEF IInv, FreshInv
  <2>6. ASSUME NEW g \in DOMAIN refresh, NEW u, u = of(refresh[g].token),
               u \notin device.killed
        PROVE  /\ device.renewing = g =>
                     session'[u].previous # refresh'[g].token /\ refresh'[g].step # "reuse"
               /\ device.renewing # g =>
                     (device.held # None => of(device.held) # u) /\ ~renews(u)
    <3>1. u \in DOMAIN session
      BY <2>6, AppTyped
    <3>2. device.renewing # g => (device.held # None => of(device.held) # u) /\ ~renews(u)
      BY <2>6 DEF IInv, FreshInv
    <3>3. CASE g = r
      BY <1>1, <1>3, <2>6, <3>2, <3>3
    <3>4. CASE g # r
      <4>1. refresh'[g] = refresh[g]
        BY <1>3, <3>4
      <4>2. device.renewing = g => u # s
        BY <2>5, <2>6, <3>4 DEF renews
      <4>3. device.renewing = g =>
              session[u].previous # refresh[g].token /\ refresh[g].step # "reuse"
        BY <2>6 DEF IInv, FreshInv
      <4>4. u # s => session'[u] = session[u]
        BY <3>1
      <4> QED
        BY <3>2, <4>1, <4>2, <4>3, <4>4
    <3> QED
      BY <3>3, <3>4
  <2>7. ASSUME NEW u, u = of(device.held), device.held # None,
               u \notin device.killed, ~renews(u)
        PROVE  session'[u].previous # device.held
    <3>1. u \in DOMAIN session /\ u # s
      BY <2>3, <2>4, <2>5, <2>7
    <3>2. session[u].previous # device.held
      BY <2>7 DEF IInv, FreshInv
    <3>3. session'[u] = session[u]
      BY <3>1
    <3> QED
      BY <3>2, <3>3
  <2>8. DOMAIN refresh' = DOMAIN refresh /\ UNCHANGED device
    BY <1>3
  <2> QED
    BY <2>1, <2>2, <2>3, <2>6, <2>7, <2>8 DEF FreshInv, of
<1> QED
  BY <1>4, <1>5, <1>6, <1>7, <1>8, <1>9 DEF IInv

LEMMA RotateKeeps == ASSUME IInv, NEW r \in Refresh, rotate(r) PROVE IInv'
<1>1. PICK t, s, n : t = refresh[r].token /\ s = of(t) /\ n = newest + 1
  OBVIOUS
<1>2. /\ r \in DOMAIN refresh /\ t \in DOMAIN issued /\ s \in DOMAIN session
      /\ UNCHANGED <<account, challenge, expired, verify, signIn, app>>
  BY <1>1, AppTyped DEF rotate
<1>3. CASE mayRotate(t)
  <2>1. /\ session[s].current = t /\ newest < MaxTokens
        /\ issued' = Append(issued, [session |-> s, for |-> t, otp |-> FALSE])
        /\ session' = [session EXCEPT ![s].current = n, ![s].previous = t]
        /\ refresh' = [refresh EXCEPT ![r] = [step |-> "answer", token |-> n]]
    BY <1>1, <1>3 DEF rotate, mayRotate, of
  <2>2. /\ issued' \in Seq(Pair) /\ newest' = n /\ newest' <= MaxTokens
        /\ DOMAIN issued' = DOMAIN issued \cup {n} /\ n \notin DOMAIN issued
        /\ \A i \in DOMAIN issued : issued'[i] = issued[i]
        /\ issued'[n].session = s /\ issued'[n].for = t /\ issued'[n].otp = FALSE
        /\ session' \in Seq(Session) /\ Len(session') = Len(session)
        /\ DOMAIN session' = DOMAIN session
        /\ \A u \in DOMAIN session \ {s} : session'[u] = session[u]
        /\ session'[s].current = n /\ session'[s].previous = t
    BY <1>1, <1>2, <2>1, Rotated
  <2>3. n \in Nat /\ n # None /\ n \in 0 .. n /\ (0 .. newest) \subseteq (0 .. n)
    BY <1>1, NextToken
  <2> QED
    BY <1>1, <1>2, <2>1, <2>2, <2>3, RotationKeeps DEF app
<1>4. CASE ~mayRotate(t)
  <2>1. UNCHANGED <<issued, session>> /\ refresh' = [refresh EXCEPT ![r].step = "refused"]
    BY <1>1, <1>4 DEF rotate
  <2> QED
    BY <1>2, <2>1, SameSessions, RefreshGoesOn DEF RefreshStep
<1> QED
  BY <1>3, <1>4

\* A refresh that is over, with what the app that waited for it is left with.
LEMMA RefreshEnds ==
    ASSUME IInv, NEW r \in DOMAIN refresh, refresh' = answered(r),
           UNCHANGED <<account, session, issued, challenge, expired, verify, signIn>>,
           NEW held \in 0 .. newest,
           \/ device.renewing # r /\ UNCHANGED device
           \/ /\ device.renewing = r /\ held \in {None, refresh[r].token}
              /\ device' = [device EXCEPT !.held = held, !.renewing = NoRefresh],
           RequestOK'
    PROVE  IInv'
<1>1. /\ DOMAIN refresh' = DOMAIN refresh \ {r}
      /\ \A g \in DOMAIN refresh' : refresh'[g] = refresh[g]
  BY DEF answered
<1>2. /\ newest' = newest /\ SameTokens /\ \A t : (of(t))' = of(t)
      /\ NoRefresh \notin DOMAIN refresh
  BY SameSessions, RefreshAssumption DEF newest, of, IInv, TypeOK, NoRefresh
<1>3. /\ device'.killed = device.killed
      /\ device' \in [held: 0 .. newest, renewing: DOMAIN refresh' \cup {NoRefresh},
                      killed: SUBSET SessionId]
  <2>1. CASE device.renewing # r /\ UNCHANGED device
    BY <1>1, <2>1, AppTyped
  <2>2. CASE device' = [device EXCEPT !.held = held, !.renewing = NoRefresh]
    BY <2>2, AppTyped
  <2> QED
    BY <2>1, <2>2
<1>4. TypeOK'
  <2>1. \A g \in DOMAIN refresh' :
           refresh'[g] \in [step: RefreshStep, token: DOMAIN issued]
    BY <1>1, AppTyped
  <2>2. \A q \in AppRequest : request'[q] \in [step: RequestStep, token: 0 .. newest']
    BY DEF RequestOK
  <2> QED
    BY <1>1, <1>2, <1>3, <2>1, <2>2 DEF IInv, TypeOK
<1>5. FreshInv'
  <2>1. CASE device.renewing # r /\ UNCHANGED device
    <3>1. \A s : renews(s)' <=> renews(s)
      BY <1>1, <2>1 DEF renews, of
    <3> QED
      BY <1>1, <2>1, <3>1 DEF IInv, FreshInv, of
  <2>2. CASE device.renewing = r
    <3>1. /\ device'.renewing = NoRefresh /\ device'.held \in {None, refresh[r].token}
      BY <2>2, AppTyped
    <3>2. \A s : ~renews(s)' /\ (renews(s) <=> s = of(refresh[r].token))
      BY <1>1, <1>2, <2>2, <3>1 DEF renews
    <3>3. \A g \in DOMAIN refresh' :
             of(refresh[g].token) \notin device.killed =>
                of(refresh[g].token) # of(refresh[r].token)
      BY <1>1, <2>2, <3>2 DEF IInv, FreshInv
    <3>4. of(refresh[r].token) \notin device.killed =>
             session[of(refresh[r].token)].previous # refresh[r].token
      BY <2>2 DEF IInv, FreshInv
    <3> QED
      BY <1>1, <1>2, <1>3, <3>1, <3>2, <3>3, <3>4 DEF FreshInv, of
  <2> QED
    BY <2>1, <2>2
<1> QED
  BY <1>2, <1>4, <1>5, RowsKept, OtpKept DEF IInv

LEMMA EstablishKeeps == ASSUME IInv, NEW r \in Refresh, establish(r) PROVE IInv'
<1>1. PICK t : t = refresh[r].token
  OBVIOUS
<1>2. /\ r \in DOMAIN refresh /\ refresh' = answered(r)
      /\ UNCHANGED <<account, session, issued, challenge, expired, verify, signIn>>
      /\ \/ device.renewing # r /\ UNCHANGED <<device, request>>
         \/ /\ device.renewing = r
            /\ device' = [device EXCEPT !.held = t, !.renewing = NoRefresh]
            /\ request' = [q \in AppRequest |->
                  IF q \in waiting THEN [step |-> "retried", token |-> t]
                  ELSE request[q]]
  BY <1>1 DEF establish, inFlight, api, app
<1>3. t \in 0 .. newest /\ t # None /\ newest' = newest
  <2>1. t \in DOMAIN issued /\ newest' = newest
    BY <1>1, <1>2, AppTyped DEF newest
  <2>2. newest \in Nat /\ DOMAIN issued = 1 .. newest
    BY Typed
  <2> QED
    BY <2>1, <2>2 DEF None
<1>4. RequestOK'
  <2>1. CASE UNCHANGED request
    BY <1>2, <2>1, RequestStays
  <2>2. CASE request' = [q \in AppRequest |->
                  IF q \in waiting THEN [step |-> "retried", token |-> t]
                  ELSE request[q]]
    <3>1. [step |-> "retried", token |-> t] \in [step: RequestStep, token: 0 .. newest]
      BY <1>3 DEF RequestStep
    <3> QED
      BY <1>3, <2>2, <3>1 DEF IInv, RequestOK
  <2> QED
    BY <1>2, <2>1, <2>2
<1> QED
  BY <1>1, <1>2, <1>3, <1>4, RefreshEnds

LEMMA RefreshFailsKeeps == ASSUME IInv, NEW r \in Refresh, refreshFails(r) PROVE IInv'
<1>1. /\ r \in DOMAIN refresh /\ refresh' = answered(r)
      /\ UNCHANGED <<account, session, issued, challenge, expired, verify, signIn>>
      /\ \/ device.renewing # r /\ UNCHANGED <<device, request>>
         \/ /\ device.renewing = r
            /\ device' = [signedOut EXCEPT !.renewing = NoRefresh]
            /\ request' = [q \in AppRequest |->
                  IF q \in waiting THEN idle(q)[q] ELSE request[q]]
  BY DEF refreshFails, inFlight, api, app
<1>2. newest' = newest /\ None \in 0 .. newest
  <2>1. newest \in Nat /\ newest' = newest
    BY <1>1, Typed DEF newest
  <2> QED
    BY <2>1 DEF None
<1>3. RequestOK'
  <2>1. CASE UNCHANGED request
    BY <1>1, <2>1, RequestStays
  <2>2. CASE request' = [q \in AppRequest |->
                  IF q \in waiting THEN idle(q)[q] ELSE request[q]]
    <3>1. \A q \in AppRequest : idle(q)[q] = [step |-> "idle", token |-> None]
      BY DEF idle, IInv, RequestOK
    <3>2. [step |-> "idle", token |-> None] \in [step: RequestStep, token: 0 .. newest]
      BY <1>2 DEF RequestStep
    <3>3. \A q \in AppRequest :
             request'[q] = IF q \in waiting THEN [step |-> "idle", token |-> None]
                           ELSE request[q]
      BY <2>2, <3>1
    <3>4. request' \in [AppRequest -> [step: RequestStep, token: 0 .. newest]]
      BY <2>2, <3>1, <3>2 DEF IInv, RequestOK
    <3> QED
      BY <1>2, <3>3, <3>4 DEF IInv, RequestOK
  <2> QED
    BY <1>1, <2>1, <2>2
<1>4. device.renewing = r =>
         device' = [device EXCEPT !.held = None, !.renewing = NoRefresh]
  BY <1>1, AppTyped DEF signedOut
<1> QED
  BY <1>1, <1>2, <1>3, <1>4, RefreshEnds

\* A refresh that starts for the token the app holds.
LEMMA RefreshStarts ==
    ASSUME IInv, NEW r \in Refresh \ DOMAIN refresh, device.held # None,
           device.renewing = NoRefresh,
           device' = [device EXCEPT !.renewing = r],
           refresh' = [g \in DOMAIN refresh \cup {r} |->
                        IF g = r THEN [step |-> "read", token |-> device.held]
                        ELSE refresh[g]],
           UNCHANGED <<account, session, issued, challenge, expired, verify, signIn>>,
           RequestOK'
    PROVE  IInv'
<1>1. PICK t, s : t = device.held /\ s = of(t)
  OBVIOUS
<1>2. /\ DOMAIN refresh' = DOMAIN refresh \cup {r} /\ r \notin DOMAIN refresh
      /\ \A g \in DOMAIN refresh : refresh'[g] = refresh[g]
      /\ refresh'[r].token = t /\ refresh'[r].step = "read"
      /\ refresh'[r] \in [step: RefreshStep, token: DOMAIN issued]
  BY <1>1, AppTyped DEF RefreshStep
<1>3. /\ newest' = newest /\ SameTokens
      /\ r # NoRefresh /\ NoRefresh \notin DOMAIN refresh
  BY SameSessions, RefreshAssumption DEF newest, IInv, TypeOK, NoRefresh
<1>4. /\ device'.killed = device.killed /\ device'.held = t /\ device'.renewing = r
      /\ device' \in [held: 0 .. newest, renewing: DOMAIN refresh' \cup {NoRefresh},
                      killed: SUBSET SessionId]
  BY <1>1, <1>2, AppTyped
<1>5. TypeOK'
  <2>1. \A g \in DOMAIN refresh' :
           refresh'[g] \in [step: RefreshStep, token: DOMAIN issued]
    BY <1>2, AppTyped
  <2>2. \A q \in AppRequest : request'[q] \in [step: RequestStep, token: 0 .. newest']
    BY DEF RequestOK
  <2>3. DOMAIN refresh' \subseteq Refresh
    BY <1>2 DEF IInv, TypeOK
  <2> QED
    BY <1>3, <1>4, <2>1, <2>2, <2>3 DEF IInv, TypeOK
<1>6. FreshInv'
  <2>1. \A u : ~renews(u) /\ (renews(u)' <=> u = s)
    BY <1>1, <1>2, <1>3, <1>4 DEF renews, of
  <2>2. s \notin device.killed => session[s].previous # t
    BY <1>1, <2>1 DEF IInv, FreshInv
  <2>3. \A g \in DOMAIN refresh :
           of(refresh[g].token) \notin device.killed => of(refresh[g].token) # s
    BY <1>1, <1>3 DEF IInv, FreshInv
  <2> QED
    BY <1>1, <1>2, <1>4, <2>1, <2>2, <2>3 DEF FreshInv, of
<1> QED
  BY <1>3, <1>5, <1>6, RowsKept, OtpKept DEF IInv

LEMMA UnauthorizedKeeps ==
    ASSUME IInv, NEW q \in AppRequest, unauthorized(q) PROVE IInv'
<1>1. /\ UNCHANGED <<account, session, issued, challenge, expired, verify, signIn>>
      /\ request[q].step = "sent"
  BY DEF unauthorized, api
<1>2. SameTokens
  BY <1>1, SameSessions
<1>3. CASE over(q) /\ UNCHANGED refresh
  BY <1>1, <1>2, <1>3, OverKeeps DEF serving
<1>4. CASE /\ device.held # None /\ UNCHANGED <<device, refresh>>
           /\ request' = [request EXCEPT ![q] = [step |-> "retried",
                                                 token |-> device.held]]
  <2>1. RequestOK'
    BY <1>1, <1>4, RequestTries DEF RequestStep
  <2> QED
    BY <1>1, <1>2, <1>4, <2>1, QuietStep DEF IInv, TypeOK
<1>5. CASE /\ UNCHANGED <<device, refresh>>
           /\ request' = [request EXCEPT ![q].step = "waiting"]
  <2>1. RequestOK'
    BY <1>1, <1>5, RequestWaits
  <2> QED
    BY <1>1, <1>2, <1>5, <2>1, QuietStep DEF IInv, TypeOK
<1>6. CASE /\ device.held = request[q].token /\ mayRenew
           /\ \E r \in Refresh \ DOMAIN refresh :
                 /\ device' = [device EXCEPT !.renewing = r]
                 /\ refresh' = [g \in DOMAIN refresh \cup {r} |->
                      IF g = r THEN [step |-> "read", token |-> device.held]
                      ELSE refresh[g]]
           /\ request' = [request EXCEPT ![q].step = "waiting"]
  <2>1. RequestOK'
    BY <1>1, <1>6, RequestWaits
  <2>2. device.held # None
    BY <1>1, <1>6 DEF IInv, RequestOK
  <2> QED
    BY <1>1, <1>6, <2>1, <2>2, RefreshStarts DEF mayRenew
<1> QED
  BY <1>3, <1>4, <1>5, <1>6 DEF unauthorized

-----------------------------------------------------------------------------
(* The theorems.                                                           *)

LEMMA InitInv == Init => IInv
<1> SUFFICES ASSUME Init PROVE IInv
  OBVIOUS
<1>1. /\ session = <<>> /\ issued = <<>> /\ expired = 0 /\ newest = 0
      /\ session \in Seq(Session) /\ issued \in Seq(Pair)
      /\ Len(session) = 0 /\ DOMAIN issued = {} /\ DOMAIN session = {}
  BY DEF Init, None, newest
<1>2. Len(session) <= MaxSessions /\ newest <= MaxTokens /\ expired \in 0 .. newest
  BY <1>1, BoundAssumption
<1>3. /\ DOMAIN refresh = {} /\ device.held = None
      /\ device \in [held: 0 .. newest, renewing: DOMAIN refresh \cup {NoRefresh},
                      killed: SUBSET SessionId]
  BY <1>1 DEF Init, None
<1>4. RequestOK
  BY <1>1 DEF Init, RequestOK, RequestStep, None
<1>5. TypeOK
  <2>1. \A q \in AppRequest : request[q] \in [step: RequestStep, token: 0 .. newest]
    BY <1>4 DEF RequestOK
  <2> QED
    BY <1>1, <1>2, <1>3, <2>1 DEF Init, TypeOK, mayEnter
<1>6. RowsOK /\ OtpInv /\ CredentialsWorkOnce
  BY <1>1 DEF Init, RowsOK, OtpInv, CredentialsWorkOnce
<1>7. FreshInv
  BY <1>3 DEF FreshInv
<1> QED
  BY <1>4, <1>5, <1>6, <1>7 DEF IInv

LEMMA Stutters == ASSUME IInv, UNCHANGED vars PROVE IInv'
BY SameSessions, RequestStays, QuietStep
   DEF vars, api, serving, app, IInv, TypeOK

LEMMA Inductive == IInv /\ [Next]_vars => IInv'
<1> SUFFICES ASSUME IInv, [Next]_vars PROVE IInv'
  OBVIOUS
<1>1. CASE UNCHANGED vars
  BY <1>1, Stutters
<1>2. ASSUME NEW v \in Verifier, checkOtp(v) \/ consumeOtp(v) \/ verifyOtp(v) PROVE IInv'
  BY <1>2, CheckOtpKeeps, ConsumeOtpKeeps, VerifyOtpKeeps
<1>3. ASSUME NEW r \in Refresh, \/ readSession(r) \/ revokeReused(r) \/ rotate(r)
                                \/ establish(r) \/ refreshFails(r)
      PROVE  IInv'
  BY <1>3, ReadSessionKeeps, RevokeReusedKeeps, RotateKeeps, EstablishKeeps,
     RefreshFailsKeeps
<1>4. ASSUME NEW q \in AppRequest, \/ ask(q) \/ answer(q) \/ connectionFails(q)
                                   \/ unauthorized(q) \/ unauthorizedAgain(q)
      PROVE  IInv'
  BY <1>4, AskKeeps, AnswerKeeps, ConnectionFailsKeeps, UnauthorizedKeeps,
     UnauthorizedAgainKeeps
<1>5. CASE \/ signInStarts \/ passwordLogin \/ restore \/ logoutAll
           \/ updateUserStatus \/ accessTokenExpires
  BY <1>5, SignInStartsKeeps, PasswordLoginKeeps, RestoreKeeps, LogoutAllKeeps,
     UpdateUserStatusKeeps, AccessTokenExpiresKeeps
<1> QED
  BY <1>1, <1>2, <1>3, <1>4, <1>5 DEF Next

LEMMA Invariant == Spec => []IInv
BY InitInv, Inductive, PTL DEF Spec

\* Sessions, tokens and requests of the app stay what the schema and the steps
\* of auth.service.ts and mobile-session.ts allow.
THEOREM TypeCorrect == Spec => []TypeOK
<1>1. IInv => TypeOK
  BY DEF IInv
<1> QED
  BY <1>1, Invariant, PTL

\* A pair is exchanged for one other pair at most, and the challenge for one
\* session, however many refreshes and verifications run at once.
THEOREM CredentialsWorkOnceHolds == Spec => []CredentialsWorkOnce
<1>1. IInv => CredentialsWorkOnce
  BY DEF IInv
<1> QED
  BY <1>1, Invariant, PTL

\* The refresh the app waits for is never taken for the reuse of a token,
\* unless the app was killed while it was served.
THEOREM RenewingIsNotReuseHolds == Spec => []RenewingIsNotReuse
<1>1. IInv => RenewingIsNotReuse
  BY DEF IInv, FreshInv, RenewingIsNotReuse, of
<1> QED
  BY <1>1, Invariant, PTL

-----------------------------------------------------------------------------
(* Revoked sessions.                                                       *)

\* What a step does to the rows that are revoked.
RevokedKept == \A s \in DOMAIN session :
                  session[s].revoked => session'[s] = session[s]

\* The session of a new token, if it is not new itself, is not revoked.
IssuedToLive ==
    newest' > newest /\ issued'[newest'].session \in DOMAIN session =>
       live(issued'[newest'].session)

LEMMA RevokingRevoked ==
    ASSUME NEW row \in Session, row.revoked
    PROVE  [row EXCEPT !.revoked = TRUE] = row
BY DEF Session

LEMMA NothingIssued ==
    ASSUME IInv, UNCHANGED issued
    PROVE  IssuedToLive
<1>1. newest' = newest /\ newest \in Nat
  BY Typed DEF newest
<1>2. ~(newest' > newest)
  BY <1>1
<1> QED
  BY <1>2 DEF IssuedToLive

LEMMA RevokeAllFinal ==
    ASSUME IInv, UNCHANGED issued, revokeAll
    PROVE  RevokedKept /\ IssuedToLive
<1>1. \A s \in DOMAIN session :
         /\ session'[s] = [session[s] EXCEPT !.revoked = TRUE]
         /\ session[s] \in Session
  BY Typed DEF revokeAll
<1> QED
  BY <1>1, RevokingRevoked, NothingIssued DEF RevokedKept

LEMMA RevokeOneFinal ==
    ASSUME IInv, NEW s \in DOMAIN session, UNCHANGED issued,
           session' = [session EXCEPT ![s].revoked = TRUE]
    PROVE  RevokedKept /\ IssuedToLive
<1>1. \A u \in DOMAIN session :
         /\ session'[u] = IF u = s THEN [session[u] EXCEPT !.revoked = TRUE]
                          ELSE session[u]
         /\ session[u] \in Session
  BY Typed
<1> QED
  BY <1>1, RevokingRevoked, NothingIssued DEF RevokedKept

LEMMA CreatedFinal ==
    ASSUME IInv, NEW otp \in BOOLEAN, createSession(otp)
    PROVE  RevokedKept /\ IssuedToLive
<1>1. PICK n, m : n = newest + 1 /\ m = Len(session) + 1
  OBVIOUS
<1>2. /\ \A s \in DOMAIN session : session'[s] = session[s]
      /\ newest' = n /\ issued'[n].session = m /\ m \notin DOMAIN session
  BY <1>1, Created
<1>3. issued'[newest'].session \notin DOMAIN session
  BY <1>2
<1> QED
  BY <1>2, <1>3 DEF RevokedKept, IssuedToLive

LEMMA RotateFinal ==
    ASSUME IInv, NEW r \in Refresh, rotate(r)
    PROVE  RevokedKept /\ IssuedToLive
<1>1. PICK t, s, n : t = refresh[r].token /\ s = of(t) /\ n = newest + 1
  OBVIOUS
<1>2. r \in DOMAIN refresh /\ t \in DOMAIN issued /\ s \in DOMAIN session
  BY <1>1, AppTyped DEF rotate
<1>3. CASE mayRotate(t)
  <2>1. /\ session[s].current = t /\ newest < MaxTokens /\ live(s)
        /\ issued' = Append(issued, [session |-> s, for |-> t, otp |-> FALSE])
        /\ session' = [session EXCEPT ![s].current = n, ![s].previous = t]
    BY <1>1, <1>3 DEF rotate, mayRotate, of
  <2>2. /\ newest' = n /\ issued'[n].session = s
        /\ \A u \in DOMAIN session \ {s} : session'[u] = session[u]
    BY <1>1, <1>2, <2>1, Rotated
  <2>3. issued'[newest'].session = s
    BY <2>2
  <2> QED
    BY <2>1, <2>2, <2>3 DEF RevokedKept, IssuedToLive, live
<1>4. CASE ~mayRotate(t)
  <2>1. UNCHANGED <<issued, session>>
    BY <1>1, <1>4 DEF rotate
  <2> QED
    BY <2>1, NothingIssued DEF RevokedKept
<1> QED
  BY <1>3, <1>4

LEMMA AnswerFinal ==
    ASSUME IInv, NEW q \in AppRequest, answer(q)
    PROVE  RevokedKept /\ IssuedToLive
<1>1. PICK t : t = request[q].token
  OBVIOUS
<1>2. /\ UNCHANGED issued /\ flying(q)
      /\ session' = IF q = SignOut
                    THEN [session EXCEPT ![of(t)].revoked = TRUE] ELSE session
  BY <1>1 DEF answer, of
<1>3. t \in DOMAIN issued
  <2>1. t \in 0 .. newest /\ t # None
    BY <1>1, <1>2 DEF IInv, RequestOK, flying
  <2> QED
    BY <2>1, Typed DEF None
<1>4. PICK s \in DOMAIN session : s = of(t)
  BY <1>3 DEF IInv, RowsOK
<1>5. CASE q = SignOut
  BY <1>2, <1>4, <1>5, RevokeOneFinal
<1>6. CASE q # SignOut
  BY <1>2, <1>6, NothingIssued DEF RevokedKept
<1> QED
  BY <1>5, <1>6

LEMMA RevokedStep == ASSUME IInv, Next PROVE RevokedKept /\ IssuedToLive
<1> SUFFICES ASSUME ~UNCHANGED <<issued, session>> PROVE RevokedKept /\ IssuedToLive
  BY NothingIssued DEF RevokedKept
<1>1. ASSUME NEW v \in Verifier, verifyOtp(v) PROVE RevokedKept /\ IssuedToLive
  BY <1>1, CreatedFinal DEF verifyOtp
<1>2. ASSUME NEW r \in Refresh, revokeReused(r) PROVE RevokedKept /\ IssuedToLive
  <2>1. PICK s : s = of(refresh[r].token)
    OBVIOUS
  <2>2. /\ s \in DOMAIN session /\ UNCHANGED issued
        /\ session' = [session EXCEPT ![s].revoked = TRUE]
    BY <1>2, <2>1, AppTyped DEF revokeReused, of
  <2> QED
    BY <2>2, RevokeOneFinal
<1>3. ASSUME NEW r \in Refresh, rotate(r) PROVE RevokedKept /\ IssuedToLive
  BY <1>3, RotateFinal
<1>4. CASE passwordLogin
  BY <1>4, CreatedFinal DEF passwordLogin
<1>5. ASSUME NEW q \in AppRequest, answer(q) PROVE RevokedKept /\ IssuedToLive
  BY <1>5, AnswerFinal
<1>6. CASE logoutAll \/ updateUserStatus
  BY <1>6, RevokeAllFinal DEF logoutAll, updateUserStatus
<1>7. ASSUME NEW v \in Verifier, checkOtp(v) \/ consumeOtp(v) PROVE FALSE
  BY <1>7 DEF checkOtp, consumeOtp
<1>8. ASSUME NEW r \in Refresh, readSession(r) \/ establish(r) \/ refreshFails(r)
      PROVE  FALSE
  BY <1>8 DEF readSession, establish, refreshFails, api
<1>9. ASSUME NEW q \in AppRequest, \/ ask(q) \/ connectionFails(q)
                                   \/ unauthorized(q) \/ unauthorizedAgain(q)
      PROVE  FALSE
  BY <1>9 DEF ask, connectionFails, unauthorized, unauthorizedAgain, api
<1>10. CASE signInStarts \/ restore \/ accessTokenExpires
  BY <1>10 DEF signInStarts, restore, accessTokenExpires, api
<1> QED
  BY <1>1, <1>2, <1>3, <1>4, <1>5, <1>6, <1>7, <1>8, <1>9, <1>10 DEF Next

\* A revoked session stays as it is, and no later token belongs to it, whatever
\* a refresh has read of it before.
THEOREM RevokedIsFinalHolds == Spec => RevokedIsFinal
<1>1. ASSUME IInv, [Next]_vars
      PROVE  [RevokedKept /\ IssuedToLive]_vars
  BY <1>1, RevokedStep
<1>2. [RevokedKept /\ IssuedToLive]_vars =>
        [/\ \A s \in DOMAIN session : session[s].revoked => session'[s] = session[s]
         /\ (newest' > newest /\ issued'[newest'].session \in DOMAIN session) =>
               live(issued'[newest'].session)]_vars
  BY DEF RevokedKept, IssuedToLive
<1> QED
  BY <1>1, <1>2, Invariant, PTL DEF Spec, RevokedIsFinal

-----------------------------------------------------------------------------
(* Payment proofs.                                                         *)

\* What is true of a request s being served.
ServingOK(s) ==
    LET r == s.request IN
    /\ s \in Proofs!Serving
    /\ s.step \in {"lookup", "store", "insert", "clean"} => r.kind = "submit"
    /\ s.step = "check" => r.kind = "approve"
    /\ s.step = "replay" => r.kind = "pay"
    /\ s.step = "transaction" => r.kind \in {"approve", "pay"}
    /\ r.kind # "none" => r.key \in Verifier /\ r.amount \in Amount
    /\ r.kind = "approve" => r.proof \in DOMAIN proof
    /\ r.kind = "pay" => r.proof = Proofs!None
    /\ s.step \in {"store", "insert", "clean"} <=> s.id # Proofs!None
    /\ s.id # Proofs!None => s.id \in 1 .. uploads /\ s.id \notin DOMAIN proof
    /\ s.step = "insert" => s.id \in stored
    /\ s.step = "transaction" /\ r.kind = "approve" =>
         r.amount <= proof[r.proof].submitted
    /\ s.step # "answered" => s.answer = "none"
    /\ s.answer = "paid" =>
         \E i \in DOMAIN payment : payment[i].key = r.key
                                     /\ Proofs!hash(payment[i]) = Proofs!hash(r)
    /\ s.answer = "submitted" => Proofs!keyTaken(r.key)
    /\ s.answer = "approved" =>
         r.kind = "approve" /\ proof[r.proof].status \in Proofs!approvedStatuses

\* Two submissions hold on to two files.
FilesApart ==
    \A g, h \in Refresh :
        g # h => handler[g].id = Proofs!None \/ handler[g].id # handler[h].id

\* A proof has a payment exactly when it is approved.
PaymentNamed ==
    /\ \A id \in DOMAIN proof :
           proof[id].status \in Proofs!approvedStatuses <=> proof[id].payment # Proofs!None
    /\ \A i \in DOMAIN payment : payment[i].proof \in DOMAIN proof \cup {Proofs!None}

\* The record of a key is the one payment under it.
KeyInv ==
    \A k \in Verifier :
        LET mine == {i \in DOMAIN payment : payment[i].key = k} IN
        IF record[k] = Proofs!NoHash THEN mine = {}
        ELSE \E i \in mine : mine = {i} /\ Proofs!hash(payment[i]) = record[k]

\* The review history of a proof is its decision.
ReviewInv ==
    \A id \in Proofs!ProofId :
        review[id] = IF id \in DOMAIN proof
                        /\ proof[id].status \in Proofs!approvedStatuses
                              \cup {"REJECTED"}
                     THEN <<proof[id].status>> ELSE <<>>

\* The inductive invariant of payments.
PaymentInv ==
    /\ Proofs!TypeOK
    /\ \A h \in Refresh : ServingOK(handler[h])
    /\ FilesApart
    /\ Proofs!ReceiptsAreKept
    /\ PaymentNamed
    /\ Proofs!ApprovalIsOnePayment
    /\ KeyInv
    /\ ReviewInv

\* What no request writes but its own transaction.
paymentRows == <<owed, uploads, stored, proof, review, payment, record>>

-----------------------------------------------------------------------------

\* An idle handler serves nothing.
LEMMA HandlerIdle ==
    ServingOK(Proofs!Idle) /\ Proofs!Idle.id = Proofs!None /\ Proofs!Idle.step = "idle"
BY DEF ServingOK, Proofs!Idle, Proofs!NoRequest, Proofs!Serving, Proofs!Step,
   Proofs!Request, Proofs!None

\* A step that only changes what one handler has come to, and gives it no file.
LEMMA HandlerOnly ==
    ASSUME PaymentInv, NEW h \in Refresh, NEW new, ServingOK(new),
           new.id = Proofs!None \/ new.id = handler[h].id,
           handler' = [handler EXCEPT ![h] = new],
           UNCHANGED paymentRows
    PROVE  PaymentInv'
<1>1. /\ handler'[h] = new /\ handler' \in [Refresh -> Proofs!Serving]
      /\ \A g \in Refresh \ {h} : handler'[g] = handler[g]
  BY DEF PaymentInv, Proofs!TypeOK, ServingOK
<1>2. UNCHANGED <<owed, uploads, stored, proof, review, payment, record>>
  BY DEF paymentRows
<1>3. Proofs!TypeOK'
  BY <1>1, <1>2 DEF PaymentInv, Proofs!TypeOK
<1>4. \A g \in Refresh : ServingOK(handler[g])'
  BY <1>1, <1>2 DEF PaymentInv, ServingOK, Proofs!keyTaken
<1>5. FilesApart'
  BY <1>1 DEF PaymentInv, FilesApart
<1>6. /\ Proofs!ReceiptsAreKept' /\ PaymentNamed' /\ Proofs!ApprovalIsOnePayment'
      /\ KeyInv'
      /\ ReviewInv'
  BY <1>2 DEF PaymentInv, Proofs!ReceiptsAreKept, PaymentNamed,
     Proofs!ApprovalIsOnePayment, KeyInv, ReviewInv
<1> QED
  BY <1>3, <1>4, <1>5, <1>6 DEF PaymentInv

\* Rows only ever come: a proof keeps its key and its amount, an approved one
\* stays approved, a payment stays as it was recorded.
RowsGrow ==
    /\ uploads' \in {uploads, uploads + 1}
    /\ DOMAIN proof \subseteq DOMAIN proof'
    /\ \A id \in DOMAIN proof :
          /\ proof'[id].key = proof[id].key
          /\ proof'[id].submitted = proof[id].submitted
          /\ proof[id].status \in Proofs!approvedStatuses
             => proof'[id].status \in Proofs!approvedStatuses
    /\ DOMAIN payment \subseteq DOMAIN payment'
    /\ \A i \in DOMAIN payment : payment'[i] = payment[i]

\* What a request has come to stays true while rows come, unless its own file
\* is touched.
LEMMA OtherServing ==
    ASSUME PaymentInv, NEW g \in Refresh, handler'[g] = handler[g], RowsGrow,
           handler[g].id # Proofs!None => handler[g].id \notin DOMAIN proof',
           handler[g].step = "insert" => handler[g].id \in stored'
    PROVE  ServingOK(handler[g])'
<1>1. ServingOK(handler[g]) /\ uploads \in Nat
  BY DEF PaymentInv, Proofs!TypeOK
<1>2. Proofs!keyTaken(handler[g].request.key)
      => Proofs!keyTaken(handler[g].request.key)'
  BY DEF RowsGrow, Proofs!keyTaken
<1>3. handler[g].id \in 1 .. uploads => handler[g].id \in 1 .. uploads'
  BY <1>1 DEF RowsGrow
<1>4. (\E i \in DOMAIN payment :
          payment[i].key = handler[g].request.key
          /\ Proofs!hash(payment[i]) = Proofs!hash(handler[g].request))
      => \E i \in DOMAIN payment' :
            payment'[i].key = handler[g].request.key
            /\ Proofs!hash(payment'[i]) = Proofs!hash(handler[g].request)
  BY DEF RowsGrow
<1>5. \A id \in DOMAIN proof :
         /\ id \in DOMAIN proof' /\ proof'[id].submitted = proof[id].submitted
         /\ proof[id].status \in Proofs!approvedStatuses
            => proof'[id].status \in Proofs!approvedStatuses
  BY DEF RowsGrow
<1> HIDE DEF RowsGrow
<1> QED
  BY <1>1, <1>2, <1>3, <1>4, <1>5 DEF ServingOK, Proofs!hash

-----------------------------------------------------------------------------
(* Steps of one request that write no row.                                 *)

\* A request is answered, or goes on to the next step.
LEMMA ReplyWith ==
    ASSUME NEW h \in Refresh, NEW ans, PaymentInv, Proofs!Reply(h, ans)
    PROVE  handler' = [handler EXCEPT
                         ![h] = [handler[h] EXCEPT !.step = "answered",
                                                   !.answer = ans,
                                                   !.id = Proofs!None]]
BY DEF Proofs!Reply, PaymentInv, Proofs!TypeOK, Proofs!Serving

LEMMA GotoStep ==
    ASSUME NEW h \in Refresh, NEW step, PaymentInv, Proofs!Goto(h, step)
    PROVE  handler' = [handler EXCEPT ![h] = [handler[h] EXCEPT !.step = step]]
BY DEF Proofs!Goto, PaymentInv, Proofs!TypeOK, Proofs!Serving

LEMMA ReceiveKeeps ==
    ASSUME Proofs!Assumptions, PaymentInv, NEW h \in Refresh, Proofs!Receive(h)
    PROVE  PaymentInv'
<1>1. PICK r \in Proofs!incoming :
        handler' = [handler EXCEPT ![h].step = Proofs!entry[r.kind], ![h].request = r]
  BY DEF Proofs!Receive
<1>2. ServingOK(handler[h]) /\ handler[h].step = "idle"
      /\ DOMAIN proof \subseteq Proofs!ProofId
  BY DEF Proofs!Assumptions, PaymentInv, Proofs!Receive, Proofs!TypeOK,
     Proofs!ProofId
<1>3. r \in Proofs!Request /\ r.kind \in {"submit", "approve", "pay"}
      /\ r.key \in Verifier
      /\ r.amount \in Amount /\ (r.kind = "approve" => r.proof \in DOMAIN proof)
      /\ (r.kind = "pay" => r.proof = Proofs!None)
  BY <1>2 DEF Proofs!incoming, Proofs!Request
<1> DEFINE step == Proofs!entry[r.kind]
           new == [handler[h] EXCEPT !.step = step, !.request = r]
<1>4. step = IF r.kind = "submit" THEN "lookup"
             ELSE IF r.kind = "approve" THEN "check" ELSE "replay"
  BY <1>3 DEF Proofs!entry
<1>5. handler' = [handler EXCEPT ![h] = new]
  BY <1>1, <1>2 DEF ServingOK, Proofs!Serving, PaymentInv, Proofs!TypeOK
<1>6. /\ new.step = step /\ new.request = r /\ new.id = handler[h].id
      /\ new.answer = handler[h].answer /\ step \in Proofs!Step
      /\ new \in Proofs!Serving
  BY <1>2, <1>3, <1>4 DEF ServingOK, Proofs!Serving, Proofs!Step
<1> HIDE DEF step, new
<1>7. handler[h].id = Proofs!None /\ handler[h].answer = "none"
  BY <1>2 DEF ServingOK
<1>8. ServingOK(new)
  BY <1>3, <1>4, <1>6, <1>7 DEF ServingOK
<1>9. UNCHANGED paymentRows
  BY DEF Proofs!Receive, paymentRows
<1> QED
  BY <1>5, <1>6, <1>8, <1>9, HandlerOnly

\* A request ends: refused, answered before, or its process died.
LEMMA EndKeeps ==
    ASSUME PaymentInv, NEW h \in Refresh,
           handler' = [handler EXCEPT ![h] = Proofs!Idle],
           UNCHANGED paymentRows
    PROVE  PaymentInv'
BY HandlerIdle, HandlerOnly

\* An answer that is true of the rows.
LEMMA ReplyKeeps ==
    ASSUME PaymentInv, NEW h \in Refresh,
           NEW ans \in {"submitted", "approved", "paid"},
           Proofs!Reply(h, ans), UNCHANGED paymentRows,
           ans = "paid" =>
             \E i \in DOMAIN payment :
                payment[i].key = handler[h].request.key
                /\ Proofs!hash(payment[i]) = Proofs!hash(handler[h].request),
           ans = "submitted" => Proofs!keyTaken(handler[h].request.key),
           ans = "approved" =>
             /\ handler[h].request.kind = "approve"
             /\ proof[handler[h].request.proof].status \in Proofs!approvedStatuses
    PROVE  PaymentInv'
<1> DEFINE new == [handler[h] EXCEPT !.step = "answered", !.answer = ans,
                                     !.id = Proofs!None]
<1>1. handler' = [handler EXCEPT ![h] = new]
  BY ReplyWith
<1>2. ServingOK(handler[h])
  BY DEF PaymentInv
<1>3. /\ new.step = "answered" /\ new.request = handler[h].request
      /\ new.id = Proofs!None /\ new.answer = ans /\ new \in Proofs!Serving
  BY <1>2 DEF ServingOK, Proofs!Serving, Proofs!Step, Proofs!None
<1> HIDE DEF new
<1>4. ServingOK(new)
  BY <1>2, <1>3 DEF ServingOK
<1> QED
  BY <1>1, <1>3, <1>4, HandlerOnly

\* A request goes on to a step whose entry conditions hold.
LEMMA GotoKeeps ==
    ASSUME PaymentInv, NEW h \in Refresh, NEW step, Proofs!Goto(h, step),
           UNCHANGED paymentRows,
           \/ handler[h].step = "insert" /\ step = "clean"
           \/ /\ handler[h].step = "check" /\ step = "transaction"
              /\ handler[h].request.amount
                    <= proof[handler[h].request.proof].submitted
           \/ handler[h].step = "replay" /\ step = "transaction"
    PROVE  PaymentInv'
<1> DEFINE new == [handler[h] EXCEPT !.step = step]
<1>1. handler' = [handler EXCEPT ![h] = new]
  BY GotoStep
<1>2. ServingOK(handler[h])
  BY DEF PaymentInv
<1>3. /\ new.step = step /\ new.request = handler[h].request
      /\ new.id = handler[h].id /\ new.answer = handler[h].answer
      /\ new \in Proofs!Serving
  BY <1>2 DEF ServingOK, Proofs!Serving, Proofs!Step
<1> HIDE DEF new
<1>4. ServingOK(new)
  BY <1>2, <1>3 DEF ServingOK
<1> QED
  BY <1>1, <1>3, <1>4, HandlerOnly

\* The first look at the proof.
LEMMA CheckKeeps ==
    ASSUME PaymentInv, NEW h \in Refresh, Proofs!Check(h)
    PROVE  PaymentInv'
<1> DEFINE r == handler[h].request
<1>1. UNCHANGED paymentRows /\ handler[h].step = "check"
  BY DEF Proofs!Check, paymentRows
<1>2. r.kind = "approve" /\ r.proof \in DOMAIN proof
  BY <1>1 DEF PaymentInv, ServingOK
<1>3. CASE proof[r.proof].payment # Proofs!None
  <2>1. Proofs!Reply(h, "approved")
        /\ proof[r.proof].status \in Proofs!approvedStatuses
    BY <1>2, <1>3 DEF Proofs!Check, PaymentInv, PaymentNamed
  <2> QED
    BY <1>1, <1>2, <2>1, ReplyKeeps
<1>4. CASE Proofs!Goto(h, "transaction") /\ r.amount <= proof[r.proof].submitted
  BY <1>1, <1>4, GotoKeeps
<1>5. CASE Proofs!Refuse(h)
  BY <1>1, <1>5, EndKeeps DEF Proofs!Refuse
<1> QED
  BY <1>3, <1>4, <1>5 DEF Proofs!Check

\* idempotencyReplay.
LEMMA ReplayKeeps ==
    ASSUME PaymentInv, NEW h \in Refresh, Proofs!Replay(h)
    PROVE  PaymentInv'
<1> DEFINE r == handler[h].request
<1>1. UNCHANGED paymentRows /\ handler[h].step = "replay"
  BY DEF Proofs!Replay, paymentRows
<1>2. r.kind = "pay" /\ r.key \in Verifier
  BY <1>1 DEF PaymentInv, ServingOK
<1>3. CASE Proofs!Reply(h, "paid") /\ record[r.key] # Proofs!NoHash
           /\ record[r.key] = Proofs!hash(r)
  <2>1. \E i \in DOMAIN payment : payment[i].key = r.key
                                  /\ Proofs!hash(payment[i]) = Proofs!hash(r)
    BY <1>2, <1>3 DEF PaymentInv, KeyInv
  <2> QED
    BY <1>1, <1>3, <2>1, ReplyKeeps
<1>4. CASE Proofs!Goto(h, "transaction")
  BY <1>1, <1>4, GotoKeeps
<1>5. CASE Proofs!Refuse(h)
  BY <1>1, <1>5, EndKeeps DEF Proofs!Refuse
<1> QED
  BY <1>3, <1>4, <1>5 DEF Proofs!Replay

-----------------------------------------------------------------------------
(* submit.                                                                 *)

LEMMA LookupKeeps ==
    ASSUME Proofs!Assumptions, PaymentInv, NEW h \in Refresh, Proofs!Lookup(h)
    PROVE  PaymentInv'
<1> DEFINE r == handler[h].request
<1>1. ServingOK(handler[h]) /\ handler[h].step = "lookup"
  BY DEF PaymentInv, Proofs!Lookup
<1>2. CASE Proofs!keyTaken(r.key) /\ Proofs!Reply(h, "submitted") /\ UNCHANGED uploads
  <2>1. UNCHANGED paymentRows
    BY <1>2 DEF Proofs!Lookup, paymentRows
  <2> QED
    BY <1>2, <2>1, ReplyKeeps
<1>3. CASE ~Proofs!keyTaken(r.key) /\ uploads < MaxUploads /\ uploads' = uploads + 1
           /\ handler' = [handler EXCEPT ![h].step = "store", ![h].id = uploads + 1]
  <2> DEFINE new == [handler[h] EXCEPT !.step = "store", !.id = uploads + 1]
  <2>1. /\ uploads \in Nat /\ uploads' \in 0 .. MaxUploads
        /\ uploads + 1 \in Proofs!ProofId /\ uploads + 1 # Proofs!None
        /\ uploads + 1 \notin DOMAIN proof
        /\ \A id : id \in 1 .. uploads => id \in 1 .. uploads' /\ id # uploads + 1
    BY <1>3 DEF Proofs!Assumptions, PaymentInv, Proofs!TypeOK, Proofs!ProofId,
       Proofs!None
  <2>2. UNCHANGED <<owed, stored, proof, review, payment, record>>
    BY DEF Proofs!Lookup
  <2>3. handler' = [handler EXCEPT ![h] = new]
    BY <1>1, <1>3 DEF ServingOK, Proofs!Serving, PaymentInv, Proofs!TypeOK
  <2>4. /\ new.step = "store" /\ new.request = r /\ new.id = uploads + 1
        /\ new.answer = handler[h].answer /\ new \in Proofs!Serving
    BY <1>1, <2>1 DEF ServingOK, Proofs!Serving, Proofs!Step
  <2> HIDE DEF new
  <2>5. /\ handler'[h] = new /\ handler' \in [Refresh -> Proofs!Serving]
        /\ \A g \in Refresh \ {h} : handler'[g] = handler[g]
    BY <2>3, <2>4 DEF PaymentInv, Proofs!TypeOK
  <2>6. Proofs!TypeOK'
    BY <2>1, <2>2, <2>5 DEF PaymentInv, Proofs!TypeOK
  <2>7. ServingOK(handler[h])'
    BY <1>1, <1>3, <2>1, <2>2, <2>4, <2>5 DEF ServingOK
  <2>8. \A g \in Refresh \ {h} : ServingOK(handler[g])'
    <3>1. RowsGrow
      BY <1>3, <2>2 DEF RowsGrow
    <3> QED
      BY <2>2, <2>5, <3>1, OtherServing DEF PaymentInv, ServingOK
  <2>9. FilesApart'
    BY <2>1, <2>4, <2>5 DEF PaymentInv, FilesApart, ServingOK
  <2>10. /\ Proofs!ReceiptsAreKept' /\ PaymentNamed' /\ Proofs!ApprovalIsOnePayment'
         /\ KeyInv'
         /\ ReviewInv'
    BY <2>2 DEF PaymentInv, Proofs!ReceiptsAreKept, PaymentNamed,
       Proofs!ApprovalIsOnePayment, KeyInv, ReviewInv
  <2> QED
    BY <2>6, <2>7, <2>8, <2>9, <2>10 DEF PaymentInv
<1> QED
  BY <1>2, <1>3 DEF Proofs!Lookup

LEMMA StoreKeeps ==
    ASSUME PaymentInv, NEW h \in Refresh, Proofs!Store(h)
    PROVE  PaymentInv'
<1> DEFINE new == [handler[h] EXCEPT !.step = "insert"]
<1>1. ServingOK(handler[h]) /\ handler[h].step = "store"
  BY DEF PaymentInv, Proofs!Store
<1>2. handler[h].id \in 1 .. uploads /\ stored' = stored \cup {handler[h].id}
  BY <1>1 DEF ServingOK, Proofs!Store
<1>3. UNCHANGED <<owed, uploads, proof, review, payment, record>>
  BY DEF Proofs!Store
<1>4. handler' = [handler EXCEPT ![h] = new]
  BY GotoStep DEF Proofs!Store
<1>5. /\ new.step = "insert" /\ new.request = handler[h].request
      /\ new.id = handler[h].id /\ new.answer = handler[h].answer
      /\ new \in Proofs!Serving
  BY <1>1 DEF ServingOK, Proofs!Serving, Proofs!Step
<1> HIDE DEF new
<1>6. /\ handler'[h] = new /\ handler' \in [Refresh -> Proofs!Serving]
      /\ \A g \in Refresh \ {h} : handler'[g] = handler[g]
  BY <1>4, <1>5 DEF PaymentInv, Proofs!TypeOK
<1>7. Proofs!TypeOK'
  BY <1>2, <1>3, <1>6 DEF PaymentInv, Proofs!TypeOK
<1>8. ServingOK(handler[h])'
  BY <1>1, <1>2, <1>3, <1>5, <1>6 DEF ServingOK
<1>9. \A g \in Refresh \ {h} : ServingOK(handler[g])'
  <2>1. RowsGrow
    BY <1>3 DEF RowsGrow
  <2> QED
    BY <1>2, <1>3, <1>6, <2>1, OtherServing DEF PaymentInv, ServingOK
<1>10. FilesApart'
  BY <1>5, <1>6 DEF PaymentInv, FilesApart
<1>11. /\ Proofs!ReceiptsAreKept' /\ PaymentNamed' /\ Proofs!ApprovalIsOnePayment'
       /\ KeyInv'
       /\ ReviewInv'
  BY <1>2, <1>3 DEF PaymentInv, Proofs!ReceiptsAreKept, PaymentNamed,
     Proofs!ApprovalIsOnePayment, KeyInv, ReviewInv
<1> QED
  BY <1>7, <1>8, <1>9, <1>10, <1>11 DEF PaymentInv

\* The failed submission deletes the file that only it holds on to.
LEMMA CleanKeeps ==
    ASSUME PaymentInv, NEW h \in Refresh, Proofs!Clean(h)
    PROVE  PaymentInv'
<1>1. ServingOK(handler[h]) /\ handler[h].step = "clean"
  BY DEF PaymentInv, Proofs!Clean
<1>2. /\ handler[h].id # Proofs!None /\ handler[h].id \notin DOMAIN proof
      /\ stored' = stored \ {handler[h].id}
  BY <1>1 DEF ServingOK, Proofs!Clean
<1>3. UNCHANGED <<owed, uploads, proof, review, payment, record>>
  BY DEF Proofs!Clean
<1>4. Proofs!Idle \in Proofs!Serving
  BY HandlerIdle DEF ServingOK
<1>5. /\ handler'[h] = Proofs!Idle /\ handler' \in [Refresh -> Proofs!Serving]
      /\ \A g \in Refresh \ {h} : handler'[g] = handler[g]
  BY <1>4 DEF PaymentInv, Proofs!TypeOK, Proofs!Clean, Proofs!Refuse
<1>6. Proofs!TypeOK'
  BY <1>2, <1>3, <1>5 DEF PaymentInv, Proofs!TypeOK
<1>7. ServingOK(handler[h])'
  <2>1. ServingOK(Proofs!Idle)'
    BY HandlerIdle DEF ServingOK, Proofs!Idle, Proofs!NoRequest, Proofs!None
  <2> QED
    BY <1>5, <2>1
<1>8. \A g \in Refresh \ {h} : ServingOK(handler[g])'
  <2>1. RowsGrow
    BY <1>3 DEF RowsGrow
  <2> QED
    BY <1>2, <1>3, <1>5, <2>1, OtherServing DEF PaymentInv, ServingOK, FilesApart
<1>9. FilesApart'
  BY <1>5, HandlerIdle DEF PaymentInv, FilesApart
<1>10. /\ Proofs!ReceiptsAreKept' /\ PaymentNamed' /\ Proofs!ApprovalIsOnePayment'
       /\ KeyInv'
       /\ ReviewInv'
  BY <1>2, <1>3 DEF PaymentInv, Proofs!ReceiptsAreKept, PaymentNamed,
     Proofs!ApprovalIsOnePayment, KeyInv, ReviewInv
<1> QED
  BY <1>6, <1>7, <1>8, <1>9, <1>10 DEF PaymentInv

LEMMA InsertKeeps ==
    ASSUME Proofs!Assumptions, PaymentInv, NEW h \in Refresh, Proofs!Insert(h)
    PROVE  PaymentInv'
<1> DEFINE r == handler[h].request
           id == handler[h].id
           row == [key |-> r.key, submitted |-> r.amount, approved |-> Proofs!None,
                   status |-> "PENDING_CONFIRMATION", payment |-> Proofs!None]
           new == [handler[h] EXCEPT !.step = "answered", !.answer = "submitted",
                                     !.id = Proofs!None]
<1>1. ServingOK(handler[h]) /\ handler[h].step = "insert"
  BY DEF PaymentInv, Proofs!Insert
<1>2. /\ id \in 1 .. uploads /\ id \notin DOMAIN proof /\ id \in stored
      /\ id # Proofs!None /\ id \in Proofs!ProofId
      /\ r.key \in Verifier /\ r.amount \in Amount /\ r.kind = "submit"
  BY <1>1 DEF ServingOK, Proofs!Serving
<1>3. row \in Proofs!Proof
      /\ row.status \notin Proofs!approvedStatuses \cup {"REJECTED"}
      /\ row.payment = Proofs!None /\ row.key = r.key
  BY <1>2 DEF Proofs!Proof, Proofs!Status, Proofs!approvedStatuses, Proofs!None,
     Proofs!Assumptions
<1>4. UNCHANGED <<owed, uploads, stored, review, payment, record>>
  BY DEF Proofs!Insert
<1>5. /\ DOMAIN proof' = DOMAIN proof \cup {id} /\ proof'[id] = row
      /\ \A k \in DOMAIN proof : proof'[k] = proof[k]
  BY <1>2 DEF Proofs!Insert
<1>6. handler' = [handler EXCEPT ![h] = new]
  BY ReplyWith DEF Proofs!Insert
<1>7. /\ new.step = "answered" /\ new.request = r /\ new.id = Proofs!None
      /\ new.answer = "submitted" /\ new \in Proofs!Serving
  BY <1>1 DEF ServingOK, Proofs!Serving, Proofs!Step, Proofs!None
<1> HIDE DEF new, row
<1>8. /\ handler'[h] = new /\ handler' \in [Refresh -> Proofs!Serving]
      /\ \A g \in Refresh \ {h} : handler'[g] = handler[g]
  BY <1>6, <1>7 DEF PaymentInv, Proofs!TypeOK
<1>9. Proofs!TypeOK'
  BY <1>2, <1>3, <1>4, <1>5, <1>8 DEF PaymentInv, Proofs!TypeOK
<1>10. ServingOK(handler[h])'
  <2>1. Proofs!keyTaken(r.key)'
    BY <1>3, <1>5, <1>7, <1>8 DEF Proofs!keyTaken
  <2> QED
    BY <1>2, <1>7, <1>8, <2>1 DEF ServingOK
<1>11. \A g \in Refresh \ {h} : ServingOK(handler[g])'
  <2>1. RowsGrow
    BY <1>4, <1>5 DEF RowsGrow
  <2> QED
    BY <1>2, <1>4, <1>5, <1>8, <2>1, OtherServing DEF PaymentInv, ServingOK,
       FilesApart
<1>12. FilesApart'
  BY <1>7, <1>8 DEF PaymentInv, FilesApart
<1>13. Proofs!ReceiptsAreKept'
  BY <1>2, <1>4, <1>5 DEF PaymentInv, Proofs!ReceiptsAreKept
<1>14. PaymentNamed'
  BY <1>3, <1>4, <1>5 DEF PaymentInv, PaymentNamed
<1>15. Proofs!ApprovalIsOnePayment'
  <2>1. \A i \in DOMAIN payment : payment[i].proof # id
    BY <1>2 DEF PaymentInv, PaymentNamed
  <2> QED
    BY <1>3, <1>4, <1>5, <2>1 DEF PaymentInv, Proofs!ApprovalIsOnePayment
<1>16. KeyInv'
  BY <1>4 DEF PaymentInv, KeyInv
<1>17. ReviewInv'
  BY <1>2, <1>3, <1>4, <1>5 DEF PaymentInv, ReviewInv
<1> QED
  BY <1>9, <1>10, <1>11, <1>12, <1>13, <1>14, <1>15, <1>16, <1>17 DEF PaymentInv

-----------------------------------------------------------------------------
(* Decisions and payments.                                                 *)

\* What the accounting command leaves: one payment more, under a key that had
\* none.
LEMMA Recorded ==
    ASSUME Proofs!Assumptions, PaymentInv, NEW r \in Proofs!Request,
           r.key \in Verifier, r.amount \in Amount,
           Proofs!RecordPayment(r)
    PROVE  LET n == Len(payment) + 1 IN
           /\ owed' \in Nat
           /\ payment' \in Seq(Proofs!Payment)
           /\ n \in 1 .. MaxPayments
           /\ n \notin DOMAIN payment
           /\ DOMAIN payment' = DOMAIN payment \cup {n}
           /\ \A i \in DOMAIN payment : payment'[i] = payment[i]
           /\ payment'[n].key = r.key
           /\ payment'[n].amount = r.amount
           /\ payment'[n].proof = r.proof
           /\ Proofs!hash(payment'[n]) = Proofs!hash(r)
           /\ record' \in [Verifier -> [amount: Amount \cup {Proofs!None},
                                  proof: Proofs!ProofId \cup {Proofs!None}]]
           /\ KeyInv'
<1> DEFINE n == Len(payment) + 1
           new == [key |-> r.key, amount |-> r.amount, proof |-> r.proof,
                   reverses |-> Proofs!None]
<1>1. /\ Proofs!payable(r) /\ payment' = Append(payment, new)
      /\ owed' = owed - r.amount
      /\ record' = [record EXCEPT ![r.key] = Proofs!hash(r)]
  BY DEF Proofs!RecordPayment
<1>2. /\ r.amount <= owed /\ Len(payment) < MaxPayments
      /\ \A i \in DOMAIN payment : payment[i].key # r.key
  BY <1>1 DEF Proofs!payable
<1>3. /\ r.amount \in Nat \ {0} /\ MaxPayments \in Nat /\ owed \in Nat
      /\ payment \in Seq(Proofs!Payment) /\ Len(payment) \in Nat
  <2>1. payment \in Seq(Proofs!Payment) /\ owed \in Nat
    BY DEF PaymentInv, Proofs!TypeOK
  <2>2. Len(payment) \in Nat
    BY <2>1
  <2>3. r.amount \in Nat \ {0} /\ MaxPayments \in Nat
    BY DEF Proofs!Assumptions
  <2> QED
    BY <2>1, <2>2, <2>3
<1>4. new \in Proofs!Payment
  BY <1>3 DEF Proofs!Payment, Proofs!Request, Proofs!None
<1>5. /\ payment' \in Seq(Proofs!Payment) /\ n \in 1 .. MaxPayments
      /\ n \notin DOMAIN payment
      /\ DOMAIN payment' = DOMAIN payment \cup {n}
      /\ \A i \in DOMAIN payment : payment'[i] = payment[i]
      /\ payment'[n] = new
  BY <1>1, <1>2, <1>3, <1>4
<1>6. owed' \in Nat
  BY <1>1, <1>2, <1>3
<1>7. Proofs!hash(r) \in [amount: Amount \cup {Proofs!None},
                            proof: Proofs!ProofId \cup {Proofs!None}]
      /\ Proofs!hash(r) # Proofs!NoHash /\ Proofs!hash(new) = Proofs!hash(r)
  BY <1>3 DEF Proofs!hash, Proofs!Request, Proofs!NoHash, Proofs!None
<1>8. /\ record' \in [Verifier -> [amount: Amount \cup {Proofs!None},
                               proof: Proofs!ProofId \cup {Proofs!None}]]
      /\ record'[r.key] = Proofs!hash(r)
      /\ \A k \in Verifier \ {r.key} : record'[k] = record[k]
  BY <1>1, <1>7 DEF PaymentInv, Proofs!TypeOK
<1>9. new.key = r.key /\ new.amount = r.amount /\ new.proof = r.proof
  OBVIOUS
<1> HIDE DEF n, new
<1>10. KeyInv'
  <2> SUFFICES ASSUME NEW k \in Verifier
               PROVE  LET mine == {i \in DOMAIN payment' : payment'[i].key = k} IN
                      IF record'[k] = Proofs!NoHash THEN mine = {}
                      ELSE \E i \in mine :
                              mine = {i} /\ Proofs!hash(payment'[i]) = record'[k]
    BY DEF KeyInv
  <2> DEFINE mine == {i \in DOMAIN payment' : payment'[i].key = k}
  <2>1. CASE k = r.key
    <3>1. mine = {n} /\ Proofs!hash(payment'[n]) = record'[k]
          /\ record'[k] # Proofs!NoHash
      BY <1>2, <1>5, <1>7, <1>8, <1>9, <2>1
    <3> QED
      BY <3>1
  <2>2. CASE k # r.key
    <3>1. mine = {i \in DOMAIN payment : payment[i].key = k}
          /\ record'[k] = record[k]
      BY <1>5, <1>8, <1>9, <2>2
    <3>2. \A i \in mine : Proofs!hash(payment'[i]) = Proofs!hash(payment[i])
      BY <1>5, <3>1
    <3> HIDE DEF mine
    <3>3. IF record[k] = Proofs!NoHash THEN mine = {}
          ELSE \E i \in mine : mine = {i} /\ Proofs!hash(payment[i]) = record[k]
      BY <3>1 DEF PaymentInv, KeyInv
    <3> QED
      BY <3>1, <3>2, <3>3 DEF mine
  <2> QED
    BY <2>1, <2>2
<1> QED
  BY <1>5, <1>6, <1>7, <1>8, <1>9, <1>10 DEF n

\* A pending proof is decided by the staff: its history tells the decision.
LEMMA Decided ==
    ASSUME Proofs!Assumptions, PaymentInv, NEW id \in DOMAIN proof,
           NEW row \in Proofs!Proof,
           proof[id].status = "PENDING_CONFIRMATION",
           row.status \in Proofs!approvedStatuses \cup {"REJECTED"},
           Proofs!Decide(id, row)
    PROVE  /\ DOMAIN proof' = DOMAIN proof
           /\ proof'[id] = row
           /\ \A k \in DOMAIN proof \ {id} : proof'[k] = proof[k]
           /\ review' \in [Proofs!ProofId -> Seq(Proofs!Status)]
           /\ ReviewInv'
<1>1. id \in Proofs!ProofId /\ row.status \in Proofs!Status
      /\ review \in [Proofs!ProofId -> Seq(Proofs!Status)]
  BY DEF Proofs!Assumptions, PaymentInv, Proofs!TypeOK, Proofs!ProofId,
     Proofs!Status
<1>2. /\ DOMAIN proof' = DOMAIN proof
      /\ proof'[id] = row
      /\ \A k \in DOMAIN proof \ {id} : proof'[k] = proof[k]
  BY DEF Proofs!Decide
<1>3. review[id] = <<>>
  BY <1>1 DEF PaymentInv, ReviewInv, Proofs!approvedStatuses
<1>4. Append(<<>>, row.status) = <<row.status>>
  OBVIOUS
<1>5. review' = [review EXCEPT ![id] = <<row.status>>]
  BY <1>3, <1>4 DEF Proofs!Decide
<1>6. <<row.status>> \in Seq(Proofs!Status)
  BY <1>1
<1>7. /\ review' \in [Proofs!ProofId -> Seq(Proofs!Status)]
      /\ review'[id] = <<row.status>>
      /\ \A k \in Proofs!ProofId \ {id} : review'[k] = review[k]
  BY <1>1, <1>5, <1>6
<1>8. ReviewInv'
  BY <1>2, <1>7 DEF PaymentInv, ReviewInv
<1> QED
  BY <1>2, <1>7, <1>8

\* A transaction that answers leaves the other requests as they were.
LEMMA AnswerServing ==
    ASSUME PaymentInv, NEW h \in Refresh, NEW ans \in {"approved", "paid"},
           Proofs!Reply(h, ans), handler[h].step = "transaction", RowsGrow,
           stored' = stored, DOMAIN proof' = DOMAIN proof,
           ans = "paid" =>
             \E i \in DOMAIN payment' :
                payment'[i].key = handler[h].request.key
                /\ Proofs!hash(payment'[i]) = Proofs!hash(handler[h].request),
           ans = "approved" =>
             /\ handler[h].request.kind = "approve"
             /\ proof'[handler[h].request.proof].status \in Proofs!approvedStatuses
    PROVE  /\ handler' \in [Refresh -> Proofs!Serving]
           /\ \A g \in Refresh : ServingOK(handler[g])'
           /\ FilesApart'
<1> DEFINE new == [handler[h] EXCEPT !.step = "answered", !.answer = ans,
                                     !.id = Proofs!None]
<1>1. handler' = [handler EXCEPT ![h] = new]
  BY ReplyWith
<1>2. ServingOK(handler[h])
  BY DEF PaymentInv
<1>3. /\ new.step = "answered" /\ new.request = handler[h].request
      /\ new.id = Proofs!None /\ new.answer = ans /\ new \in Proofs!Serving
  BY <1>2 DEF ServingOK, Proofs!Serving, Proofs!Step, Proofs!None
<1> HIDE DEF new
<1>4. /\ handler'[h] = new /\ handler' \in [Refresh -> Proofs!Serving]
      /\ \A g \in Refresh \ {h} : handler'[g] = handler[g]
  BY <1>1, <1>3 DEF PaymentInv, Proofs!TypeOK
<1>5. ServingOK(handler[h])'
  BY <1>2, <1>3, <1>4 DEF ServingOK, Proofs!hash
<1>6. \A g \in Refresh \ {h} : ServingOK(handler[g])'
  BY <1>4, OtherServing DEF PaymentInv, ServingOK
<1>7. FilesApart'
  BY <1>3, <1>4 DEF PaymentInv, FilesApart
<1> QED
  BY <1>4, <1>5, <1>6, <1>7

LEMMA ApproveKeeps ==
    ASSUME Proofs!Assumptions, PaymentInv, NEW h \in Refresh, Proofs!Approve(h)
    PROVE  PaymentInv'
<1> DEFINE r == handler[h].request
           id == r.proof
           row == Proofs!approvedRow(r)
           n == Len(payment) + 1
<1>1. ServingOK(handler[h]) /\ handler[h].step = "transaction" /\ r.kind = "approve"
      /\ UNCHANGED <<uploads, stored>> /\ Proofs!isPending(id)
      /\ Proofs!RecordPayment(r)
      /\ Proofs!Decide(id, row) /\ Proofs!Reply(h, "approved")
  BY DEF PaymentInv, Proofs!Approve
<1>2. /\ r \in Proofs!Request /\ r.key \in Verifier /\ r.amount \in Amount
      /\ id \in DOMAIN proof /\ r.amount <= proof[id].submitted
      /\ proof[id].status = "PENDING_CONFIRMATION" /\ proof[id] \in Proofs!Proof
      /\ id \in 1 .. uploads
  BY <1>1 DEF ServingOK, Proofs!Serving, Proofs!isPending, PaymentInv, Proofs!TypeOK
<1>3. /\ owed' \in Nat /\ payment' \in Seq(Proofs!Payment)
      /\ n \in 1 .. MaxPayments /\ n \notin DOMAIN payment
      /\ DOMAIN payment' = DOMAIN payment \cup {n}
      /\ \A i \in DOMAIN payment : payment'[i] = payment[i]
      /\ payment'[n].amount = r.amount /\ payment'[n].proof = id
      /\ record' \in [Verifier -> [amount: Amount \cup {Proofs!None},
                             proof: Proofs!ProofId \cup {Proofs!None}]]
      /\ KeyInv'
  BY <1>1, <1>2, Recorded
<1>4. /\ row \in Proofs!Proof /\ row.key = proof[id].key
      /\ row.submitted = proof[id].submitted /\ row.approved = r.amount
      /\ row.payment = n /\ row.status \in Proofs!approvedStatuses
      /\ row.status = "APPROVED" <=> r.amount = proof[id].submitted
  <2> DEFINE status == Proofs!paymentProofApproval(proof[id].submitted, r.amount)
  <2>1. /\ status \in Proofs!approvedStatuses /\ status \in Proofs!Status
        /\ status = "APPROVED" <=> r.amount = proof[id].submitted
    BY DEF Proofs!paymentProofApproval, Proofs!approvedStatuses, Proofs!Status
  <2>2. row = [proof[id] EXCEPT !.status = status, !.approved = r.amount,
                                !.payment = n]
    BY DEF Proofs!approvedRow
  <2> HIDE DEF status, row
  <2>3. /\ row \in Proofs!Proof /\ row.key = proof[id].key
        /\ row.submitted = proof[id].submitted /\ row.approved = r.amount
        /\ row.payment = n /\ row.status = status
    <3>1. n \in 0 .. MaxPayments
      BY <1>3 DEF Proofs!Assumptions
    <3> QED
      BY <1>2, <2>1, <2>2, <3>1 DEF Proofs!Proof
  <2> QED
    BY <2>1, <2>3
<1> HIDE DEF n, row
<1>5. /\ DOMAIN proof' = DOMAIN proof /\ proof'[id] = row
      /\ \A k \in DOMAIN proof \ {id} : proof'[k] = proof[k]
      /\ review' \in [Proofs!ProofId -> Seq(Proofs!Status)] /\ ReviewInv'
  BY <1>1, <1>2, <1>4, Decided
<1>6. RowsGrow
  BY <1>1, <1>3, <1>4, <1>5 DEF RowsGrow
<1>7. /\ handler' \in [Refresh -> Proofs!Serving]
      /\ \A g \in Refresh : ServingOK(handler[g])'
      /\ FilesApart'
  <2>1. proof'[id].status \in Proofs!approvedStatuses
    BY <1>4, <1>5
  <2> QED
    BY <1>1, <1>5, <1>6, <2>1, AnswerServing
<1>8. Proofs!TypeOK'
  BY <1>1, <1>3, <1>4, <1>5, <1>7 DEF PaymentInv, Proofs!TypeOK
<1>9. Proofs!ReceiptsAreKept'
  BY <1>1, <1>5 DEF PaymentInv, Proofs!ReceiptsAreKept
<1>10. PaymentNamed'
  <2>1. n # Proofs!None
    BY <1>3 DEF Proofs!None
  <2> QED
    BY <1>2, <1>3, <1>4, <1>5, <2>1 DEF PaymentInv, PaymentNamed
<1>11. Proofs!ApprovalIsOnePayment'
  <2> SUFFICES ASSUME NEW k \in DOMAIN proof'
               PROVE  LET mine == {i \in DOMAIN payment' : payment'[i].proof = k} IN
                      /\ proof'[k].status \in Proofs!approvedStatuses <=> mine # {}
                      /\ \A i \in mine :
                            /\ proof'[k].payment = i
                            /\ payment'[i].amount = proof'[k].approved
                            /\ proof'[k].approved <= proof'[k].submitted
                            /\ proof'[k].status = "APPROVED"
                               <=> proof'[k].approved = proof'[k].submitted
    BY DEF Proofs!ApprovalIsOnePayment
  <2> DEFINE old == {i \in DOMAIN payment : payment[i].proof = k}
             mine == {i \in DOMAIN payment' : payment'[i].proof = k}
  <2>1. CASE k = id
    <3>1. old = {}
      BY <1>2, <2>1 DEF PaymentInv, Proofs!ApprovalIsOnePayment,
         Proofs!approvedStatuses
    <3>2. mine = {n}
      BY <1>3, <2>1, <3>1
    <3> QED
      BY <1>2, <1>3, <1>4, <1>5, <2>1, <3>2
  <2>2. CASE k # id
    <3>1. mine = old /\ proof'[k] = proof[k]
      BY <1>3, <1>5, <2>2
    <3> QED
      BY <1>3, <1>5, <3>1 DEF PaymentInv, Proofs!ApprovalIsOnePayment
  <2> QED
    BY <2>1, <2>2
<1> QED
  BY <1>3, <1>5, <1>7, <1>8, <1>9, <1>10, <1>11 DEF PaymentInv

\* A payment that names no proof leaves the proofs' payments as they were.
LEMMA NamelessPayment ==
    ASSUME Proofs!Assumptions, PaymentInv, NEW n, n \notin DOMAIN payment,
           DOMAIN payment' = DOMAIN payment \cup {n},
           \A i \in DOMAIN payment : payment'[i] = payment[i],
           payment'[n].proof = Proofs!None, UNCHANGED proof
    PROVE  PaymentNamed' /\ Proofs!ApprovalIsOnePayment'
<1>1. PaymentNamed'
  BY DEF PaymentInv, PaymentNamed
<1>2. \A id \in DOMAIN proof : id # Proofs!None
  BY DEF PaymentInv, Proofs!TypeOK, Proofs!None
<1>3. \A id \in DOMAIN proof :
         {i \in DOMAIN payment' : payment'[i].proof = id}
            = {i \in DOMAIN payment : payment[i].proof = id}
  BY <1>2
<1>4. Proofs!ApprovalIsOnePayment'
  BY <1>3 DEF PaymentInv, Proofs!ApprovalIsOnePayment
<1> QED
  BY <1>1, <1>4

LEMMA PayKeeps ==
    ASSUME Proofs!Assumptions, PaymentInv, NEW h \in Refresh, Proofs!Pay(h)
    PROVE  PaymentInv'
<1> DEFINE r == handler[h].request
           n == Len(payment) + 1
<1>1. ServingOK(handler[h]) /\ handler[h].step = "transaction" /\ r.kind = "pay"
      /\ UNCHANGED <<uploads, stored, proof, review>> /\ Proofs!RecordPayment(r)
      /\ Proofs!Reply(h, "paid")
  BY DEF PaymentInv, Proofs!Pay
<1>2. r \in Proofs!Request /\ r.key \in Verifier /\ r.amount \in Amount
      /\ r.proof = Proofs!None
  BY <1>1 DEF ServingOK, Proofs!Serving
<1>3. /\ owed' \in Nat /\ payment' \in Seq(Proofs!Payment)
      /\ n \notin DOMAIN payment
      /\ DOMAIN payment' = DOMAIN payment \cup {n}
      /\ \A i \in DOMAIN payment : payment'[i] = payment[i]
      /\ payment'[n].key = r.key /\ payment'[n].proof = Proofs!None
      /\ Proofs!hash(payment'[n]) = Proofs!hash(r)
      /\ record' \in [Verifier -> [amount: Amount \cup {Proofs!None},
                             proof: Proofs!ProofId \cup {Proofs!None}]]
      /\ KeyInv'
  BY <1>1, <1>2, Recorded
<1> HIDE DEF n
<1>4. RowsGrow
  BY <1>1, <1>3 DEF RowsGrow
<1>5. /\ handler' \in [Refresh -> Proofs!Serving]
      /\ \A g \in Refresh : ServingOK(handler[g])'
      /\ FilesApart'
  <2>1. \E i \in DOMAIN payment' : payment'[i].key = r.key
                                   /\ Proofs!hash(payment'[i]) = Proofs!hash(r)
    BY <1>3
  <2> QED
    BY <1>1, <1>4, <2>1, AnswerServing
<1>6. Proofs!TypeOK'
  BY <1>1, <1>3, <1>5 DEF PaymentInv, Proofs!TypeOK
<1>7. PaymentNamed' /\ Proofs!ApprovalIsOnePayment'
  BY <1>1, <1>3, NamelessPayment
<1>8. Proofs!ReceiptsAreKept' /\ ReviewInv'
  BY <1>1 DEF PaymentInv, Proofs!ReceiptsAreKept, ReviewInv
<1> QED
  BY <1>3, <1>5, <1>6, <1>7, <1>8 DEF PaymentInv

LEMMA ReverseKeeps ==
    ASSUME Proofs!Assumptions, PaymentInv, NEW j \in DOMAIN payment, Proofs!Reverse(j)
    PROVE  PaymentInv'
<1> DEFINE n == Len(payment) + 1
           new == [key |-> NoKey, amount |-> payment[j].amount, proof |-> Proofs!None,
                   reverses |-> j]
<1>1. /\ Len(payment) < MaxPayments /\ payment' = Append(payment, new)
      /\ UNCHANGED <<uploads, stored, proof, review, record, handler>>
  BY DEF Proofs!Reverse
<1>2. payment \in Seq(Proofs!Payment) /\ owed \in Nat
  BY DEF PaymentInv, Proofs!TypeOK
<1>3. /\ Len(payment) \in Nat /\ DOMAIN payment = 1 .. Len(payment)
      /\ payment[j] \in Proofs!Payment
  BY <1>2
<1>4. MaxPayments \in Nat /\ Amount \subseteq Nat /\ NoKey \notin Verifier
  BY DEF Proofs!Assumptions
<1>5. payment[j].amount \in Amount /\ j \in 0 .. MaxPayments
  BY <1>1, <1>3, <1>4 DEF Proofs!Payment
<1>6. new \in Proofs!Payment
  BY <1>5 DEF Proofs!Payment
<1>7. /\ payment' \in Seq(Proofs!Payment) /\ n \notin DOMAIN payment
      /\ DOMAIN payment' = DOMAIN payment \cup {n}
      /\ \A i \in DOMAIN payment : payment'[i] = payment[i]
      /\ payment'[n] = new
  BY <1>1, <1>2, <1>3, <1>6
<1>8. new.key = NoKey /\ new.proof = Proofs!None
  OBVIOUS
<1>9. owed' \in Nat
  <2>1. owed' = owed + payment[j].amount
    BY DEF Proofs!Reverse
  <2>2. payment[j].amount \in Nat
    BY <1>4, <1>5
  <2> QED
    BY <1>2, <2>1, <2>2
<1> HIDE DEF n, new
<1>10. RowsGrow
  BY <1>1, <1>7 DEF RowsGrow
<1>11. \A g \in Refresh : ServingOK(handler[g])'
  BY <1>1, <1>10, OtherServing DEF PaymentInv, ServingOK
<1>12. Proofs!TypeOK'
  BY <1>1, <1>7, <1>9 DEF PaymentInv, Proofs!TypeOK
<1>13. PaymentNamed' /\ Proofs!ApprovalIsOnePayment'
  BY <1>1, <1>7, <1>8, NamelessPayment
<1>14. KeyInv'
  <2>1. \A k \in Verifier : {i \in DOMAIN payment' : payment'[i].key = k}
                        = {i \in DOMAIN payment : payment[i].key = k}
    BY <1>4, <1>7, <1>8
  <2>2. \A i \in DOMAIN payment : Proofs!hash(payment'[i]) = Proofs!hash(payment[i])
    BY <1>7
  <2> QED
    BY <1>1, <2>1, <2>2 DEF PaymentInv, KeyInv
<1>15. FilesApart' /\ Proofs!ReceiptsAreKept' /\ ReviewInv'
  BY <1>1 DEF PaymentInv, FilesApart, Proofs!ReceiptsAreKept, ReviewInv
<1> QED
  BY <1>11, <1>12, <1>13, <1>14, <1>15 DEF PaymentInv

\* reject and cancel: a pending proof is closed without a payment.
LEMMA ClosedKeeps ==
    ASSUME PaymentInv, NEW id \in DOMAIN proof,
           NEW status \in Proofs!Status \ Proofs!approvedStatuses,
           proof[id].status = "PENDING_CONFIRMATION",
           proof' = [proof EXCEPT ![id].status = status],
           review' \in [Proofs!ProofId -> Seq(Proofs!Status)], ReviewInv',
           UNCHANGED <<owed, uploads, stored, payment, record, handler>>
    PROVE  PaymentInv'
<1>1. proof[id] \in Proofs!Proof
  BY DEF PaymentInv, Proofs!TypeOK
<1>2. /\ DOMAIN proof' = DOMAIN proof /\ proof'[id] \in Proofs!Proof
      /\ proof'[id].status = status /\ proof'[id].key = proof[id].key
      /\ proof'[id].submitted = proof[id].submitted
      /\ proof'[id].payment = proof[id].payment
      /\ \A k \in DOMAIN proof \ {id} : proof'[k] = proof[k]
  BY <1>1 DEF Proofs!Proof
<1>3. RowsGrow
  BY <1>2 DEF RowsGrow, Proofs!approvedStatuses
<1>4. \A g \in Refresh : ServingOK(handler[g])'
  BY <1>2, <1>3, OtherServing DEF PaymentInv, ServingOK
<1>5. Proofs!TypeOK'
  BY <1>2 DEF PaymentInv, Proofs!TypeOK
<1>6. PaymentNamed'
  BY <1>2 DEF PaymentInv, PaymentNamed, Proofs!approvedStatuses
<1>7. Proofs!ApprovalIsOnePayment'
  <2>1. {i \in DOMAIN payment : payment[i].proof = id} = {}
    BY DEF PaymentInv, Proofs!ApprovalIsOnePayment, Proofs!approvedStatuses
  <2> QED
    BY <1>2, <2>1 DEF PaymentInv, Proofs!ApprovalIsOnePayment
<1>8. FilesApart' /\ Proofs!ReceiptsAreKept' /\ KeyInv'
  BY <1>2 DEF PaymentInv, FilesApart, Proofs!ReceiptsAreKept, KeyInv
<1> QED
  BY <1>4, <1>5, <1>6, <1>7, <1>8 DEF PaymentInv

LEMMA RejectKeeps ==
    ASSUME Proofs!Assumptions, PaymentInv, NEW id \in DOMAIN proof, Proofs!Reject(id)
    PROVE  PaymentInv'
<1> DEFINE row == [proof[id] EXCEPT !.status = "REJECTED"]
<1>1. /\ proof[id].status = "PENDING_CONFIRMATION" /\ Proofs!Decide(id, row)
      /\ UNCHANGED <<owed, uploads, stored, payment, record, handler>>
  BY DEF Proofs!Reject
<1>2. proof[id] \in Proofs!Proof
  BY DEF PaymentInv, Proofs!TypeOK
<1>3. row \in Proofs!Proof /\ row.status = "REJECTED"
  BY <1>2 DEF Proofs!Proof, Proofs!Status
<1>4. review' \in [Proofs!ProofId -> Seq(Proofs!Status)] /\ ReviewInv'
  BY <1>1, <1>3, Decided
<1>5. proof' = [proof EXCEPT ![id].status = "REJECTED"]
  BY <1>1 DEF Proofs!Decide
<1> QED
  BY <1>1, <1>4, <1>5, ClosedKeeps DEF Proofs!Status, Proofs!approvedStatuses

LEMMA CancelKeeps ==
    ASSUME PaymentInv, NEW id \in DOMAIN proof, Proofs!Cancel(id)
    PROVE  PaymentInv'
<1>1. /\ proof[id].status = "PENDING_CONFIRMATION"
      /\ proof' = [proof EXCEPT ![id].status = "CANCELLED_BY_COURIER"]
      /\ UNCHANGED <<owed, uploads, stored, review, payment, record, handler>>
  BY DEF Proofs!Cancel
<1>2. proof[id] \in Proofs!Proof
  BY DEF PaymentInv, Proofs!TypeOK
<1>3. /\ DOMAIN proof' = DOMAIN proof
      /\ proof'[id].status = "CANCELLED_BY_COURIER"
      /\ \A k \in DOMAIN proof \ {id} : proof'[k] = proof[k]
  BY <1>1, <1>2 DEF Proofs!Proof
<1>4. review' \in [Proofs!ProofId -> Seq(Proofs!Status)] /\ ReviewInv'
  BY <1>1, <1>3 DEF PaymentInv, Proofs!TypeOK, ReviewInv, Proofs!approvedStatuses
<1> QED
  BY <1>1, <1>4, ClosedKeeps DEF Proofs!Status, Proofs!approvedStatuses

-----------------------------------------------------------------------------
(* The specification.                                                      *)

LEMMA PaymentInitInv == ASSUME Proofs!Assumptions, Proofs!Init PROVE PaymentInv
<1>1. /\ owed \in Nat /\ uploads = 0 /\ stored = {} /\ DOMAIN proof = {}
      /\ review = [id \in Proofs!ProofId |-> <<>>] /\ payment = <<>>
      /\ record = [k \in Verifier |-> Proofs!NoHash]
      /\ handler = [h \in Refresh |-> Proofs!Idle]
      /\ MaxUploads \in Nat
  BY DEF Proofs!Init, Proofs!Assumptions
<1>2. payment \in Seq(Proofs!Payment) /\ DOMAIN payment = {}
  BY <1>1
<1>3. review \in [Proofs!ProofId -> Seq(Proofs!Status)]
  BY <1>1
<1>4. Proofs!Idle \in Proofs!Serving
      /\ Proofs!NoHash \in [amount: Amount \cup {Proofs!None},
                            proof: Proofs!ProofId \cup {Proofs!None}]
  BY HandlerIdle DEF ServingOK, Proofs!NoHash
<1>5. Proofs!TypeOK
  BY <1>1, <1>2, <1>3, <1>4 DEF Proofs!TypeOK
<1>6. (\A h \in Refresh : ServingOK(handler[h])) /\ FilesApart
  BY <1>1, HandlerIdle DEF FilesApart
<1>7. /\ Proofs!ReceiptsAreKept /\ PaymentNamed /\ Proofs!ApprovalIsOnePayment
      /\ KeyInv
      /\ ReviewInv
  BY <1>1, <1>2 DEF Proofs!ReceiptsAreKept, PaymentNamed,
     Proofs!ApprovalIsOnePayment, KeyInv, ReviewInv
<1> QED
  BY <1>5, <1>6, <1>7 DEF PaymentInv

LEMMA PaymentNextInv ==
    ASSUME Proofs!Assumptions, PaymentInv, [Proofs!Next]_(Proofs!vars)
    PROVE  PaymentInv'
<1>1. ASSUME NEW h \in Refresh, Proofs!Receive(h) PROVE PaymentInv'
  BY <1>1, ReceiveKeeps
<1>2. ASSUME NEW h \in Refresh, Proofs!Lookup(h) PROVE PaymentInv'
  BY <1>2, LookupKeeps
<1>3. ASSUME NEW h \in Refresh, Proofs!Store(h) PROVE PaymentInv'
  BY <1>3, StoreKeeps
<1>4. ASSUME NEW h \in Refresh, Proofs!Insert(h) PROVE PaymentInv'
  BY <1>4, InsertKeeps
<1>5. ASSUME NEW h \in Refresh, Proofs!InsertFails(h) PROVE PaymentInv'
  BY <1>5, GotoKeeps DEF Proofs!InsertFails, paymentRows
<1>6. ASSUME NEW h \in Refresh, Proofs!Clean(h) PROVE PaymentInv'
  BY <1>6, CleanKeeps
<1>7. ASSUME NEW h \in Refresh, Proofs!Check(h) PROVE PaymentInv'
  BY <1>7, CheckKeeps
<1>8. ASSUME NEW h \in Refresh, Proofs!Approve(h) PROVE PaymentInv'
  BY <1>8, ApproveKeeps
<1>9. ASSUME NEW h \in Refresh, Proofs!TransactionFails(h) PROVE PaymentInv'
  BY <1>9, EndKeeps DEF Proofs!TransactionFails, Proofs!Refuse, paymentRows
<1>10. ASSUME NEW h \in Refresh, Proofs!Replay(h) PROVE PaymentInv'
  BY <1>10, ReplayKeeps
<1>11. ASSUME NEW h \in Refresh, Proofs!Pay(h) PROVE PaymentInv'
  BY <1>11, PayKeeps
<1>12. ASSUME NEW h \in Refresh, Proofs!Done(h) PROVE PaymentInv'
  BY <1>12, EndKeeps DEF Proofs!Done, paymentRows
<1>13. ASSUME NEW id \in DOMAIN proof, Proofs!Reject(id) \/ Proofs!Cancel(id)
      PROVE  PaymentInv'
  BY <1>13, RejectKeeps, CancelKeeps
<1>14. ASSUME NEW i \in DOMAIN payment, Proofs!Reverse(i) PROVE PaymentInv'
  BY <1>14, ReverseKeeps
<1>15. CASE UNCHANGED Proofs!vars
  <2>1. UNCHANGED paymentRows /\ handler' = handler
    BY <1>15 DEF Proofs!vars, paymentRows
  <2> QED
    BY <2>1 DEF PaymentInv, Proofs!TypeOK, ServingOK, Proofs!keyTaken, FilesApart,
       Proofs!ReceiptsAreKept, PaymentNamed, Proofs!ApprovalIsOnePayment, KeyInv,
       ReviewInv, paymentRows
<1> QED
  BY <1>1, <1>2, <1>3, <1>4, <1>5, <1>6, <1>7, <1>8, <1>9, <1>10, <1>11, <1>12,
     <1>13, <1>14, <1>15 DEF Proofs!Next

LEMMA PaymentInvAlways == Proofs!Spec => []PaymentInv
<1>1. Proofs!Init => PaymentInv
  BY ProofsAssumption, PaymentInitInv
<1>2. PaymentInv /\ [Proofs!Next]_(Proofs!vars) => PaymentInv'
  BY ProofsAssumption, PaymentNextInv
<1> QED
  BY <1>1, <1>2, PTL DEF Proofs!Spec

\* Every reachable state is well typed.
THEOREM PaymentsTypeCorrect == Proofs!Spec => []Proofs!TypeOK
<1>1. PaymentInv => Proofs!TypeOK
  BY DEF PaymentInv
<1> QED
  BY <1>1, PaymentInvAlways, PTL

\* The receipt of every proof is in the storage, however often submissions are
\* repeated and fail (payment-proofs.service.ts submit).
THEOREM PaymentsKeepReceipts == Proofs!Spec => []Proofs!ReceiptsAreKept
<1>1. PaymentInv => Proofs!ReceiptsAreKept
  BY DEF PaymentInv
<1> QED
  BY <1>1, PaymentInvAlways, PTL

\* An approved proof has one payment and a key pays once, whatever approvals,
\* direct payments, reversals, rejections and cancellations run at once.
THEOREM PaymentsArePaidOnce == Proofs!Spec => []Proofs!PaidOnce
<1>1. PaymentInv => Proofs!PaidOnce
  <2>1. PaymentInv => Proofs!KeyPaysOnce
    BY DEF PaymentInv, KeyInv, Proofs!KeyPaysOnce, ServingOK
  <2> QED
    BY <2>1 DEF PaymentInv, Proofs!PaidOnce
<1> QED
  BY <1>1, PaymentInvAlways, PTL

\* Only a pending proof is decided: any step leaves a decided one as it is.
LEMMA DecidedStays ==
    ASSUME Proofs!Assumptions, PaymentInv, [Proofs!Next]_(Proofs!vars),
           NEW id \in DOMAIN proof,
           proof[id].status # "PENDING_CONFIRMATION"
    PROVE  proof'[id] = proof[id]
<1>1. ASSUME UNCHANGED proof PROVE proof'[id] = proof[id]
  BY <1>1
<1>2. ASSUME NEW h \in Refresh, Proofs!Insert(h) PROVE proof'[id] = proof[id]
  <2>1. handler[h].id \notin DOMAIN proof
    BY <1>2 DEF Proofs!Insert, PaymentInv, ServingOK
  <2> QED
    BY <1>2, <2>1 DEF Proofs!Insert
<1>3. ASSUME NEW h \in Refresh, Proofs!Approve(h) PROVE proof'[id] = proof[id]
  <2>1. id # handler[h].request.proof
    BY <1>3 DEF Proofs!Approve, Proofs!isPending
  <2> QED
    BY <1>3, <2>1 DEF Proofs!Approve, Proofs!Decide
<1>4. ASSUME NEW k \in DOMAIN proof, Proofs!Reject(k) \/ Proofs!Cancel(k)
      PROVE  proof'[id] = proof[id]
  <2>1. id # k
    BY <1>4 DEF Proofs!Reject, Proofs!Cancel
  <2> QED
    BY <1>4, <2>1 DEF Proofs!Reject, Proofs!Cancel, Proofs!Decide
<1>5. ASSUME NEW h \in Refresh,
             \/ Proofs!Receive(h) \/ Proofs!Lookup(h) \/ Proofs!Store(h)
             \/ Proofs!InsertFails(h) \/ Proofs!Clean(h)
             \/ Proofs!Check(h) \/ Proofs!TransactionFails(h) \/ Proofs!Replay(h)
             \/ Proofs!Pay(h) \/ Proofs!Done(h)
      PROVE  UNCHANGED proof
  BY <1>5 DEF Proofs!Receive, Proofs!Lookup, Proofs!Store, Proofs!InsertFails,
     Proofs!Clean, Proofs!Check, Proofs!TransactionFails, Proofs!Replay, Proofs!Pay,
     Proofs!Done
<1>6. ASSUME NEW i \in DOMAIN payment, Proofs!Reverse(i) PROVE UNCHANGED proof
  BY <1>6 DEF Proofs!Reverse
<1>7. UNCHANGED Proofs!vars => UNCHANGED proof
  BY DEF Proofs!vars
<1> QED
  BY <1>1, <1>2, <1>3, <1>4, <1>5, <1>6, <1>7 DEF Proofs!Next

\* Decisions are final and the review history tells them, each once.
THEOREM PaymentDecisionsAreFinal == Proofs!Spec => Proofs!DecisionsAreFinal
<1> DEFINE told == \A id \in Proofs!ProofId :
                      review[id] = IF id \in DOMAIN proof
                                      /\ proof[id].status
                                           \in Proofs!approvedStatuses
                                                 \cup {"REJECTED"}
                                   THEN <<proof[id].status>> ELSE <<>>
           stays == \A id \in DOMAIN proof :
                       proof[id].status # "PENDING_CONFIRMATION"
                       => proof'[id] = proof[id]
<1>1. PaymentInv => told
  BY DEF PaymentInv, ReviewInv
<1>2. PaymentInv /\ [Proofs!Next]_(Proofs!vars) => [stays]_(Proofs!vars)
  BY ProofsAssumption, DecidedStays
<1>3. Proofs!Spec => []told /\ [][stays]_(Proofs!vars)
  <2> HIDE DEF told, stays
  <2> QED
    BY <1>1, <1>2, PaymentInvAlways, PTL DEF Proofs!Spec
<1> QED
  BY <1>3 DEF Proofs!DecisionsAreFinal

-----------------------------------------------------------------------------
(* Sessions and payments.                                                  *)

\* Sessions and payments each do what their own specification allows, whichever
\* of them is wanted.
LEMMA EitherKind == WantedSpec => Spec /\ Proofs!Spec
<1>1. WantedInit => Init /\ Proofs!Init
  BY DEF WantedInit
<1>2. [WantedNext]_<<wanted, vars, paymentVars>> =>
         [Next]_vars /\ [Proofs!Next]_(Proofs!vars)
  BY DEF WantedNext, paymentVars, Proofs!vars
<1> QED
  BY <1>1, <1>2, PTL DEF WantedSpec, Spec, Proofs!Spec

\* Sessions, tokens, proofs and payments keep their types.
THEOREM WantedTypeCorrect == WantedSpec => []WantedTypeOK
<1>1. Proofs!Spec => []Proofs!TypeOK
  BY PaymentsTypeCorrect
<1>2. TypeOK /\ Proofs!TypeOK => WantedTypeOK
  BY DEF WantedTypeOK
<1> QED
  BY <1>1, <1>2, EitherKind, TypeCorrect, PTL

\* An approved proof has one payment and a key pays once (payment-proofs
\* approve, finance createPayment).
THEOREM PaidOnceHolds == WantedSpec => []PaidOnce
<1>1. Proofs!Spec => []Proofs!PaidOnce
  BY PaymentsArePaidOnce
<1>2. Proofs!PaidOnce => PaidOnce
  BY DEF PaidOnce
<1> QED
  BY <1>1, <1>2, EitherKind, PTL

\* The receipt of every proof is in the storage, however often submissions are
\* repeated and fail (payment-proofs submit).
THEOREM ReceiptsAreKeptHolds == WantedSpec => []ReceiptsAreKept
<1>1. Proofs!Spec => []Proofs!ReceiptsAreKept
  BY PaymentsKeepReceipts
<1>2. Proofs!ReceiptsAreKept => ReceiptsAreKept
  BY DEF ReceiptsAreKept
<1> QED
  BY <1>1, <1>2, EitherKind, PTL

\* A revoked session stays revoked, whatever a refresh has read of it before,
\* and a decided proof stays decided, with its one review.
THEOREM DecisionsAreFinalHolds == WantedSpec => DecisionsAreFinal
<1>1. Proofs!Spec => Proofs!DecisionsAreFinal
  BY PaymentDecisionsAreFinal
<1> QED
  BY <1>1, EitherKind, RevokedIsFinalHolds DEF DecisionsAreFinal
=============================================================================
