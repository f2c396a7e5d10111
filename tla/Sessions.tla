-------------------------------- MODULE Sessions --------------------------------
(***************************************************************************)
(* The sessions of one account (auth.service.ts, auth.guard.ts) and the    *)
(* courier app that keeps one of them (mobile-session.ts).                 *)
(*                                                                         *)
(* The API reads the session or the challenge, then writes it under a      *)
(* condition, and creates a session only after the transaction that signed *)
(* the user in.  The app refreshes an expired token once for all its       *)
(* requests, restarts at any time with what it has saved, and loses any    *)
(* answer.  Versions of a session row change with its token or its         *)
(* revocation only, so those two stand for the version; rate limits only   *)
(* refuse and are left out.                                                *)
(***************************************************************************)
EXTENDS Naturals, Sequences, FiniteSets

CONSTANTS AppRequest,  \* requests of the app at a time
          SignOut,     \* the one of them that signs out
          Refresh,     \* refreshes of sessions
          Verifier,    \* verifications of one OTP challenge
          MaxServing,  \* bound on what the API serves at a time
          MaxSessions, \* bound on the sessions
          MaxTokens    \* bound on the tokens issued

ASSUME RequestAssumption == SignOut \in AppRequest
ASSUME RefreshAssumption == "none" \notin Refresh
ASSUME BoundAssumption == {MaxServing, MaxSessions, MaxTokens} \subseteq Nat

VARIABLES account,   \* User.status
          session,   \* Session rows; a row's index is its id
          issued,    \* token pairs handed out; a pair's index stands for it
          expired,   \* the pairs up to this one have an expired access token
          challenge, \* the OtpChallenge row
          verify,    \* what each verification of the challenge has come to
          refresh,   \* what each refresh being served has come to
          signIn,    \* the sign-in of the app that is being served
          device,    \* the tokens of the app, the refresh it waits for, and
                     \* the sessions during which it was killed
          request    \* what each request of the app has come to

api == <<account, session, issued, challenge>>
serving == <<verify, refresh, signIn>>
app == <<device, request>>
vars == <<api, expired, serving, app>>

None == 0
NoRefresh == "none"
Token == 1 .. MaxTokens
SessionId == 1 .. MaxSessions
mayEnter == {"ACTIVE", "PENDING"}

Session == [current: Token, previous: Token \cup {None}, revoked: BOOLEAN]

\* What a pair was exchanged for: an earlier pair, the challenge or a password.
Pair == [session: SessionId, for: Token \cup {None}, otp: BOOLEAN]

RefreshStep == {"read", "reuse", "rotate", "refused", "answer"}
RequestStep == {"idle", "sent", "waiting", "retried"}

Init ==
    /\ account \in mayEnter
    /\ session = <<>>
    /\ issued = <<>>
    /\ expired = None
    /\ challenge = [consumed |-> FALSE, valid |-> TRUE]
    /\ verify = [v \in Verifier |-> "idle"]
    /\ refresh = [r \in {} |-> None]
    /\ signIn = "idle"
    /\ device = [held |-> None, renewing |-> NoRefresh, killed |-> {}]
    /\ request = [q \in AppRequest |-> [step |-> "idle", token |-> None]]

newest == Len(issued)
serviceable ==
    Cardinality({v \in Verifier : verify[v] # "idle"})
      + Cardinality(DOMAIN refresh) + (IF signIn = "idle" THEN 0 ELSE 1)
        < MaxServing

live(s) == ~session[s].revoked
idle(q) == [request EXCEPT ![q] = [step |-> "idle", token |-> None]]

\* createSession.
createSession(otp) ==
    /\ Len(session) < MaxSessions /\ newest < MaxTokens
    /\ issued' = Append(issued, [session |-> Len(session) + 1, for |-> None,
                                 otp |-> otp])
    /\ session' = Append(session, [current |-> newest + 1, previous |-> None,
                                   revoked |-> FALSE])

\* Every live session of the user is revoked.
revokeAll == session' = [s \in DOMAIN session |->
                           [session[s] EXCEPT !.revoked = TRUE]]

-----------------------------------------------------------------------------
(* One-time passwords.                                                     *)

\* The challenge is read.  A wrong code counts an attempt, and the last one
\* makes the challenge invalid, like its expiry.
checkOtp(v) ==
    /\ verify[v] = "idle"
    /\ serviceable
    /\ challenge.valid /\ ~challenge.consumed
    /\ \/ /\ verify' = [verify EXCEPT ![v] =
                           IF account = "PENDING" THEN "invited" ELSE "known"]
          /\ UNCHANGED challenge
       \/ /\ challenge' = [challenge EXCEPT !.valid = FALSE]
          /\ UNCHANGED verify
    /\ UNCHANGED <<account, session, issued, expired, refresh, signIn, app>>

\* Mistake: the challenge is not looked at again.
unused_AsRead == TRUE
unused == ~challenge.consumed

\* The transaction consumes the challenge and signs the user in; an account
\* that was read as PENDING becomes ACTIVE, whatever it is by now.
consumeOtp(v) ==
    LET status == IF verify[v] = "invited" THEN "ACTIVE" ELSE account IN
    /\ verify[v] \in {"invited", "known"}
    /\ IF unused /\ status = "ACTIVE"
       THEN /\ challenge' = [challenge EXCEPT !.consumed = TRUE]
            /\ account' = status
            /\ verify' = [verify EXCEPT ![v] = "signed in"]
       ELSE /\ verify' = [verify EXCEPT ![v] = "idle"]
            /\ UNCHANGED <<challenge, account>>
    /\ UNCHANGED <<session, issued, expired, refresh, signIn, app>>

\* The session follows, unless the process dies first.
verifyOtp(v) ==
    /\ verify[v] = "signed in"
    /\ verify' = [verify EXCEPT ![v] = "idle"]
    /\ \/ createSession(TRUE)
       \/ UNCHANGED <<session, issued>>
    /\ UNCHANGED <<account, challenge, expired, refresh, signIn, app>>

-----------------------------------------------------------------------------
(* Refreshing.                                                             *)

\* The session is found by its current or its previous token.
readSession(r) ==
    /\ r \in DOMAIN refresh
    /\ refresh[r].step = "read"
    /\ LET t == refresh[r].token
           s == issued[t].session
       IN  refresh' = [refresh EXCEPT ![r].step =
             IF t \notin {session[s].current, session[s].previous} \/ ~live(s)
             THEN "refused"
             ELSE IF session[s].previous = t THEN "reuse"
             ELSE IF account \in mayEnter THEN "rotate" ELSE "refused"]
    /\ UNCHANGED <<api, expired, verify, signIn, app>>

revokeReused(r) ==
    /\ r \in DOMAIN refresh
    /\ refresh[r].step = "reuse"
    /\ session' = [session EXCEPT ![issued[refresh[r].token].session].revoked = TRUE]
    /\ refresh' = [refresh EXCEPT ![r].step = "refused"]
    /\ UNCHANGED <<account, issued, challenge, expired, verify, signIn, app>>

\* Mistake: a session that was revoked meanwhile is rotated all the same.
mayRotate_Revoked(t) == session[issued[t].session].current = t
\* Mistake: a token that was rotated meanwhile is rotated again.
mayRotate_Rotated(t) == live(issued[t].session)
mayRotate(t) ==
    /\ session[issued[t].session].current = t
    /\ live(issued[t].session)

answered(r) == [g \in DOMAIN refresh \ {r} |-> refresh[g]]

\* A rotation hands out the next pair; the app that waits for it saves it,
\* then holds it, and sends its waiting requests again.
rotate(r) ==
    LET t == refresh[r].token
        s == issued[t].session
    IN
    /\ r \in DOMAIN refresh
    /\ refresh[r].step = "rotate"
    /\ IF mayRotate(t)
       THEN /\ newest < MaxTokens
            /\ issued' = Append(issued, [session |-> s, for |-> t, otp |-> FALSE])
            /\ session' = [session EXCEPT ![s].current = newest + 1,
                                          ![s].previous = t]
            /\ refresh' = [refresh EXCEPT ![r] = [step |-> "answer",
                                                  token |-> newest + 1]]
       ELSE /\ refresh' = [refresh EXCEPT ![r].step = "refused"]
            /\ UNCHANGED <<issued, session>>
    /\ UNCHANGED <<account, challenge, expired, verify, signIn, app>>

\* Mistake: the refresh is not forgotten when it has ended.
inFlight_Kept == device.renewing
inFlight == NoRefresh

waiting == {q \in AppRequest : request[q].step = "waiting"}

\* establish: the app keeps the pair and its waiting requests try again.
establish(r) ==
    /\ r \in DOMAIN refresh
    /\ refresh[r].step = "answer"
    /\ refresh' = answered(r)
    /\ IF device.renewing = r
       THEN /\ device' = [device EXCEPT !.held = refresh[r].token,
                                        !.renewing = inFlight]
            /\ request' = [q \in AppRequest |->
                 IF q \in waiting
                 THEN [step |-> "retried", token |-> refresh[r].token]
                 ELSE request[q]]
       ELSE UNCHANGED app
    /\ UNCHANGED <<api, expired, verify, signIn>>

signedOut == [device EXCEPT !.held = None]

\* A refusal, a lost answer or a process that dies: the app clears its tokens.
refreshFails(r) ==
    /\ r \in DOMAIN refresh
    /\ refresh' = answered(r)
    /\ IF device.renewing = r
       THEN /\ device' = [signedOut EXCEPT !.renewing = inFlight]
            /\ request' = [q \in AppRequest |->
                 IF q \in waiting THEN idle(q)[q] ELSE request[q]]
       ELSE UNCHANGED app
    /\ UNCHANGED <<api, expired, verify, signIn>>

-----------------------------------------------------------------------------
(* The app.                                                                *)

\* passwordLogin reads the account, then creates a session.
signInStarts ==
    /\ device.held = None
    /\ signIn = "idle" /\ serviceable
    /\ account \in mayEnter
    /\ signIn' = "read"
    /\ UNCHANGED <<api, expired, verify, refresh, app>>

passwordLogin ==
    /\ signIn = "read"
    /\ signIn' = "idle"
    /\ createSession(FALSE)
    /\ \/ device' = [device EXCEPT !.held = newest + 1]
       \/ UNCHANGED device
    /\ UNCHANGED <<account, challenge, expired, verify, refresh, request>>

ask(q) ==
    /\ device.held # None
    /\ request[q].step = "idle"
    /\ request' = [request EXCEPT ![q] = [step |-> "sent", token |-> device.held]]
    /\ UNCHANGED <<api, expired, serving, device>>

\* AuthGuard.canActivate.
canActivate(t) ==
    /\ t > expired
    /\ live(issued[t].session)
    /\ account \in mayEnter

flying(q) == request[q].step \in {"sent", "retried"}

\* Signing out clears the app when the request is over, however it ended.
over(q) ==
    /\ request' = idle(q)
    /\ device' = IF q = SignOut THEN signedOut ELSE device

answer(q) ==
    /\ flying(q)
    /\ canActivate(request[q].token)
    /\ session' = IF q = SignOut
                  THEN [session EXCEPT ![issued[request[q].token].session].revoked
                                         = TRUE]
                  ELSE session
    /\ over(q)
    /\ UNCHANGED <<account, issued, challenge, expired, serving>>

connectionFails(q) ==
    /\ flying(q)
    /\ over(q)
    /\ UNCHANGED <<api, expired, serving>>

\* Mistake: every request that is refused renews the tokens itself.
mayRenew_Each == TRUE
mayRenew == device.renewing = NoRefresh

\* refreshAfterUnauthorized: tokens that changed meanwhile are tried, else one
\* refresh serves every request that needs it.
unauthorized(q) ==
    /\ request[q].step = "sent"
    /\ ~canActivate(request[q].token)
    /\ \/ /\ device.held = None
          /\ over(q)
          /\ UNCHANGED refresh
       \/ /\ device.held \notin {None, request[q].token}
          /\ request' = [request EXCEPT ![q] = [step |-> "retried",
                                                token |-> device.held]]
          /\ UNCHANGED <<device, refresh>>
       \/ /\ device.held = request[q].token
          /\ ~mayRenew
          /\ request' = [request EXCEPT ![q].step = "waiting"]
          /\ UNCHANGED <<device, refresh>>
       \/ /\ device.held = request[q].token
          /\ mayRenew /\ serviceable
          /\ \E r \in Refresh \ DOMAIN refresh :
                /\ device' = [device EXCEPT !.renewing = r]
                /\ refresh' = [g \in DOMAIN refresh \cup {r} |->
                     IF g = r THEN [step |-> "read", token |-> device.held]
                     ELSE refresh[g]]
          /\ request' = [request EXCEPT ![q].step = "waiting"]
    /\ UNCHANGED <<api, expired, verify, signIn>>

\* The second refusal clears the tokens, whichever they are.
unauthorizedAgain(q) ==
    /\ request[q].step = "retried"
    /\ ~canActivate(request[q].token)
    /\ request' = idle(q)
    /\ device' = signedOut
    /\ UNCHANGED <<api, expired, serving>>

heldSession == {issued[t].session : t \in {device.held} \ {None}}

\* The app is killed and started again: it restores the tokens it has saved,
\* which are the ones it held (a pair is saved before it is used).
restore ==
    /\ device' = [device EXCEPT !.renewing = NoRefresh,
                                !.killed = @ \cup heldSession]
    /\ request' = [q \in AppRequest |-> [step |-> "idle", token |-> None]]
    /\ signIn' = "idle"
    /\ UNCHANGED <<api, expired, verify, refresh>>

-----------------------------------------------------------------------------
(* Other requests of the account, and administrators.                      *)

\* logoutAll, changePassword and adminResetPassword.
logoutAll ==
    /\ session # <<>>
    /\ revokeAll
    /\ UNCHANGED <<account, issued, challenge, expired, serving, app>>

updateUserStatus ==
    /\ \E status \in {"ACTIVE", "SUSPENDED"} :
          /\ account' = status
          /\ IF status = "ACTIVE" THEN UNCHANGED session ELSE revokeAll
    /\ UNCHANGED <<issued, challenge, expired, serving, app>>

\* Access tokens live equally long, so they expire in the order of their issue.
accessTokenExpires ==
    /\ expired < newest
    /\ expired' = expired + 1
    /\ UNCHANGED <<api, serving, app>>

Next ==
    \/ \E v \in Verifier : checkOtp(v) \/ consumeOtp(v) \/ verifyOtp(v)
    \/ \E r \in Refresh : readSession(r) \/ revokeReused(r) \/ rotate(r)
                            \/ establish(r) \/ refreshFails(r)
    \/ signInStarts \/ passwordLogin
    \/ \E q \in AppRequest : ask(q) \/ answer(q) \/ connectionFails(q)
                               \/ unauthorized(q) \/ unauthorizedAgain(q)
    \/ restore \/ logoutAll \/ updateUserStatus \/ accessTokenExpires

Spec == Init /\ [][Next]_vars

-----------------------------------------------------------------------------
(* Properties.                                                             *)

\* Every variable holds what the schema and the steps allow.
TypeOK ==
    /\ account \in {"PENDING", "ACTIVE", "SUSPENDED"}
    /\ session \in Seq(Session) /\ Len(session) <= MaxSessions
    /\ issued \in Seq(Pair) /\ newest <= MaxTokens
    /\ expired \in 0 .. newest
    /\ challenge \in [consumed: BOOLEAN, valid: BOOLEAN]
    /\ verify \in [Verifier -> {"idle", "invited", "known", "signed in"}]
    /\ DOMAIN refresh \subseteq Refresh
    /\ \A r \in DOMAIN refresh :
          refresh[r] \in [step: RefreshStep, token: DOMAIN issued]
    /\ signIn \in {"idle", "read"}
    /\ device \in [held: 0 .. newest,
                   renewing: DOMAIN refresh \cup {NoRefresh},
                   killed: SUBSET SessionId]
    /\ \A q \in AppRequest :
          request[q] \in [step: RequestStep, token: 0 .. newest]

\* A pair of tokens is exchanged for one other pair at most and the challenge
\* for one session, however many requests present it at once: "every refresh
\* atomically replaces the digest", "verify and consume atomically"
\* (docs/architecture/auth-sessions.md:27 and :57).
CredentialsWorkOnce ==
    \A i, j \in DOMAIN issued : i # j =>
        /\ (issued[i].for = issued[j].for) => (issued[i].for = None)
        /\ ~(issued[i].otp /\ issued[j].otp)

\* A revoked session stays as it is, whatever a refresh has read of it before:
\* no later token belongs to it (docs/architecture/auth-sessions.md:39).
RevokedIsFinal ==
    [][/\ \A s \in DOMAIN session : session[s].revoked => session'[s] = session[s]
       /\ (newest' > newest /\ issued'[newest'].session \in DOMAIN session) =>
             live(issued'[newest'].session)]_vars

\* The requests of the app share one refresh, so that renewing a token never
\* looks like its reuse, which signs the courier out, unless the app was killed
\* while a refresh was being served (mobile-session.test.ts:59).
RenewingIsNotReuse ==
    \A r \in DOMAIN refresh :
        device.renewing = r /\ refresh[r].step = "reuse" =>
            issued[refresh[r].token].session \in device.killed
=============================================================================
