-------------------------- MODULE CourierOnboardingProofs --------------------------
(***************************************************************************)
(* Proofs about CourierOnboarding, for any document types and files, any   *)
(* requests and decisions at a time, and any bounds.                       *)
(*                                                                         *)
(* IInv says what a request has read that still holds when it writes       *)
(* (RequestsOK), the same of a decision (DecisionsOK), that no two uploads *)
(* store their file under one key (KeysApart), that a type with documents  *)
(* has a current one (LinesEnd), and that only an application which has    *)
(* all its documents has ever left the first statuses (SubmittedOnce).     *)
(***************************************************************************)
EXTENDS CourierOnboarding, SequenceTheorems, TLAPS

complete == \A t \in DocType : currentOf(t) # {}

\* The request r keeps a file that is not, or not yet, in a row.
keepsFile(r) == r.step \in {"record", "clean"}

\* What the request r knows of the profile is so, or the profile's version
\* tells that it no longer is.
fits(r) ==
    /\ r.kind = "submit" /\ r.step \in {"allowed", "complete"} =>
          /\ profile.status # "NONE" /\ r.version <= profile.version
          /\ r.version = profile.version => r.from = profile.status
    /\ r.kind = "edit" =>
          /\ r.version <= profile.version
          /\ r.step = "allowed" =>
                /\ profile.status # "NONE"
                /\ r.version = profile.version => profile.status \in editableStatuses

requestOK(r) ==
    /\ r \in Serving
    /\ r.kind = "upload" => r.file \in File
    /\ fits(r)
    /\ keepsFile(r) =>
          /\ r.kind = "upload" /\ r.key \in 1 .. keys
          /\ r.step = "record" => r.key \in objects
          /\ \A i \in DOMAIN doc : doc[i].key # r.key
    /\ r.kind = "submit" /\ r.step = "complete" => complete

decisionOK(d) ==
    /\ d \in Decision
    /\ profile.status # "NONE" /\ d.version <= profile.version
    /\ d.version = profile.version => d.from = profile.status

RequestsOK == \A h \in DOMAIN handler : requestOK(handler[h])

DecisionsOK == \A a \in DOMAIN deciding : decisionOK(deciding[a])

KeysApart ==
    \A g, h \in DOMAIN handler :
       g # h /\ keepsFile(handler[g]) /\ keepsFile(handler[h]) =>
          handler[g].key # handler[h].key

LinesEnd == \A i \in DOMAIN doc : currentOf(doc[i].type) # {}

SubmittedOnce == profile.status \notin {"NONE", "INCOMPLETE", "DRAFT"} => complete

\* EvidenceIsKept, where the document that i replaces is described rather
\* than chosen.
before(i) == {j \in DOMAIN doc : doc[j].type = doc[i].type /\ j < i}
LinesOK ==
    \A i \in DOMAIN doc :
       /\ before(i) = {} => doc[i].supersedes = None
       /\ before(i) # {} => /\ doc[i].supersedes \in before(i)
                            /\ \A k \in before(i) : k <= doc[i].supersedes
       /\ doc[i].current <=> \A j \in DOMAIN doc : doc[j].type = doc[i].type => j <= i
       /\ doc[i].current <=> doc[i].status # "SUPERSEDED"
FilesKept == \A i \in DOMAIN doc : doc[i].key \in objects
ToldOK == told \subseteq {<<doc[i].type, doc[i].file>> : i \in DOMAIN doc}

\* The inductive invariant.
IInv ==
    /\ TypeOK
    /\ RequestsOK
    /\ DecisionsOK
    /\ KeysApart
    /\ LinesEnd
    /\ SubmittedOnce
    /\ LinesOK
    /\ FilesKept
    /\ ToldOK

-----------------------------------------------------------------------------
(* Requests, decisions and the profile from one state to the next.         *)

LEMMA Typed ==
    ASSUME IInv
    PROVE  /\ doc \in Seq(Document) /\ Len(doc) \in Nat /\ Len(doc) <= MaxDocs
           /\ DOMAIN doc = 1 .. Len(doc) /\ \A i \in DOMAIN doc : doc[i] \in Document
           /\ keys \in 0 .. MaxKeys /\ objects \subseteq 1 .. keys
           /\ {MaxDocs, MaxKeys, MaxVersion, MaxReviews} \subseteq Nat
           /\ profile \in [status: VerificationStatus, version: 1 .. MaxVersion]
<1>1. doc \in Seq(Document) /\ Len(doc) \in 0 .. MaxDocs
  BY DEF IInv, TypeOK
<1>2. Len(doc) \in Nat /\ Len(doc) <= MaxDocs
  BY <1>1, BoundAssumption
<1>3. DOMAIN doc = 1 .. Len(doc) /\ \A i \in DOMAIN doc : doc[i] \in Document
  BY <1>1
<1> QED
  BY <1>1, <1>2, <1>3, BoundAssumption DEF IInv, TypeOK

\* A status changes with the version, except the first one.
ProfileMoves ==
    \/ profile' = profile
    \/ /\ profile.status = "NONE" /\ profile'.status = "INCOMPLETE"
       /\ profile'.version = profile.version
    \/ /\ profile'.version = profile.version + 1 /\ profile'.status # "NONE"

\* A request is one that was being served, or one that knows what it should.
Handling ==
    /\ DOMAIN handler' \subseteq Handler
    /\ \A h \in DOMAIN handler' :
          \/ h \in DOMAIN handler /\ handler'[h] = handler[h]
          \/ /\ requestOK(handler'[h])
             /\ keepsFile(handler'[h]) =>
                   /\ h \in DOMAIN handler /\ keepsFile(handler[h])
                   /\ handler'[h].key = handler[h].key

Deciding ==
    /\ DOMAIN deciding' \subseteq Admin
    /\ \A a \in DOMAIN deciding' :
          \/ a \in DOMAIN deciding /\ deciding'[a] = deciding[a]
          \/ decisionOK(deciding'[a])

LEMMA SameHandling ==
    ASSUME IInv, UNCHANGED handler
    PROVE  Handling
BY DEF IInv, TypeOK, Handling

LEMMA OverHandling ==
    ASSUME IInv, NEW h, over(h)
    PROVE  Handling
BY DEF IInv, TypeOK, Handling, over

LEMMA SameDeciding ==
    ASSUME IInv, UNCHANGED deciding
    PROVE  Deciding
BY DEF IInv, TypeOK, Deciding

\* One request goes on as r.
LEMMA GoesOn ==
    ASSUME IInv, NEW h \in DOMAIN handler, NEW r, handler' = [handler EXCEPT ![h] = r],
           requestOK(r), keepsFile(r) => keepsFile(handler[h]) /\ r.key = handler[h].key
    PROVE  Handling
<1>1. /\ DOMAIN handler' = DOMAIN handler /\ handler'[h] = r
      /\ \A g \in DOMAIN handler \ {h} : handler'[g] = handler[g]
  OBVIOUS
<1> QED
  BY <1>1 DEF IInv, TypeOK, Handling

LEMMA FitsStill ==
    ASSUME IInv, ProfileMoves, NEW r \in Serving, fits(r)
    PROVE  fits(r)'
<1>1. profile.version \in Nat /\ r.version \in Nat
  BY Typed DEF Serving
<1>2. CASE profile' = profile
  BY <1>2 DEF fits
<1>3. CASE profile'.version = profile.version + 1 /\ profile'.status # "NONE"
  BY <1>1, <1>3 DEF fits
<1>4. CASE /\ profile.status = "NONE" /\ profile'.status = "INCOMPLETE"
           /\ profile'.version = profile.version
  BY <1>1, <1>4 DEF fits
<1> QED
  BY <1>2, <1>3, <1>4 DEF ProfileMoves

LEMMA DecisionStill ==
    ASSUME IInv, ProfileMoves, NEW d, decisionOK(d)
    PROVE  decisionOK(d)'
<1>1. profile.version \in Nat /\ d.version \in Nat
  BY Typed DEF decisionOK, Decision
<1>2. CASE profile' = profile
  BY <1>2 DEF decisionOK
<1>3. CASE profile'.version = profile.version + 1 /\ profile'.status # "NONE"
  BY <1>1, <1>3 DEF decisionOK
<1> QED
  BY <1>2, <1>3 DEF ProfileMoves, decisionOK

LEMMA DecisionsStill ==
    ASSUME IInv, ProfileMoves, Deciding
    PROVE  /\ DecisionsOK' /\ DOMAIN deciding' \subseteq Admin
           /\ \A a \in DOMAIN deciding' : deciding'[a] \in Decision
<1>1. \A a \in DOMAIN deciding' : decisionOK(deciding'[a])
  BY DEF Deciding, IInv, DecisionsOK
<1>2. \A d : decisionOK(d) => decisionOK(d)'
  BY DecisionStill
<1>3. DecisionsOK'
  BY <1>1, <1>2 DEF DecisionsOK, decisionOK
<1> QED
  BY <1>1, <1>3 DEF Deciding, decisionOK

\* A step that leaves the documents and their files alone.
LEMMA Frame ==
    ASSUME IInv, UNCHANGED <<doc, keys, objects>>,
           ProfileMoves, profile' \in [status: VerificationStatus, version: 1 .. MaxVersion],
           profile'.status \notin {"NONE", "INCOMPLETE", "DRAFT"} => complete,
           account' \in UserStatus,
           vehicle' \in [added: BOOLEAN, active: BOOLEAN, version: 1 .. MaxReviews],
           zones' \subseteq CityZones,
           event' \in VerificationStatus \X VerificationStatus,
           told' \subseteq told \cup {<<doc[i].type, doc[i].file>> : i \in DOMAIN doc},
           Handling, Deciding
    PROVE  IInv'
<1>1. DecisionsOK' /\ DOMAIN deciding' \subseteq Admin
      /\ \A a \in DOMAIN deciding' : deciding'[a] \in Decision
  BY DecisionsStill
<1>2. \A h \in DOMAIN handler' : requestOK(handler'[h])
  BY DEF Handling, IInv, RequestsOK
<1>3. complete' <=> complete
  BY DEF complete, currentOf
<1>4. \A r : requestOK(r) => requestOK(r)'
  <2> SUFFICES ASSUME NEW r, requestOK(r) PROVE requestOK(r)'
    OBVIOUS
  <2>1. fits(r)'
    BY FitsStill DEF requestOK
  <2> QED
    BY <1>3, <2>1 DEF requestOK
<1>5. RequestsOK'
  BY <1>2, <1>4 DEF RequestsOK, requestOK, fits
<1>6. KeysApart'
  <2>1. \A h \in DOMAIN handler' : keepsFile(handler'[h]) =>
           /\ h \in DOMAIN handler /\ keepsFile(handler[h])
           /\ handler'[h].key = handler[h].key
    BY DEF Handling
  <2> QED
    BY <2>1 DEF IInv, KeysApart, keepsFile
<1>7. LinesEnd' /\ SubmittedOnce'
  <2>1. LinesEnd'
    BY DEF IInv, LinesEnd, currentOf
  <2>2. complete' <=> complete
    BY DEF complete, currentOf
  <2>3. SubmittedOnce'
    BY <2>2 DEF SubmittedOnce
  <2> QED
    BY <2>1, <2>3
<1>8. {<<doc[i].type, doc[i].file>> : i \in DOMAIN doc} \subseteq DocType \X File
  <2>1. \A i \in DOMAIN doc : doc[i].type \in DocType /\ doc[i].file \in File
    BY Typed DEF Document
  <2> QED
    BY <2>1
<1>9. LinesOK' /\ FilesKept' /\ ToldOK'
  BY DEF IInv, LinesOK, FilesKept, ToldOK, before
<1>10. TypeOK'
  <2>1. \A h \in DOMAIN handler' : handler'[h] \in Serving
    BY <1>2 DEF requestOK
  <2>2. told' \subseteq DocType \X File
    BY <1>8 DEF IInv, TypeOK
  <2>3. DOMAIN handler' \subseteq Handler
    BY DEF Handling
  <2> QED
    BY <1>1, <2>1, <2>2, <2>3 DEF IInv, TypeOK
<1> QED
  BY <1>1, <1>5, <1>6, <1>7, <1>9, <1>10 DEF IInv

\* A step that leaves every row alone.
LEMMA RowsStay ==
    ASSUME IInv, UNCHANGED <<rows, keys, objects>>, event' = NoMove,
           told' \subseteq told \cup {<<doc[i].type, doc[i].file>> : i \in DOMAIN doc},
           Handling, Deciding
    PROVE  IInv'
<1>1. UNCHANGED <<profile, account, vehicle, doc, zones>> /\ ProfileMoves
  BY DEF rows, ProfileMoves
<1>2. event' \in VerificationStatus \X VerificationStatus
  BY DEF NoMove, VerificationStatus
<1> QED
  BY <1>1, <1>2, Frame DEF IInv, TypeOK, SubmittedOnce

-----------------------------------------------------------------------------
(* Requests of the app.                                                    *)

LEMMA SendKeeps ==
    ASSUME IInv, NEW h \in Handler, NEW kind \in Kind, NEW t \in DocType,
           NEW f \in File \cup {NoFile}, kind = "upload" => f \in File,
           NEW supersedes \in 0 .. MaxDocs, NEW version \in 0 .. MaxVersion \cup 0 .. MaxReviews,
           kind = "edit" => version <= profile.version,
           send(h, kind, t, f, supersedes, version)
    PROVE  IInv'
<1>1. PICK r : r = [step |-> "received", kind |-> kind, type |-> t, file |-> f,
                    supersedes |-> supersedes, version |-> version,
                    from |-> "NONE", key |-> None]
  OBVIOUS
<1>2. /\ DOMAIN handler' = DOMAIN handler \cup {h} /\ h \notin DOMAIN handler
      /\ handler'[h] = r /\ \A g \in DOMAIN handler : handler'[g] = handler[g]
      /\ event' = NoMove /\ UNCHANGED <<rows, keys, objects, told, deciding>>
  BY <1>1 DEF send
<1>3. /\ r.step = "received" /\ r.kind = kind /\ r.file = f /\ r.version = version
      /\ r \in Serving
  <2>1. None \in 0 .. MaxKeys /\ "NONE" \in VerificationStatus /\ "received" \in Step
    BY BoundAssumption DEF None, VerificationStatus, Step
  <2> QED
    BY <1>1, <2>1 DEF Serving
<1>4. requestOK(r) /\ ~keepsFile(r)
  BY <1>3 DEF requestOK, keepsFile, fits
<1>5. Handling
  BY <1>2, <1>4 DEF Handling, IInv, TypeOK
<1> QED
  BY <1>2, <1>5, SameDeciding, RowsStay

LEMMA SaysNothing ==
    ASSUME IInv
    PROVE  /\ None \in 0 .. MaxDocs /\ None \in 0 .. MaxVersion
           /\ 1 .. profile.version \subseteq 0 .. MaxVersion
           /\ VehicleLicence \in DocType
<1>1. profile.version \in 1 .. MaxVersion
  BY Typed
<1> QED
  BY <1>1, BoundAssumption, TypeAssumption DEF None

LEMMA SaveProfileKeeps == ASSUME IInv, NEW h \in Handler, saveProfile(h) PROVE IInv'
<1>1. CASE send(h, "create", VehicleLicence, NoFile, None, None)
  BY <1>1, SaysNothing, SendKeeps DEF Kind
<1>2. ASSUME NEW shown \in 1 .. profile.version,
             send(h, "edit", VehicleLicence, NoFile, None, shown)
      PROVE  IInv'
  <2>1. shown \in 0 .. MaxVersion /\ shown <= profile.version
    BY SaysNothing
  <2> QED
    BY <1>2, <2>1, SaysNothing, SendKeeps DEF Kind
<1> QED
  BY <1>1, <1>2 DEF saveProfile

LEMMA SubmitKeeps == ASSUME IInv, NEW h \in Handler, submit(h) PROVE IInv'
BY SaysNothing, SendKeeps DEF Kind, submit

LEMMA UploadDocumentKeeps == ASSUME IInv, NEW h \in Handler, uploadDocument(h) PROVE IInv'
<1>1. PICK t \in DocType, f \in File : \E shown \in {None} \cup {i \in DOMAIN doc : doc[i].type = t} :
          send(h, "upload", t, f, shown, None)
  BY DEF uploadDocument
<1>2. PICK shown \in {None} \cup {i \in DOMAIN doc : doc[i].type = t} :
          send(h, "upload", t, f, shown, None)
  BY <1>1
<1>3. shown \in 0 .. MaxDocs
  <2>1. shown = None \/ shown \in 1 .. Len(doc)
    BY Typed
  <2>2. Len(doc) \in Nat /\ Len(doc) <= MaxDocs /\ MaxDocs \in Nat
    BY Typed
  <2> QED
    BY <2>1, <2>2 DEF None
<1> QED
  BY <1>2, <1>3, SaysNothing, SendKeeps DEF Kind

LEMMA SaveVehicleKeeps == ASSUME IInv, NEW h \in Handler, saveVehicle(h) PROVE IInv'
<1>1. PICK shown \in {None} \cup 1 .. vehicle.version :
          send(h, "vehicle", VehicleLicence, NoFile, None, shown)
  BY DEF saveVehicle
<1>2. shown \in 0 .. MaxVersion \cup 0 .. MaxReviews
  <2>1. vehicle.version \in 1 .. MaxReviews /\ MaxReviews \in Nat /\ MaxVersion \in Nat
    BY Typed DEF IInv, TypeOK
  <2> QED
    BY <2>1 DEF None
<1> QED
  BY <1>1, <1>2, SaysNothing, SendKeeps DEF Kind

LEMMA DroppedKeeps ==
    ASSUME IInv, NEW h, over(h), event' = NoMove,
           UNCHANGED <<rows, keys, objects, told, deciding>>
    PROVE  IInv'
BY OverHandling, SameDeciding, RowsStay

-----------------------------------------------------------------------------
(* Requests being served.                                                  *)

\* A request that is let in knows the status and, to submit, the version.
LEMMA AssertEditableKeeps ==
    ASSUME IInv, NEW h \in Handler, assertEditable(h) PROVE IInv'
<1>1. PICK r : r = handler[h]
  OBVIOUS
<1>2. /\ event' = NoMove /\ h \in DOMAIN handler /\ r.step = "received"
      /\ UNCHANGED <<rows, keys, objects, deciding>>
  BY <1>1 DEF assertEditable
<1>3. requestOK(r) /\ r \in Serving
  BY <1>1, <1>2 DEF IInv, RequestsOK, requestOK
<1>4. CASE refused(h)
  BY <1>2, <1>4, DroppedKeeps DEF refused
<1>5. CASE /\ IF r.kind = "create" THEN profile.status = "NONE"
              ELSE profile.status \in editableStatuses
           /\ handler' = [handler EXCEPT
                 ![h].step = "allowed",
                 ![h].from = profile.status,
                 ![h].version = IF r.kind = "submit" THEN profile.version ELSE @]
           /\ UNCHANGED told
  <2>1. PICK q : q = [r EXCEPT !.step = "allowed", !.from = profile.status,
                        !.version = IF r.kind = "submit" THEN profile.version ELSE @]
    OBVIOUS
  <2>2. handler' = [handler EXCEPT ![h] = q]
    BY <1>1, <1>5, <2>1
  <2>3. /\ q.step = "allowed" /\ q.kind = r.kind /\ q.file = r.file
        /\ q.from = profile.status /\ q \in Serving
        /\ q.version = IF r.kind = "submit" THEN profile.version ELSE r.version
    <3>1. profile.version \in 0 .. MaxVersion /\ profile.status \in VerificationStatus
      BY Typed
    <3> QED
      BY <1>3, <2>1, <3>1 DEF Serving, Step
  <2>4. fits(q)
    <3>1. r.kind # "create" => profile.status # "NONE" /\ profile.status \in editableStatuses
      BY <1>5 DEF editableStatuses
    <3>2. profile.version <= profile.version
      BY Typed
    <3>3. r.kind = "edit" => r.version <= profile.version
      BY <1>3 DEF requestOK, fits
    <3> QED
      BY <2>3, <3>1, <3>2, <3>3 DEF fits
  <2>5. requestOK(q) /\ ~keepsFile(q)
    BY <1>3, <2>3, <2>4 DEF requestOK, keepsFile
  <2>6. Handling
    BY <1>2, <2>2, <2>5, GoesOn
  <2> QED
    BY <1>2, <1>5, <2>6, SameDeciding, RowsStay
<1> QED
  BY <1>1, <1>4, <1>5 DEF assertEditable

\* A request that goes on to a later step.
LEMMA GotoHandling ==
    ASSUME IInv, NEW h \in DOMAIN handler, NEW step \in Step \ {"received", "allowed"},
           Goto(h, step),
           step = "complete" => handler[h].step = "allowed" /\ complete,
           step # "complete" => handler[h].kind = "upload",
           step \in {"record", "clean"} => step = "clean" /\ handler[h].step = "record"
    PROVE  Handling
<1>1. PICK r, q : r = handler[h] /\ q = [r EXCEPT !.step = step]
  OBVIOUS
<1>2. requestOK(r) /\ r \in Serving
  BY <1>1 DEF IInv, RequestsOK, requestOK
<1>3. /\ q \in Serving /\ q.step = step /\ q.kind = r.kind /\ q.file = r.file
      /\ q.version = r.version /\ q.from = r.from /\ q.key = r.key
  BY <1>1, <1>2 DEF Serving
<1>4. fits(q)
  BY <1>1, <1>2, <1>3 DEF requestOK, fits
<1>5. requestOK(q)
  BY <1>1, <1>2, <1>3, <1>4 DEF requestOK, keepsFile
<1>6. handler' = [handler EXCEPT ![h] = q]
  BY <1>1 DEF Goto
<1> QED
  BY <1>1, <1>3, <1>5, <1>6, GoesOn DEF keepsFile

LEMMA CreateProfileKeeps == ASSUME IInv, NEW h \in Handler, createProfile(h) PROVE IInv'
<1>1. /\ event' = NoMove /\ over(h) /\ UNCHANGED told
      /\ UNCHANGED <<account, vehicle, doc, keys, objects, zones, deciding>>
      /\ \/ profile.status = "NONE" /\ profile' = [profile EXCEPT !.status = "INCOMPLETE"]
         \/ UNCHANGED profile
  BY DEF createProfile, at, done, refused
<1>2. CASE UNCHANGED profile
  BY <1>1, <1>2, DroppedKeeps DEF rows
<1>3. CASE profile.status = "NONE" /\ profile' = [profile EXCEPT !.status = "INCOMPLETE"]
  <2>1. /\ profile' \in [status: VerificationStatus, version: 1 .. MaxVersion]
        /\ profile'.status = "INCOMPLETE" /\ profile'.version = profile.version
    BY <1>3, Typed DEF VerificationStatus, editableStatuses
  <2>2. event' \in VerificationStatus \X VerificationStatus
    BY <1>1 DEF NoMove, VerificationStatus
  <2> QED
    BY <1>1, <1>3, <2>1, <2>2, OverHandling, SameDeciding, Frame
       DEF ProfileMoves, IInv, TypeOK
<1> QED
  BY <1>1, <1>2, <1>3

LEMMA UpdateProfileKeeps == ASSUME IInv, NEW h \in Handler, updateProfile(h) PROVE IInv'
<1>1. PICK r : r = handler[h]
  OBVIOUS
<1>2. /\ event' = NoMove /\ over(h) /\ UNCHANGED told
      /\ h \in DOMAIN handler /\ r.kind = "edit" /\ r.step = "allowed"
      /\ UNCHANGED <<account, vehicle, doc, keys, objects, zones, deciding>>
      /\ \/ /\ EditFits(r.version) /\ profile.version < MaxVersion
            /\ profile' = [profile EXCEPT !.version = @ + 1]
         \/ UNCHANGED profile
  BY <1>1 DEF updateProfile, at, done, refused
<1>3. CASE UNCHANGED profile
  BY <1>2, <1>3, DroppedKeeps DEF rows
<1>4. CASE /\ EditFits(r.version) /\ profile.version < MaxVersion
           /\ profile' = [profile EXCEPT !.version = @ + 1]
  <2>1. profile.version + 1 \in 1 .. MaxVersion
    BY <1>4, Typed
  <2>2. /\ profile' \in [status: VerificationStatus, version: 1 .. MaxVersion]
        /\ profile'.status = profile.status /\ profile'.version = profile.version + 1
    BY <1>4, <2>1, Typed
  <2>3. profile.status # "NONE"
    BY <1>1, <1>2 DEF IInv, RequestsOK, requestOK, fits
  <2>4. event' \in VerificationStatus \X VerificationStatus
    BY <1>2 DEF NoMove, VerificationStatus
  <2> QED
    BY <1>2, <2>2, <2>3, <2>4, OverHandling, SameDeciding, Frame
       DEF ProfileMoves, IInv, TypeOK, SubmittedOnce
<1> QED
  BY <1>2, <1>3, <1>4

\* A step of a request that may write the vehicle, and nothing else.
LEMMA VehicleKeeps ==
    ASSUME IInv, NEW h, event' = NoMove, over(h),
           vehicle' \in [added: BOOLEAN, active: BOOLEAN, version: 1 .. MaxReviews],
           UNCHANGED <<profile, account, doc, keys, objects, zones, told, deciding>>
    PROVE  IInv'
<1>1. event' \in VerificationStatus \X VerificationStatus
  BY DEF NoMove, VerificationStatus
<1> QED
  BY <1>1, OverHandling, SameDeciding, Frame DEF ProfileMoves, IInv, TypeOK, SubmittedOnce

LEMMA AddVehicleKeeps == ASSUME IInv, NEW h \in Handler, addVehicle(h) PROVE IInv'
<1>1. /\ event' = NoMove /\ over(h) /\ UNCHANGED told
      /\ UNCHANGED <<profile, account, doc, keys, objects, zones, deciding>>
      /\ \/ vehicle' = vehicle
         \/ vehicle' = [added |-> TRUE, active |-> TRUE, version |-> 1]
  BY DEF addVehicle, at, done, refused
<1>2. vehicle' \in [added: BOOLEAN, active: BOOLEAN, version: 1 .. MaxReviews]
  <2>1. vehicle \in [added: BOOLEAN, active: BOOLEAN, version: 1 .. MaxReviews]
    BY DEF IInv, TypeOK
  <2>2. 1 \in 1 .. MaxReviews
    BY BoundAssumption
  <2>3. [added |-> TRUE, active |-> TRUE, version |-> 1]
           \in [added: BOOLEAN, active: BOOLEAN, version: 1 .. MaxReviews]
    BY <2>2
  <2>4. CASE vehicle' = vehicle
    BY <2>1, <2>4
  <2>5. CASE vehicle' = [added |-> TRUE, active |-> TRUE, version |-> 1]
    BY <2>3, <2>5
  <2> QED
    BY <1>1, <2>4, <2>5
<1> QED
  BY <1>1, <1>2, VehicleKeeps

LEMMA UpdateVehicleKeeps == ASSUME IInv, NEW h \in Handler, updateVehicle(h) PROVE IInv'
<1>1. /\ event' = NoMove /\ over(h) /\ UNCHANGED told
      /\ UNCHANGED <<profile, account, doc, keys, objects, zones, deciding>>
      /\ \/ UNCHANGED vehicle
         \/ /\ vehicle.version < MaxReviews
            /\ \E active \in BOOLEAN :
                  vehicle' = [vehicle EXCEPT !.active = active, !.version = @ + 1]
  BY DEF updateVehicle, at, done, refused
<1>2. vehicle' \in [added: BOOLEAN, active: BOOLEAN, version: 1 .. MaxReviews]
  <2>1. vehicle \in [added: BOOLEAN, active: BOOLEAN, version: 1 .. MaxReviews]
    BY DEF IInv, TypeOK
  <2>2. vehicle.version < MaxReviews => vehicle.version + 1 \in 1 .. MaxReviews
    BY <2>1, BoundAssumption
  <2> QED
    BY <1>1, <2>1, <2>2
<1> QED
  BY <1>1, <1>2, VehicleKeeps

\* A retry is answered with the row it finds.
LEMMA FindCurrentKeeps == ASSUME IInv, NEW h \in Handler, findCurrent(h) PROVE IInv'
<1>1. PICK r : r = handler[h]
  OBVIOUS
<1>2. /\ event' = NoMove /\ h \in DOMAIN handler /\ r.kind = "upload" /\ r.step = "allowed"
      /\ UNCHANGED <<rows, keys, objects, deciding>>
      /\ \/ refused(h)
         \/ isRetry(r) /\ done(h)
         \/ Goto(h, "store") /\ UNCHANGED told
  BY <1>1 DEF findCurrent, at
<1>3. CASE refused(h)
  BY <1>2, <1>3, DroppedKeeps DEF refused
<1>4. CASE isRetry(r) /\ done(h)
  <2>1. PICK i \in currentOf(r.type) : doc[i].file = r.file
    BY <1>4 DEF isRetry
  <2>2. over(h) /\ told' = told \cup {<<doc[i].type, doc[i].file>>} /\ i \in DOMAIN doc
    BY <1>1, <1>2, <1>4, <2>1 DEF done, currentOf
  <2> QED
    BY <1>2, <2>2, OverHandling, SameDeciding, RowsStay
<1>5. CASE Goto(h, "store") /\ UNCHANGED told
  <2>1. Handling
    BY <1>1, <1>2, <1>5, GotoHandling DEF Step
  <2> QED
    BY <1>2, <1>5, <2>1, SameDeciding, RowsStay
<1> QED
  BY <1>2, <1>3, <1>4, <1>5

LEMMA CheckCompleteKeeps == ASSUME IInv, NEW h \in Handler, checkComplete(h) PROVE IInv'
<1>1. /\ event' = NoMove /\ h \in DOMAIN handler /\ handler[h].step = "allowed"
      /\ UNCHANGED <<rows, keys, objects, told, deciding>>
      /\ over(h) \/ (Goto(h, "complete") /\ complete)
  BY DEF checkComplete, at, refused, isComplete, complete
<1>2. CASE over(h)
  BY <1>1, <1>2, DroppedKeeps
<1>3. CASE Goto(h, "complete") /\ complete
  <2>1. Handling
    BY <1>1, <1>3, GotoHandling DEF Step
  <2> QED
    BY <1>1, <2>1, SameDeciding, RowsStay
<1> QED
  BY <1>1, <1>2, <1>3

LEMMA SubmitForReviewKeeps ==
    ASSUME IInv, NEW h \in Handler, submitForReview(h) PROVE IInv'
<1>1. PICK r : r = handler[h]
  OBVIOUS
<1>2. /\ h \in DOMAIN handler /\ r.kind = "submit" /\ r.step = "complete"
      /\ UNCHANGED <<account, vehicle, doc, keys, objects, zones, deciding, told>>
      /\ over(h)
      /\ \/ event' = NoMove /\ UNCHANGED profile
         \/ /\ profile.version < MaxVersion
            /\ profile' = [status |-> "PENDING_REVIEW", version |-> profile.version + 1]
            /\ event' = <<r.from, "PENDING_REVIEW">>
  BY <1>1 DEF submitForReview, at, done, refused
<1>3. CASE event' = NoMove /\ UNCHANGED profile
  BY <1>2, <1>3, DroppedKeeps DEF rows
<1>4. CASE /\ profile.version < MaxVersion
           /\ profile' = [status |-> "PENDING_REVIEW", version |-> profile.version + 1]
           /\ event' = <<r.from, "PENDING_REVIEW">>
  <2>1. profile.version + 1 \in 1 .. MaxVersion
    BY <1>4, Typed
  <2>2. /\ profile' \in [status: VerificationStatus, version: 1 .. MaxVersion]
        /\ profile'.status = "PENDING_REVIEW" /\ profile'.version = profile.version + 1
    BY <1>4, <2>1 DEF VerificationStatus
  <2>3. complete /\ r \in Serving
    BY <1>1, <1>2 DEF IInv, RequestsOK, requestOK
  <2>4. event' \in VerificationStatus \X VerificationStatus
    BY <1>4, <2>3 DEF Serving, VerificationStatus
  <2> QED
    BY <1>2, <2>2, <2>3, <2>4, OverHandling, SameDeciding, Frame
       DEF ProfileMoves, IInv, TypeOK
<1> QED
  BY <1>2, <1>3, <1>4

LEMMA RecordFailsKeeps == ASSUME IInv, NEW h \in Handler, recordFails(h) PROVE IInv'
<1>1. /\ event' = NoMove /\ h \in DOMAIN handler /\ handler[h].kind = "upload"
      /\ handler[h].step = "record" /\ Goto(h, "clean")
      /\ UNCHANGED <<rows, keys, objects, told, deciding>>
  BY DEF recordFails, at
<1>2. Handling
  BY <1>1, GotoHandling DEF Step
<1> QED
  BY <1>1, <1>2, SameDeciding, RowsStay

LEMMA DiesKeeps == ASSUME IInv, NEW h \in Handler, dies(h) PROVE IInv'
BY DroppedKeeps DEF dies, refused

-----------------------------------------------------------------------------
(* Administrators.                                                         *)

LEMMA UpdateUserStatusKeeps == ASSUME IInv, updateUserStatus PROVE IInv'
<1>1. /\ event' = NoMove /\ account' \in UserStatus
      /\ UNCHANGED <<profile, vehicle, doc, zones, keys, objects, handler, told, deciding>>
  BY DEF updateUserStatus, requests
<1>2. event' \in VerificationStatus \X VerificationStatus
  BY <1>1 DEF NoMove, VerificationStatus
<1> QED
  BY <1>1, <1>2, SameHandling, SameDeciding, Frame DEF ProfileMoves, IInv, TypeOK, SubmittedOnce

LEMMA RuleOf ==
    ASSUME NEW action \in Action
    PROVE  /\ rules[action].to \in VerificationStatus \ {"NONE"}
           /\ rules[action].from
                \subseteq {"PENDING_REVIEW", "CHANGES_REQUESTED", "APPROVED", "SUSPENDED"}
<1>1. /\ rules["approve"].to = "APPROVED" /\ rules["approve"].from = {"PENDING_REVIEW"}
      /\ rules["request_changes"].to = "CHANGES_REQUESTED"
      /\ rules["request_changes"].from = {"PENDING_REVIEW"}
      /\ rules["reject"].to = "REJECTED"
      /\ rules["reject"].from = {"PENDING_REVIEW", "CHANGES_REQUESTED"}
      /\ rules["suspend"].to = "SUSPENDED" /\ rules["suspend"].from = {"APPROVED"}
      /\ rules["reactivate"].to = "APPROVED" /\ rules["reactivate"].from = {"SUSPENDED"}
  BY DEF rules
<1>2. action \in {"approve", "request_changes", "reject", "suspend", "reactivate"}
  BY DEF Action
<1> QED
  BY <1>1, <1>2 DEF VerificationStatus, editableStatuses

LEMMA ReadCourierKeeps ==
    ASSUME IInv, NEW a \in Admin, NEW action \in Action, readCourier(a, action)
    PROVE  IInv'
<1>1. PICK d : d = [action |-> action, version |-> profile.version, from |-> profile.status]
  OBVIOUS
<1>2. /\ event' = NoMove /\ UNCHANGED <<rows, keys, objects, handler, told>>
      /\ profile.status \in rules[action].from
      /\ DOMAIN deciding' = DOMAIN deciding \cup {a}
      /\ \A b \in DOMAIN deciding \ {a} : deciding'[b] = deciding[b]
      /\ deciding'[a] = d
  BY <1>1 DEF readCourier, requests
<1>3. decisionOK(d)
  <2>1. /\ d.action = action /\ d.version = profile.version /\ d.from = profile.status
        /\ d \in Decision
    BY <1>1, Typed DEF Decision
  <2>2. profile.version <= profile.version
    BY Typed
  <2>3. profile.status # "NONE"
    BY <1>2, RuleOf
  <2> QED
    BY <2>1, <2>2, <2>3 DEF decisionOK
<1>4. Deciding
  BY <1>2, <1>3 DEF Deciding, IInv, TypeOK
<1> QED
  BY <1>2, <1>4, SameHandling, RowsStay

LEMMA TransitionCourierKeeps == ASSUME IInv, NEW a \in Admin, transitionCourier(a) PROVE IInv'
<1>1. PICK d, r : d = deciding[a] /\ r = rules[d.action]
  OBVIOUS
<1>2. /\ a \in DOMAIN deciding /\ deciding' = [b \in DOMAIN deciding \ {a} |-> deciding[b]]
      /\ UNCHANGED <<vehicle, doc, keys, objects, handler, told>>
      /\ \/ /\ stillAsSeen(d) /\ profile.version < MaxVersion
            /\ profile' = [status |-> r.to, version |-> profile.version + 1]
            /\ event' = <<d.from, r.to>>
            /\ account' \in {"ACTIVE", account} /\ zones' \in {zones, zones \cup CityZones}
         \/ event' = NoMove /\ UNCHANGED <<profile, account, zones>>
  BY <1>1 DEF transitionCourier, requests
<1>3. Deciding
  BY <1>2 DEF Deciding, IInv, TypeOK
<1>4. d \in Decision /\ d.action \in Action /\ d.from \in VerificationStatus
  BY <1>1, <1>2 DEF IInv, TypeOK, Decision
<1>5. /\ r.to \in VerificationStatus \ {"NONE"}
      /\ r.from \subseteq {"PENDING_REVIEW", "CHANGES_REQUESTED", "APPROVED", "SUSPENDED"}
  BY <1>1, <1>4, RuleOf
<1>6. CASE event' = NoMove /\ UNCHANGED <<profile, account, zones>>
  BY <1>2, <1>3, <1>6, SameHandling, RowsStay DEF rows
<1>7. CASE /\ stillAsSeen(d) /\ profile.version < MaxVersion
           /\ profile' = [status |-> r.to, version |-> profile.version + 1]
           /\ event' = <<d.from, r.to>>
           /\ account' \in {"ACTIVE", account} /\ zones' \in {zones, zones \cup CityZones}
  <2>1. profile.version + 1 \in 1 .. MaxVersion
    BY <1>7, Typed
  <2>2. /\ profile' \in [status: VerificationStatus, version: 1 .. MaxVersion]
        /\ profile'.status = r.to /\ profile'.version = profile.version + 1
    BY <1>5, <1>7, <2>1
  <2>3. complete
    BY <1>1, <1>5, <1>7 DEF stillAsSeen, IInv, SubmittedOnce
  <2>4. event' \in VerificationStatus \X VerificationStatus
    BY <1>4, <1>5, <1>7
  <2>5. account' \in UserStatus /\ zones' \subseteq CityZones
    BY <1>7, StatusAssumption DEF IInv, TypeOK
  <2> QED
    BY <1>2, <1>3, <1>5, <2>2, <2>3, <2>4, <2>5, SameHandling, Frame
       DEF ProfileMoves, IInv, TypeOK
<1> QED
  BY <1>2, <1>6, <1>7

-----------------------------------------------------------------------------
(* Files.                                                                  *)

LEMMA RequestStill ==
    ASSUME IInv, ProfileMoves, complete => complete', (1 .. keys) \subseteq (1 .. keys'),
           NEW r, requestOK(r),
           keepsFile(r) => /\ r.key \in objects => r.key \in objects'
                           /\ \A i \in DOMAIN doc' : doc'[i].key # r.key
    PROVE  requestOK(r)'
<1>1. fits(r)'
  BY FitsStill DEF requestOK
<1> QED
  BY <1>1 DEF requestOK, keepsFile

LEMMA SameProfile ==
    ASSUME UNCHANGED <<profile, doc>>
    PROVE  /\ ProfileMoves /\ (complete' <=> complete)
           /\ LinesEnd' <=> LinesEnd
           /\ SubmittedOnce' <=> SubmittedOnce
           /\ LinesOK' <=> LinesOK
<1>1. ProfileMoves /\ (complete' <=> complete)
  BY DEF ProfileMoves, complete, currentOf
<1>2. LinesEnd' <=> LinesEnd
  BY DEF LinesEnd, currentOf
<1>3. SubmittedOnce' <=> SubmittedOnce
  BY <1>1 DEF SubmittedOnce
<1>4. LinesOK' <=> LinesOK
  BY DEF LinesOK, before
<1> QED
  BY <1>1, <1>2, <1>3, <1>4

\* The key is new, so no row and no other upload has it.
LEMMA PutObjectKeeps == ASSUME IInv, NEW h \in Handler, putObject(h) PROVE IInv'
<1>1. PICK r, k, q : /\ r = handler[h] /\ k = keys + 1
                     /\ q = [r EXCEPT !.step = "record", !.key = k]
  OBVIOUS
<1>2. /\ h \in DOMAIN handler /\ r.kind = "upload" /\ r.step = "store" /\ keys < MaxKeys
      /\ keys' = k /\ objects' = objects \cup {k} /\ event' = NoMove
      /\ UNCHANGED <<profile, account, vehicle, doc, zones, told, deciding>>
  BY <1>1 DEF putObject, at, rows
<1>3. handler' = [handler EXCEPT ![h] = q]
  BY <1>1 DEF putObject
<1>4. /\ k \in 1 .. MaxKeys /\ (1 .. keys) \subseteq (1 .. k) /\ k \notin 1 .. keys
      /\ k \in 1 .. k /\ k \in 0 .. MaxKeys
  <2>1. keys \in Nat /\ MaxKeys \in Nat /\ keys < MaxKeys
    BY <1>2, Typed
  <2> QED
    BY <1>1, <2>1
<1>5. requestOK(r) /\ r \in Serving
  BY <1>1, <1>2 DEF IInv, RequestsOK, requestOK
<1>6. /\ q \in Serving /\ q.step = "record" /\ q.kind = "upload" /\ q.file = r.file
      /\ q.key = k
  BY <1>1, <1>2, <1>4, <1>5 DEF Serving, Step
<1>7. \A i \in DOMAIN doc : doc[i].key # k
  BY <1>4, Typed DEF IInv, FilesKept
<1>8. requestOK(q)'
  BY <1>2, <1>4, <1>5, <1>6, <1>7 DEF requestOK, fits
<1>9. /\ DOMAIN handler' = DOMAIN handler /\ handler'[h] = q
      /\ \A g \in DOMAIN handler \ {h} : handler'[g] = handler[g]
  BY <1>3, <1>2
<1>10. \A g \in DOMAIN handler \ {h} : requestOK(handler[g])
  BY DEF IInv, RequestsOK
<1>11. \A p : requestOK(p) => requestOK(p)'
  <2> SUFFICES ASSUME NEW p, requestOK(p) PROVE requestOK(p)'
    OBVIOUS
  <2>1. \A i \in DOMAIN doc : keepsFile(p) => doc[i].key # p.key
    BY DEF requestOK
  <2> QED
    BY <1>2, <1>4, <2>1, SameProfile, RequestStill
<1>12. RequestsOK'
  <2> SUFFICES ASSUME NEW g \in DOMAIN handler' PROVE requestOK(handler[g])'
    BY DEF RequestsOK
  <2>1. CASE g = h
    BY <1>8, <1>9, <2>1 DEF requestOK, fits, keepsFile
  <2>2. CASE g # h
    <3>1. PICK p : p = handler[g]
      OBVIOUS
    <3>2. p = handler'[g] /\ requestOK(p)'
      BY <1>9, <1>10, <1>11, <2>2, <3>1
    <3> QED
      BY <3>2 DEF requestOK, fits, keepsFile
  <2> QED
    BY <2>1, <2>2
<1>13. KeysApart'
  <2>1. \A g \in DOMAIN handler : keepsFile(handler[g]) => handler[g].key # k
    BY <1>4 DEF IInv, RequestsOK, requestOK
  <2> QED
    BY <1>6, <1>9, <2>1 DEF IInv, KeysApart, keepsFile
<1>14. FilesKept' /\ ToldOK'
  BY <1>2 DEF IInv, FilesKept, ToldOK
<1>15. DecisionsOK'
  BY <1>2, SameProfile, SameDeciding, DecisionsStill
<1>16. TypeOK'
  <2>1. \A g \in DOMAIN handler' : handler'[g] \in Serving
    BY <1>6, <1>9, <1>10 DEF requestOK
  <2>2. objects' \subseteq 1 .. keys' /\ keys' \in 0 .. MaxKeys
    BY <1>2, <1>4, Typed
  <2>3. event' \in VerificationStatus \X VerificationStatus
    BY <1>2 DEF NoMove, VerificationStatus
  <2> QED
    BY <1>2, <1>9, <2>1, <2>2, <2>3 DEF IInv, TypeOK
<1> QED
  BY <1>2, <1>12, <1>13, <1>14, <1>15, <1>16, SameProfile DEF IInv

\* The file that is deleted is in no row and no other upload's.
LEMMA CleanUpKeeps == ASSUME IInv, NEW h \in Handler, cleanUp(h) PROVE IInv'
<1>1. PICK r : r = handler[h]
  OBVIOUS
<1>2. /\ h \in DOMAIN handler /\ r.step = "clean" /\ event' = NoMove /\ over(h)
      /\ objects' \in {objects, objects \ {r.key}}
      /\ UNCHANGED <<profile, account, vehicle, doc, zones, told, keys, deciding>>
  BY <1>1 DEF cleanUp, at, rows, refused, orphan
<1>3. DOMAIN handler' = DOMAIN handler \ {h} /\ \A g \in DOMAIN handler' : handler'[g] = handler[g]
  BY <1>2 DEF over
<1>4. \A g \in DOMAIN handler' :
         /\ requestOK(handler[g])
         /\ keepsFile(handler[g]) => handler[g].key # r.key
  BY <1>1, <1>2, <1>3 DEF IInv, RequestsOK, KeysApart, keepsFile
<1>5. \A i \in DOMAIN doc : doc[i].key # r.key
  BY <1>1, <1>2 DEF IInv, RequestsOK, requestOK, keepsFile
<1>6. RequestsOK'
  <2> SUFFICES ASSUME NEW g \in DOMAIN handler' PROVE requestOK(handler[g])'
    BY DEF RequestsOK
  <2>1. PICK p : p = handler[g]
    OBVIOUS
  <2>2. p = handler'[g] /\ requestOK(p) /\ (keepsFile(p) => p.key # r.key)
    BY <1>3, <1>4, <2>1
  <2>3. \A i \in DOMAIN doc : keepsFile(p) => doc[i].key # p.key
    BY <2>2 DEF requestOK
  <2>4. requestOK(p)'
    BY <1>2, <2>2, <2>3, SameProfile, RequestStill
  <2> QED
    BY <2>2, <2>4 DEF requestOK, fits, keepsFile
<1>7. KeysApart'
  BY <1>3 DEF IInv, KeysApart, keepsFile
<1>8. FilesKept' /\ ToldOK'
  BY <1>2, <1>5 DEF IInv, FilesKept, ToldOK
<1>9. DecisionsOK'
  BY <1>2, SameProfile, SameDeciding, DecisionsStill
<1>10. TypeOK'
  <2>1. \A g \in DOMAIN handler' : handler'[g] \in Serving
    BY <1>3, <1>4 DEF requestOK
  <2>2. objects' \subseteq 1 .. keys' /\ DOMAIN handler' \subseteq Handler
    BY <1>2, <1>3, Typed DEF IInv, TypeOK
  <2>3. event' \in VerificationStatus \X VerificationStatus
    BY <1>2 DEF NoMove, VerificationStatus
  <2> QED
    BY <1>2, <2>1, <2>2, <2>3 DEF IInv, TypeOK
<1> QED
  BY <1>2, <1>6, <1>7, <1>8, <1>9, <1>10, SameProfile DEF IInv

-----------------------------------------------------------------------------
(* Documents.                                                              *)

\* The rows once the document n of the request r is among them.
IsRecorded(r, n) ==
    /\ DOMAIN doc' = DOMAIN doc \cup {n}
    /\ \A i \in DOMAIN doc :
          /\ doc'[i].type = doc[i].type /\ doc'[i].file = doc[i].file
          /\ doc'[i].key = doc[i].key /\ doc'[i].supersedes = doc[i].supersedes
          /\ i = r.supersedes => ~doc'[i].current /\ doc'[i].status = "SUPERSEDED"
          /\ i # r.supersedes =>
                (doc'[i].current <=> doc[i].current) /\ doc'[i].status = doc[i].status
    /\ doc'[n].type = r.type /\ doc'[n].file = r.file /\ doc'[n].key = r.key
    /\ doc'[n].supersedes = r.supersedes /\ doc'[n].status = "PENDING"
    /\ doc'[n].current

LEMMA Recorded ==
    ASSUME IInv, NEW h \in Handler, recordDocument(h), NEW r, r = handler[h],
           NEW n, n = Len(doc) + 1
    PROVE  /\ IsRecorded(r, n)
           /\ doc' \in Seq(Document) /\ Len(doc') = n /\ n \in Nat /\ n <= MaxDocs
           /\ \A i \in DOMAIN doc : i \in Nat /\ i < n /\ i # n
<1>1. PICK d : d = [type |-> r.type, file |-> r.file, key |-> r.key,
                    status |-> "PENDING", current |-> TRUE,
                    reviewVersion |-> 1, supersedes |-> r.supersedes]
  OBVIOUS
<1>2. PICK base : base = [i \in DOMAIN doc |->
                            IF i = r.supersedes
                            THEN [doc[i] EXCEPT !.current = FALSE,
                                                !.status = "SUPERSEDED"]
                            ELSE doc[i]]
  OBVIOUS
<1>3. doc' = Append(base, d) /\ Len(doc) < MaxDocs /\ h \in DOMAIN handler
      /\ r.kind = "upload" /\ r.step = "record"
  BY <1>1, <1>2 DEF recordDocument, at
<1>4. /\ r \in Serving /\ r.file \in File /\ r.key \in 1 .. keys
  BY <1>3 DEF IInv, RequestsOK, requestOK, keepsFile
<1>5. d \in Document
  <2>1. 1 \in 1 .. MaxReviews /\ "PENDING" \in DocumentStatus
    BY BoundAssumption DEF DocumentStatus
  <2>2. r.key \in 1 .. MaxKeys
    <3>1. keys \in Nat /\ MaxKeys \in Nat /\ keys <= MaxKeys
      BY Typed
    <3> QED
      BY <1>4, <3>1
  <2> QED
    BY <1>1, <1>4, <2>1, <2>2 DEF Document, Serving
<1>6. /\ doc \in Seq(Document) /\ DOMAIN doc = 1 .. Len(doc) /\ Len(doc) \in Nat
      /\ \A i \in DOMAIN doc : doc[i] \in Document
  BY Typed
<1>7. \A i \in DOMAIN doc :
         /\ base[i] \in Document
         /\ base[i].type = doc[i].type /\ base[i].file = doc[i].file
         /\ base[i].key = doc[i].key /\ base[i].supersedes = doc[i].supersedes
         /\ i = r.supersedes => ~base[i].current /\ base[i].status = "SUPERSEDED"
         /\ i # r.supersedes => base[i] = doc[i]
  BY <1>2, <1>6 DEF Document, DocumentStatus
<1>8. base \in Seq(Document) /\ Len(base) = Len(doc) /\ DOMAIN base = DOMAIN doc
  <2>1. base = [i \in 1 .. Len(doc) |-> base[i]]
    BY <1>2, <1>6
  <2>2. \A i \in 1 .. Len(doc) : base[i] \in Document
    BY <1>6, <1>7
  <2> QED
    BY <1>6, <2>1, <2>2
<1>9. /\ doc' \in Seq(Document) /\ Len(doc') = Len(doc) + 1
      /\ \A i \in 1 .. Len(doc) : doc'[i] = base[i]
      /\ doc'[Len(doc) + 1] = d
  BY <1>3, <1>5, <1>8, AppendProperties
<1>10. /\ n \in Nat /\ n <= MaxDocs /\ Len(doc') = n
       /\ DOMAIN doc' = DOMAIN doc \cup {n} /\ doc' \in Seq(Document)
       /\ \A i \in DOMAIN doc : i \in Nat /\ i < n /\ i # n
  <2>1. DOMAIN doc' = 1 .. n /\ n = Len(doc) + 1 /\ Len(doc) \in Nat
        /\ Len(doc) < MaxDocs /\ MaxDocs \in Nat
    BY <1>3, <1>6, <1>9, Typed
  <2> QED
    BY <1>6, <1>9, <2>1
<1>11. doc'[n] = d /\ \A i \in DOMAIN doc : doc'[i] = base[i]
  BY <1>6, <1>9
<1>12. /\ d.type = r.type /\ d.file = r.file /\ d.key = r.key /\ d.status = "PENDING"
       /\ d.current = TRUE /\ d.supersedes = r.supersedes
  BY <1>1
<1>13. IsRecorded(r, n)
  BY <1>7, <1>10, <1>11, <1>12 DEF IsRecorded
<1> QED
  BY <1>10, <1>13

\* The new document ends the line of its type, and the old end gives way.
LEMMA RecordedLines ==
    ASSUME IInv, NEW r, NEW n, mayRecord(r), r.supersedes # None => r.supersedes \in Nat,
           n \in Nat, \A i \in DOMAIN doc : i \in Nat /\ i < n /\ i # n,
           IsRecorded(r, n)
    PROVE  LinesOK' /\ LinesEnd' /\ (complete => complete')
<1> USE DEF IsRecorded
<1>1. \A i \in DOMAIN doc :
         /\ before(i) = {} => doc[i].supersedes = None
         /\ before(i) # {} => /\ doc[i].supersedes \in before(i)
                              /\ \A k \in before(i) : k <= doc[i].supersedes
         /\ doc[i].current <=> \A j \in DOMAIN doc : doc[j].type = doc[i].type => j <= i
         /\ doc[i].current <=> doc[i].status # "SUPERSEDED"
  BY DEF IInv, LinesOK
<1>2. \A i \in DOMAIN doc : \E c \in DOMAIN doc : doc[c].type = doc[i].type /\ doc[c].current
  BY DEF IInv, LinesEnd, currentOf
<1>3. r.supersedes = None => \A i \in DOMAIN doc : doc[i].type # r.type
  BY <1>2 DEF mayRecord, currentOf
<1>4. r.supersedes # None =>
         /\ r.supersedes \in DOMAIN doc /\ doc[r.supersedes].type = r.type
         /\ doc[r.supersedes].current
         /\ \A j \in DOMAIN doc : doc[j].type = r.type => j <= r.supersedes
  BY <1>1 DEF mayRecord, currentOf
<1>5. None \notin DOMAIN doc
  BY Typed DEF None
<1>6. \A i \in DOMAIN doc : before(i)' = before(i)
  BY DEF before
<1>7. before(n)' = {j \in DOMAIN doc : doc[j].type = r.type}
  BY DEF before
<1>8. LinesOK'
  <2> SUFFICES ASSUME NEW i \in DOMAIN doc'
               PROVE  /\ before(i)' = {} => doc'[i].supersedes = None
                      /\ before(i)' # {} =>
                            /\ doc'[i].supersedes \in before(i)'
                            /\ \A k \in before(i)' : k <= doc'[i].supersedes
                      /\ doc'[i].current <=>
                            \A j \in DOMAIN doc' : doc'[j].type = doc'[i].type => j <= i
                      /\ doc'[i].current <=> doc'[i].status # "SUPERSEDED"
    BY DEF LinesOK
  <2>1. CASE i = n
    <3>1. \A j \in DOMAIN doc' : j <= n
      BY <2>1
    <3> QED
      BY <1>3, <1>4, <1>7, <2>1, <3>1
  <2>2. CASE i \in DOMAIN doc
    <3>1. /\ before(i)' = {} => doc'[i].supersedes = None
          /\ before(i)' # {} =>
                /\ doc'[i].supersedes \in before(i)'
                /\ \A k \in before(i)' : k <= doc'[i].supersedes
      BY <1>1, <1>6, <2>2
    <3>2. ~(n <= i)
      BY <2>2
    <3>3. doc'[i].current <=>
             \A j \in DOMAIN doc' : doc'[j].type = doc'[i].type => j <= i
      <4>1. CASE doc[i].type # r.type
        <5>1. i # r.supersedes
          BY <1>4, <1>5, <2>2, <4>1
        <5> QED
          BY <1>1, <2>2, <4>1, <5>1
      <4>2. CASE doc[i].type = r.type
        <5>1. ~doc'[i].current
          <6>1. r.supersedes # None
            BY <1>3, <2>2, <4>2
          <6>2. CASE i = r.supersedes
            BY <2>2, <6>2
          <6>3. CASE i # r.supersedes
            <7>1. ~(r.supersedes <= i)
              BY <1>4, <2>2, <4>2, <6>1, <6>3
            <7>2. ~doc[i].current
              BY <1>1, <1>4, <2>2, <4>2, <6>1, <7>1
            <7> QED
              BY <2>2, <6>3, <7>2
          <6> QED
            BY <6>2, <6>3
        <5> QED
          BY <2>2, <3>2, <4>2, <5>1
      <4> QED
        BY <4>1, <4>2
    <3>4. doc'[i].current <=> doc'[i].status # "SUPERSEDED"
      BY <1>1, <2>2
    <3> QED
      BY <3>1, <3>3, <3>4
  <2> QED
    BY <2>1, <2>2
<1>9. \A t : (\E c \in DOMAIN doc : doc[c].type = t /\ doc[c].current) =>
               (\E c \in DOMAIN doc' : doc'[c].type = t /\ doc'[c].current)
  <2> SUFFICES ASSUME NEW t, NEW c \in DOMAIN doc, doc[c].type = t, doc[c].current
               PROVE  \E e \in DOMAIN doc' : doc'[e].type = t /\ doc'[e].current
    OBVIOUS
  <2>1. CASE c = r.supersedes
    <3>1. r.type = t
      BY <1>4, <1>5, <2>1
    <3> QED
      BY <3>1
  <2>2. CASE c # r.supersedes
    BY <2>2
  <2> QED
    BY <2>1, <2>2
<1>10. LinesEnd'
  <2> SUFFICES ASSUME NEW i \in DOMAIN doc'
               PROVE  \E c \in DOMAIN doc' : doc'[c].type = doc'[i].type /\ doc'[c].current
    BY DEF LinesEnd, currentOf
  <2>1. CASE i = n
    <3>1. n \in DOMAIN doc' /\ doc'[n].current /\ doc'[n].type = doc'[i].type
      BY <2>1
    <3> QED
      BY <3>1
  <2>2. CASE i \in DOMAIN doc
    <3>1. PICK t : t = doc[i].type
      OBVIOUS
    <3>2. \E c \in DOMAIN doc : doc[c].type = t /\ doc[c].current
      BY <1>2, <2>2, <3>1
    <3>3. \E c \in DOMAIN doc' : doc'[c].type = t /\ doc'[c].current
      BY <1>9, <3>2
    <3> QED
      BY <2>2, <3>1, <3>3
  <2> QED
    BY <2>1, <2>2
<1>11. complete => complete'
  BY <1>9 DEF complete, currentOf
<1> QED
  BY <1>8, <1>10, <1>11

LEMMA RecordDocumentKeeps == ASSUME IInv, NEW h \in Handler, recordDocument(h) PROVE IInv'
<1>1. PICK r, n : r = handler[h] /\ n = Len(doc) + 1
  OBVIOUS
<1>2. /\ h \in DOMAIN handler /\ r.kind = "upload" /\ r.step = "record" /\ mayRecord(r)
      /\ over(h) /\ told' = told \cup {<<r.type, r.file>>} /\ event' = NoMove
      /\ UNCHANGED <<profile, account, vehicle, keys, objects, zones, deciding>>
  BY <1>1 DEF recordDocument, at, done
<1>3. /\ IsRecorded(r, n)
      /\ doc' \in Seq(Document) /\ Len(doc') = n /\ n \in Nat /\ n <= MaxDocs
      /\ \A i \in DOMAIN doc : i \in Nat /\ i < n /\ i # n
  BY <1>1, Recorded
<1>4. \A i \in DOMAIN doc' : i = n \/ i \in DOMAIN doc
  BY <1>3 DEF IsRecorded
<1>5. /\ \A i \in DOMAIN doc : /\ i \in DOMAIN doc' /\ doc'[i].key = doc[i].key
                              /\ doc'[i].type = doc[i].type /\ doc'[i].file = doc[i].file
      /\ n \in DOMAIN doc' /\ doc'[n].key = r.key
      /\ doc'[n].type = r.type /\ doc'[n].file = r.file
  BY <1>3 DEF IsRecorded
<1>6. /\ r \in Serving /\ r.file \in File /\ r.key \in objects /\ keepsFile(r)
      /\ r.type \in DocType /\ (r.supersedes # None => r.supersedes \in Nat)
  <2>1. r \in Serving /\ r.file \in File /\ r.key \in objects /\ keepsFile(r)
    BY <1>1, <1>2 DEF IInv, RequestsOK, requestOK, keepsFile
  <2> QED
    BY <2>1 DEF Serving
<1>7. LinesOK' /\ LinesEnd' /\ (complete => complete')
  BY <1>2, <1>3, <1>6, RecordedLines
<1>8. DOMAIN handler' = DOMAIN handler \ {h} /\ \A g \in DOMAIN handler' : handler'[g] = handler[g]
  BY <1>2 DEF over
<1>9. \A g \in DOMAIN handler' :
         /\ requestOK(handler[g])
         /\ keepsFile(handler[g]) => handler[g].key # r.key
  BY <1>1, <1>2, <1>6, <1>8 DEF IInv, RequestsOK, KeysApart
<1>10. ProfileMoves
  BY <1>2 DEF ProfileMoves
<1>11. RequestsOK'
  <2> SUFFICES ASSUME NEW g \in DOMAIN handler' PROVE requestOK(handler[g])'
    BY DEF RequestsOK
  <2>1. PICK p : p = handler[g]
    OBVIOUS
  <2>2. p = handler'[g] /\ requestOK(p) /\ (keepsFile(p) => p.key # r.key)
    BY <1>8, <1>9, <2>1
  <2>3. keepsFile(p) => \A i \in DOMAIN doc' : doc'[i].key # p.key
    <3>1. keepsFile(p) => \A i \in DOMAIN doc : doc[i].key # p.key
      BY <2>2 DEF requestOK
    <3> QED
      BY <1>4, <1>5, <2>2, <3>1
  <2>4. (1 .. keys) \subseteq (1 .. keys')
    BY <1>2
  <2>5. requestOK(p)'
    BY <1>2, <1>7, <1>10, <2>2, <2>3, <2>4, RequestStill
  <2> QED
    BY <2>2, <2>5 DEF requestOK, fits, keepsFile
<1>12. KeysApart'
  BY <1>8 DEF IInv, KeysApart, keepsFile
<1>13. FilesKept'
  <2>1. \A i \in DOMAIN doc : doc[i].key \in objects
    BY DEF IInv, FilesKept
  <2> QED
    BY <1>2, <1>4, <1>5, <1>6, <2>1 DEF FilesKept
<1>14. ToldOK'
  <2> SUFFICES ASSUME NEW u \in told'
               PROVE  \E i \in DOMAIN doc' : u = <<doc'[i].type, doc'[i].file>>
    BY DEF ToldOK
  <2>1. CASE u = <<r.type, r.file>>
    BY <1>5, <2>1
  <2>2. CASE u \in told
    <3>1. PICK i \in DOMAIN doc : u = <<doc[i].type, doc[i].file>>
      BY <2>2 DEF IInv, ToldOK
    <3> QED
      BY <1>5, <3>1
  <2> QED
    BY <1>2, <2>1, <2>2
<1>15. SubmittedOnce'
  BY <1>2, <1>7 DEF IInv, SubmittedOnce
<1>16. DecisionsOK' /\ DOMAIN deciding' \subseteq Admin
       /\ \A a \in DOMAIN deciding' : deciding'[a] \in Decision
  BY <1>2, <1>10, SameDeciding, DecisionsStill
<1>17. TypeOK'
  <2>1. \A g \in DOMAIN handler' : handler'[g] \in Serving
    BY <1>8, <1>9 DEF requestOK
  <2>2. Len(doc') \in 0 .. MaxDocs
    <3>1. MaxDocs \in Nat
      BY BoundAssumption
    <3> QED
      BY <1>3, <3>1
  <2>3. told' \subseteq DocType \X File
    BY <1>2, <1>6 DEF IInv, TypeOK
  <2>4. event' \in VerificationStatus \X VerificationStatus
    BY <1>2 DEF NoMove, VerificationStatus
  <2>5. DOMAIN handler' \subseteq Handler
    BY <1>8 DEF IInv, TypeOK
  <2>6. doc' \in Seq(Document)
    BY <1>3
  <2> QED
    BY <1>2, <1>16, <2>1, <2>2, <2>3, <2>4, <2>5, <2>6 DEF IInv, TypeOK
<1> QED
  BY <1>7, <1>11, <1>12, <1>13, <1>14, <1>15, <1>16, <1>17 DEF IInv

LEMMA ReviewStatus ==
    ASSUME NEW action \in DOMAIN statusByAction
    PROVE  statusByAction[action] \in DocumentStatus \ {"SUPERSEDED"}
<1>1. /\ statusByAction["approve"] = "APPROVED" /\ statusByAction["reject"] = "REJECTED"
      /\ statusByAction["request_replacement"] = "CHANGES_REQUESTED"
      /\ DOMAIN statusByAction = {"approve", "reject", "request_replacement"}
  BY DEF statusByAction
<1> QED
  BY <1>1 DEF DocumentStatus

LEMMA ReplacedDocument ==
    ASSUME NEW docs \in Seq(Document), NEW i \in DOMAIN docs, NEW d \in Document
    PROVE  /\ [docs EXCEPT ![i] = d] \in Seq(Document)
           /\ Len([docs EXCEPT ![i] = d]) = Len(docs)
BY ExceptSeq

\* A review touches neither the line of the document nor its file.
LEMMA ReviewDocumentKeeps ==
    ASSUME IInv, NEW i \in DOMAIN doc, NEW action \in DOMAIN statusByAction,
           reviewDocument(i, action)
    PROVE  IInv'
<1>1. PICK status : status = statusByAction[action]
  OBVIOUS
<1>2. PICK d : d = [doc[i] EXCEPT !.status = status, !.reviewVersion = @ + 1]
  OBVIOUS
<1>3. /\ doc[i].current /\ doc[i].reviewVersion < MaxReviews /\ event' = NoMove
      /\ doc[i].status \in {"PENDING", "REJECTED", "CHANGES_REQUESTED"}
      /\ UNCHANGED <<account, vehicle, keys, objects, zones, handler, told, deciding>>
  BY DEF reviewDocument, requests
<1>4. \/ /\ profile.status \in {"PENDING_REVIEW", "CHANGES_REQUESTED"}
         /\ profile.version < MaxVersion
         /\ profile' = [status |-> "CHANGES_REQUESTED", version |-> profile.version + 1]
      \/ UNCHANGED profile
  BY DEF reviewDocument
<1>5. doc' = [doc EXCEPT ![i] = d]
  BY <1>1, <1>2 DEF reviewDocument
<1>6. /\ d \in Document /\ d.type = doc[i].type /\ d.file = doc[i].file
      /\ d.key = doc[i].key /\ d.supersedes = doc[i].supersedes
      /\ d.current = doc[i].current /\ d.status = status /\ status # "SUPERSEDED"
  <2>1. doc[i] \in Document
    BY Typed
  <2>2. doc[i].reviewVersion + 1 \in 1 .. MaxReviews
    BY <1>3, <2>1, BoundAssumption DEF Document
  <2>3. status \in DocumentStatus \ {"SUPERSEDED"}
    BY <1>1, ReviewStatus
  <2> QED
    BY <1>2, <2>1, <2>2, <2>3 DEF Document
<1>7. doc' \in Seq(Document) /\ Len(doc') = Len(doc)
  <2>1. PICK docs, docsAfter : /\ docs = doc /\ docs \in Seq(Document)
                              /\ docsAfter = [docs EXCEPT ![i] = d] /\ docsAfter = doc'
    BY <1>5, Typed
  <2> QED
    BY <1>6, <2>1, ReplacedDocument
<1>8. /\ DOMAIN doc' = DOMAIN doc
      /\ \A j \in DOMAIN doc :
            /\ doc'[j].type = doc[j].type /\ doc'[j].file = doc[j].file
            /\ doc'[j].key = doc[j].key /\ doc'[j].supersedes = doc[j].supersedes
            /\ doc'[j].current <=> doc[j].current
            /\ doc'[j].status = "SUPERSEDED" <=> doc[j].status = "SUPERSEDED"
  <2>1. \A j \in DOMAIN doc : doc'[j] = IF j = i THEN d ELSE doc[j]
    BY <1>5
  <2> QED
    BY <1>3, <1>5, <1>6, <2>1
<1>9. ProfileMoves /\ profile' \in [status: VerificationStatus, version: 1 .. MaxVersion]
  <2>1. CASE UNCHANGED profile
    BY <2>1, Typed DEF ProfileMoves
  <2>2. CASE /\ profile.version < MaxVersion
             /\ profile' = [status |-> "CHANGES_REQUESTED", version |-> profile.version + 1]
    <3>1. profile.version + 1 \in 1 .. MaxVersion
      BY <2>2, Typed
    <3> QED
      BY <2>2, <3>1 DEF ProfileMoves, VerificationStatus, editableStatuses
  <2> QED
    BY <1>4, <2>1, <2>2
<1>10. LinesOK' /\ LinesEnd' /\ (complete' <=> complete)
  <2>1. \A j \in DOMAIN doc : before(j)' = before(j)
    BY <1>8 DEF before
  <2>2. LinesOK'
    BY <1>8, <2>1 DEF IInv, LinesOK
  <2>3. LinesEnd'
    BY <1>8 DEF IInv, LinesEnd, currentOf
  <2>4. complete' <=> complete
    BY <1>8 DEF complete, currentOf
  <2> QED
    BY <2>2, <2>3, <2>4
<1>11. SubmittedOnce'
  BY <1>4, <1>10 DEF IInv, SubmittedOnce
<1>12. FilesKept' /\ ToldOK'
  BY <1>3, <1>8 DEF IInv, FilesKept, ToldOK
<1>13. RequestsOK'
  <2> SUFFICES ASSUME NEW g \in DOMAIN handler' PROVE requestOK(handler[g])'
    BY DEF RequestsOK
  <2>1. PICK p : p = handler[g]
    OBVIOUS
  <2>2. p = handler'[g] /\ requestOK(p)
    BY <1>3, <2>1 DEF IInv, RequestsOK
  <2>3. keepsFile(p) => \A j \in DOMAIN doc' : doc'[j].key # p.key
    BY <1>8, <2>2 DEF requestOK
  <2>4. (1 .. keys) \subseteq (1 .. keys')
    BY <1>3
  <2>5. requestOK(p)'
    BY <1>3, <1>9, <1>10, <2>2, <2>3, <2>4, RequestStill
  <2> QED
    BY <2>2, <2>5 DEF requestOK, fits, keepsFile
<1>14. KeysApart'
  BY <1>3 DEF IInv, KeysApart, keepsFile
<1>15. DecisionsOK'
  BY <1>3, <1>9, SameDeciding, DecisionsStill
<1>16. TypeOK'
  <2>1. event' \in VerificationStatus \X VerificationStatus
    BY <1>3 DEF NoMove, VerificationStatus
  <2>2. Len(doc') \in 0 .. MaxDocs
    BY <1>7 DEF IInv, TypeOK
  <2>3. doc' \in Seq(Document)
    BY <1>7
  <2> QED
    BY <1>3, <1>9, <2>1, <2>2, <2>3 DEF IInv, TypeOK
<1> QED
  BY <1>10, <1>11, <1>12, <1>13, <1>14, <1>15, <1>16 DEF IInv

-----------------------------------------------------------------------------
(* The theorems.                                                           *)

LEMMA InitInv == Init => IInv
<1> SUFFICES ASSUME Init PROVE IInv
  OBVIOUS
<1>1. /\ doc = <<>> /\ doc \in Seq(Document) /\ Len(doc) = 0 /\ DOMAIN doc = {}
      /\ DOMAIN handler = {} /\ DOMAIN deciding = {} /\ told = {} /\ objects = {}
      /\ keys = 0 /\ zones = {} /\ event = NoMove
  BY DEF Init
<1>2. /\ profile \in [status: VerificationStatus, version: 1 .. MaxVersion]
      /\ profile.status \in {"NONE", "INCOMPLETE"}
  <2>1. 1 \in 1 .. MaxVersion
    BY BoundAssumption
  <2> QED
    BY <2>1 DEF Init, VerificationStatus, editableStatuses
<1>3. vehicle \in [added: BOOLEAN, active: BOOLEAN, version: 1 .. MaxReviews]
  <2>1. 1 \in 1 .. MaxReviews
    BY BoundAssumption
  <2> QED
    BY <2>1 DEF Init
<1>4. 0 \in 0 .. MaxDocs /\ 0 \in 0 .. MaxKeys
  BY BoundAssumption
<1>5. event \in VerificationStatus \X VerificationStatus
  BY <1>1 DEF NoMove, VerificationStatus
<1>6. TypeOK
  BY <1>1, <1>2, <1>3, <1>4, <1>5 DEF Init, TypeOK
<1>7. RequestsOK /\ DecisionsOK /\ KeysApart
  BY <1>1 DEF RequestsOK, DecisionsOK, KeysApart
<1>8. LinesEnd /\ LinesOK /\ FilesKept /\ ToldOK
  BY <1>1 DEF LinesEnd, LinesOK, FilesKept, ToldOK
<1>9. SubmittedOnce
  BY <1>2 DEF SubmittedOnce
<1> QED
  BY <1>6, <1>7, <1>8, <1>9 DEF IInv

LEMMA Stutters == ASSUME IInv, UNCHANGED vars PROVE IInv'
<1>1. UNCHANGED <<profile, account, vehicle, doc, zones, event, keys, objects, handler,
                  told, deciding>>
  BY DEF vars, rows, requests
<1> QED
  BY <1>1, SameHandling, SameDeciding, Frame DEF ProfileMoves, IInv, TypeOK, SubmittedOnce

LEMMA Inductive == IInv /\ [Next]_vars => IInv'
<1> SUFFICES ASSUME IInv, [Next]_vars PROVE IInv'
  OBVIOUS
<1>1. CASE UNCHANGED vars
  BY <1>1, Stutters
<1>2. ASSUME NEW h \in Handler,
             \/ saveProfile(h) \/ saveVehicle(h) \/ uploadDocument(h) \/ submit(h)
             \/ assertEditable(h) \/ createProfile(h) \/ updateProfile(h)
             \/ addVehicle(h) \/ updateVehicle(h)
      PROVE  IInv'
  BY <1>2, SaveProfileKeeps, SaveVehicleKeeps, UploadDocumentKeeps, SubmitKeeps,
     AssertEditableKeeps, CreateProfileKeeps, UpdateProfileKeeps, AddVehicleKeeps,
     UpdateVehicleKeeps
<1>3. ASSUME NEW h \in Handler,
             \/ findCurrent(h) \/ putObject(h) \/ recordDocument(h)
             \/ recordFails(h) \/ cleanUp(h)
             \/ checkComplete(h) \/ submitForReview(h) \/ dies(h)
      PROVE  IInv'
  BY <1>3, FindCurrentKeeps, PutObjectKeeps, RecordDocumentKeeps, RecordFailsKeeps,
     CleanUpKeeps, CheckCompleteKeeps, SubmitForReviewKeeps, DiesKeeps
<1>4. ASSUME NEW i \in DOMAIN doc, NEW action \in DOMAIN statusByAction,
             reviewDocument(i, action)
      PROVE  IInv'
  BY <1>4, ReviewDocumentKeeps
<1>5. ASSUME NEW a \in Admin, NEW action \in Action, readCourier(a, action) PROVE IInv'
  BY <1>5, ReadCourierKeeps
<1>6. ASSUME NEW a \in Admin, transitionCourier(a) PROVE IInv'
  BY <1>6, TransitionCourierKeeps
<1>7. CASE updateUserStatus
  BY <1>7, UpdateUserStatusKeeps
<1> QED
  BY <1>1, <1>2, <1>3, <1>4, <1>5, <1>6, <1>7 DEF Next

LEMMA Invariant == Spec => []IInv
BY InitInv, Inductive, PTL DEF Spec

\* The rows, requests and decisions of an application stay what the schema and
\* the handlers of courier.service.ts and admin.service.ts allow.
THEOREM TypeCorrect == Spec => []TypeOK
<1>1. IInv => TypeOK
  BY DEF IInv
<1> QED
  BY <1>1, Invariant, PTL

\* A set's largest number is the one that is chosen.
LEMMA ChooseLargest ==
    ASSUME NEW S \in SUBSET Nat, NEW m \in S, \A k \in S : k <= m
    PROVE  (CHOOSE j \in S : \A k \in S : k <= j) = m
<1>1. \A j \in S : (\A k \in S : k <= j) => j = m
  BY Z3
<1> QED
  BY <1>1

\* Uploads and their retries keep one line of documents per type, the file of
\* every row, and every file the courier was told is uploaded.
THEOREM EvidenceIsKeptHolds == Spec => []EvidenceIsKept
<1>1. IInv => EvidenceIsKept
  <2> SUFFICES ASSUME IInv PROVE EvidenceIsKept
    OBVIOUS
  <2>1. ASSUME NEW i \in DOMAIN doc, NEW line, NEW earlier,
               line = {j \in DOMAIN doc : doc[j].type = doc[i].type},
               earlier = {j \in line : j < i}
        PROVE  /\ doc[i].supersedes =
                      IF earlier = {} THEN None
                      ELSE CHOOSE j \in earlier : \A k \in earlier : k <= j
               /\ doc[i].current <=> (\A j \in line : j <= i)
               /\ doc[i].current <=> doc[i].status # "SUPERSEDED"
               /\ doc[i].key \in objects
    <3>1. earlier = before(i)
      BY <2>1 DEF before
    <3>2. earlier \in SUBSET Nat
      BY <3>1, Typed DEF before
    <3>3. earlier # {} => doc[i].supersedes =
                            CHOOSE j \in earlier : \A k \in earlier : k <= j
      BY <3>1, <3>2, ChooseLargest DEF IInv, LinesOK
    <3> QED
      BY <2>1, <3>1, <3>3 DEF IInv, LinesOK, FilesKept
  <2> QED
    BY <2>1 DEF EvidenceIsKept, IInv, ToldOK
<1> QED
  BY <1>1, Invariant, PTL

\* An application that was submitted has a current document of every type.
THEOREM SubmittedIsCompleteHolds == Spec => []SubmittedIsComplete
<1>1. IInv => SubmittedIsComplete
  BY DEF IInv, SubmittedOnce, SubmittedIsComplete, complete, editableStatuses
<1> QED
  BY <1>1, Invariant, PTL

-----------------------------------------------------------------------------
(* The history.                                                            *)

EveryMove == profile' # profile =>
    \/ profile.status = "NONE"
    \/ profile'.status = profile.status /\ profile.status \in editableStatuses
    \/ profile'.status = "CHANGES_REQUESTED" /\ doc' # doc
    \/ event' = <<profile.status, profile'.status>>

\* An edit fits the version the request was let in with.
LEMMA EditTold == ASSUME IInv, NEW h \in Handler, updateProfile(h) PROVE EveryMove
<1>1. PICK r : r = handler[h]
  OBVIOUS
<1>2. /\ h \in DOMAIN handler /\ r.kind = "edit" /\ r.step = "allowed"
      /\ profile' = profile \/ (/\ r.version = profile.version
                                 /\ profile' = [profile EXCEPT !.version = @ + 1])
  BY <1>1 DEF updateProfile, at, EditFits
<1>3. r.version = profile.version => profile.status \in editableStatuses
  BY <1>1, <1>2 DEF IInv, RequestsOK, requestOK, fits
<1> QED
  BY <1>2, <1>3, Typed DEF EveryMove

\* The status a submission names is the one that its version had.
LEMMA SubmissionTold == ASSUME IInv, NEW h \in Handler, submitForReview(h) PROVE EveryMove
<1>1. PICK r : r = handler[h]
  OBVIOUS
<1>2. /\ h \in DOMAIN handler /\ r.kind = "submit" /\ r.step = "complete"
      /\ profile' = profile \/ (/\ r.version = profile.version
                                 /\ profile'.status = "PENDING_REVIEW"
                                 /\ event' = <<r.from, "PENDING_REVIEW">>)
  BY <1>1 DEF submitForReview, at, EditFits
<1>3. r.version = profile.version => r.from = profile.status
  BY <1>1, <1>2 DEF IInv, RequestsOK, requestOK, fits
<1> QED
  BY <1>2, <1>3 DEF EveryMove

LEMMA DecisionTold == ASSUME IInv, NEW a \in Admin, transitionCourier(a) PROVE EveryMove
<1>1. PICK d, r : d = deciding[a] /\ r = rules[d.action]
  OBVIOUS
<1>2. /\ a \in DOMAIN deciding
      /\ profile' = profile \/ (/\ profile.version = d.version /\ profile'.status = r.to
                                 /\ event' = <<d.from, r.to>>)
  BY <1>1 DEF transitionCourier, stillAsSeen
<1>3. d.version = profile.version => d.from = profile.status
  BY <1>1, <1>2 DEF IInv, DecisionsOK, decisionOK
<1> QED
  BY <1>2, <1>3 DEF EveryMove

LEMMA ReviewTold ==
    ASSUME IInv, NEW i \in DOMAIN doc, NEW action \in DOMAIN statusByAction,
           reviewDocument(i, action)
    PROVE  EveryMove
<1>1. PICK d, status : /\ status = statusByAction[action]
                       /\ d = [doc[i] EXCEPT !.status = status, !.reviewVersion = @ + 1]
  OBVIOUS
<1>2. /\ doc' = [doc EXCEPT ![i] = d]
      /\ profile' = profile \/ profile'.status = "CHANGES_REQUESTED"
  <2>1. doc' = [doc EXCEPT ![i] = d]
    BY <1>1 DEF reviewDocument
  <2>2. profile' = profile \/ profile'.status = "CHANGES_REQUESTED"
    BY DEF reviewDocument
  <2> QED
    BY <2>1, <2>2
<1>3. d # doc[i]
  <2>1. doc[i] \in Document /\ doc[i].reviewVersion \in Nat
    BY Typed DEF Document
  <2>2. d.reviewVersion = doc[i].reviewVersion + 1
    BY <1>1, <2>1 DEF Document
  <2> QED
    BY <2>1, <2>2
<1>4. doc'[i] = d
  BY <1>2
<1> QED
  BY <1>2, <1>3, <1>4 DEF EveryMove

LEMMA StepTold == ASSUME IInv, Next PROVE EveryMove
<1> SUFFICES ASSUME profile' # profile, profile.status # "NONE" PROVE EveryMove
  BY DEF EveryMove
<1>1. ASSUME NEW h \in Handler, updateProfile(h) \/ submitForReview(h) PROVE EveryMove
  BY <1>1, EditTold, SubmissionTold
<1>2. ASSUME NEW i \in DOMAIN doc, NEW action \in DOMAIN statusByAction,
             reviewDocument(i, action)
      PROVE  EveryMove
  BY <1>2, ReviewTold
<1>3. ASSUME NEW a \in Admin, transitionCourier(a) PROVE EveryMove
  BY <1>3, DecisionTold
<1>4. ASSUME NEW h \in Handler,
             \/ saveProfile(h) \/ saveVehicle(h) \/ uploadDocument(h) \/ submit(h)
             \/ assertEditable(h) \/ createProfile(h) \/ addVehicle(h) \/ updateVehicle(h)
      PROVE  FALSE
  BY <1>4 DEF saveProfile, saveVehicle, uploadDocument, submit, send, rows,
     assertEditable, createProfile, addVehicle, updateVehicle
<1>5. ASSUME NEW h \in Handler,
             \/ findCurrent(h) \/ putObject(h) \/ recordDocument(h)
             \/ recordFails(h) \/ cleanUp(h) \/ checkComplete(h) \/ dies(h)
      PROVE  FALSE
  BY <1>5 DEF findCurrent, putObject, recordDocument, recordFails, cleanUp,
     checkComplete, dies, rows
<1>6. ASSUME NEW a \in Admin, NEW action \in Action, readCourier(a, action) PROVE FALSE
  BY <1>6 DEF readCourier, rows
<1>7. CASE updateUserStatus
  BY <1>7 DEF updateUserStatus
<1> QED
  BY <1>1, <1>2, <1>3, <1>4, <1>5, <1>6, <1>7 DEF Next

\* Every change of the profile is an edit, a document sent back, or a move with
\* an event that names the status that was left and the one that was reached.
THEOREM HistoryTellsEveryMoveHolds == Spec => HistoryTellsEveryMove
<1>1. ASSUME IInv, [Next]_vars PROVE [EveryMove]_vars
  BY <1>1, StepTold
<1>2. [EveryMove]_vars =>
        [profile' # profile =>
          \/ profile.status = "NONE"
          \/ profile'.status = profile.status /\ profile.status \in editableStatuses
          \/ profile'.status = "CHANGES_REQUESTED" /\ doc' # doc
          \/ event' = <<profile.status, profile'.status>>]_vars
  BY DEF EveryMove
<1> QED
  BY <1>1, <1>2, Invariant, PTL DEF Spec, HistoryTellsEveryMove
=============================================================================
