---------------------------- MODULE CourierOnboarding ----------------------------
(***************************************************************************)
(* How one courier's application is filled in, submitted and decided:      *)
(* the courier app (courier-mobile/App.tsx), the requests it sends         *)
(* (courier.service.ts) and the administrators (admin.service.ts).         *)
(*                                                                         *)
(* A courier's request reads the profile, and refuses when it may not be   *)
(* edited, before the transaction that changes anything; an upload also    *)
(* stores its file in between.  A decision reads the account, the vehicle  *)
(* and the documents in the transaction that updates the profile, at the   *)
(* isolation level read committed.  The app waits for one request at a     *)
(* time, but gives up on one whose connection fails while that request     *)
(* goes on, so requests overlap; each dies with its process at any step.   *)
(***************************************************************************)
EXTENDS Naturals, Sequences, FiniteSets

CONSTANTS DocType,        \* requiredCourierDocumentTypes
          VehicleLicence, \* the type that names a vehicle
          File,           \* files the courier may pick
          Handler,        \* requests of the courier served at a time
          Admin,          \* decisions being taken at a time
          CityZones,      \* active zones of the courier's preferred city
          UserStatus,     \* statuses an account has here
          MaxDocs,        \* bound on the document rows
          MaxKeys,        \* bound on the objects ever stored
          MaxVersion,     \* bound on the profile's version
          MaxReviews      \* bound on a document's reviewVersion and a vehicle's version

ASSUME TypeAssumption == VehicleLicence \in DocType
ASSUME StatusAssumption ==
    "ACTIVE" \in UserStatus /\ UserStatus \subseteq {"PENDING", "ACTIVE", "SUSPENDED"}
ASSUME BoundAssumption ==
    {MaxDocs, MaxKeys} \subseteq Nat /\ {MaxVersion, MaxReviews} \subseteq Nat \ {0}

VARIABLES profile,  \* the CourierProfile row
          account,  \* User.status of the courier
          vehicle,  \* the courier's motorcycle
          doc,      \* CourierDocument rows; a row's index is its id
          keys,     \* storage keys given out so far
          objects,  \* storage keys that hold a file
          zones,    \* zones the courier is an active member of
          event,    \* the move that the last step recorded, if it did:
                    \* a CourierVerificationEvent's fromStatus and toStatus
          handler,  \* what each request of the courier has come to
          deciding, \* what each administrator's transaction has read
          told      \* the uploads, by type and file, that were answered well

requests == <<handler, told>>
rows == <<profile, account, vehicle, doc, zones>>
vars == <<rows, event, keys, objects, requests, deciding>>

None == 0
NoFile == "no file"
NoMove == <<"NONE", "NONE">>

editableStatuses == {"INCOMPLETE", "DRAFT", "CHANGES_REQUESTED"}
VerificationStatus == editableStatuses
    \cup {"NONE", "PENDING_REVIEW", "APPROVED", "REJECTED", "SUSPENDED"}
DocumentStatus ==
    {"PENDING", "APPROVED", "REJECTED", "CHANGES_REQUESTED", "SUPERSEDED"}

DocId == 1 .. MaxDocs
Document == [type: DocType, file: File, key: 1 .. MaxKeys,
             status: DocumentStatus, current: BOOLEAN,
             reviewVersion: 1 .. MaxReviews, supersedes: 0 .. MaxDocs]

Kind == {"create", "edit", "vehicle", "upload", "submit"}
Step == {"received", "allowed", "complete", "store", "record", "clean"}

\* "from" and "key" are what the request has read and drawn by itself.
Serving == [step: Step, kind: Kind, type: DocType, file: File \cup {NoFile},
            supersedes: 0 .. MaxDocs,
            version: 0 .. MaxVersion \cup 0 .. MaxReviews,
            from: VerificationStatus, key: 0 .. MaxKeys]

Action == {"approve", "request_changes", "reject", "suspend", "reactivate"}
Decision == [action: Action, version: 1 .. MaxVersion,
             from: VerificationStatus]

Init ==
    /\ profile \in [status: {"NONE", "INCOMPLETE"}, version: {1}]
    /\ account \in UserStatus \ {"SUSPENDED"}
    /\ vehicle = [added |-> FALSE, active |-> FALSE, version |-> 1]
    /\ doc = <<>>
    /\ keys = 0
    /\ objects = {}
    /\ zones = {}
    /\ event = NoMove
    /\ handler = [h \in {} |-> None]
    /\ deciding = [a \in {} |-> None]
    /\ told = {}

currentOf(t) == {i \in DOMAIN doc : doc[i].type = t /\ doc[i].current}

-----------------------------------------------------------------------------
(* The app sends what it shows, which it may have loaded long ago; it may  *)
(* have given up on a request whose connection failed and send it again.   *)

send(h, kind, t, f, supersedes, version) ==
    /\ event' = NoMove
    /\ h \notin DOMAIN handler
    /\ handler' = [g \in DOMAIN handler \cup {h} |->
                     IF g = h
                     THEN [step |-> "received", kind |-> kind, type |-> t,
                           file |-> f, supersedes |-> supersedes,
                           version |-> version, from |-> "NONE", key |-> None]
                     ELSE handler[g]]
    /\ UNCHANGED <<rows, keys, objects, told, deciding>>

saveProfile(h) ==
    \/ send(h, "create", VehicleLicence, NoFile, None, None)
    \/ \E shown \in 1 .. profile.version :
          send(h, "edit", VehicleLicence, NoFile, None, shown)

saveVehicle(h) ==
    \E shown \in {None} \cup (IF vehicle.added THEN 1 .. vehicle.version ELSE {}) :
       send(h, "vehicle", VehicleLicence, NoFile, None, shown)

\* The shown document of the type, if any, is what the upload replaces.
uploadDocument(h) ==
    \E t \in DocType, f \in File :
       \E shown \in {None} \cup {i \in DOMAIN doc : doc[i].type = t} :
          send(h, "upload", t, f, shown, None)

submit(h) == send(h, "submit", VehicleLicence, NoFile, None, None)

over(h) == handler' = [g \in DOMAIN handler \ {h} |-> handler[g]]
refused(h) == over(h) /\ UNCHANGED told
done(h) ==
    /\ over(h)
    /\ told' = IF handler[h].kind = "upload"
               THEN told \cup {<<handler[h].type, handler[h].file>>} ELSE told

-----------------------------------------------------------------------------
(* Requests of the courier.                                                *)

Goto(h, step) == handler' = [handler EXCEPT ![h].step = step]
at(h, kind, step) ==
    /\ h \in DOMAIN handler
    /\ handler[h].kind = kind
    /\ handler[h].step = step

\* profileForUser, then assertEditable; createProfile wants no profile.
assertEditable(h) ==
    /\ event' = NoMove
    /\ h \in DOMAIN handler
    /\ handler[h].step = "received"
    /\ IF IF handler[h].kind = "create" THEN profile.status = "NONE"
          ELSE profile.status \in editableStatuses
       THEN /\ handler' = [handler EXCEPT
                 ![h].step = "allowed",
                 ![h].from = profile.status,
                 ![h].version = IF handler[h].kind = "submit"
                                THEN profile.version ELSE @]
            /\ UNCHANGED told
       ELSE refused(h)
    /\ UNCHANGED <<rows, keys, objects, deciding>>

\* A profile is unique for its user.
createProfile(h) ==
    /\ event' = NoMove
    /\ at(h, "create", "allowed")
    /\ IF profile.status = "NONE"
       THEN /\ profile' = [profile EXCEPT !.status = "INCOMPLETE"]
            /\ done(h)
       ELSE UNCHANGED profile /\ refused(h)
    /\ UNCHANGED <<account, vehicle, doc, keys, objects, zones, deciding>>

EditFits(version) == version = profile.version

updateProfile(h) ==
    /\ event' = NoMove
    /\ at(h, "edit", "allowed")
    /\ IF EditFits(handler[h].version)
       THEN /\ profile.version < MaxVersion
            /\ profile' = [profile EXCEPT !.version = @ + 1]
            /\ done(h)
       ELSE UNCHANGED profile /\ refused(h)
    /\ UNCHANGED <<account, vehicle, doc, keys, objects, zones, deciding>>

\* A plate number is unique.
addVehicle(h) ==
    /\ event' = NoMove
    /\ at(h, "vehicle", "allowed")
    /\ handler[h].version = None
    /\ IF vehicle.added
       THEN UNCHANGED vehicle /\ refused(h)
       ELSE /\ vehicle' = [added |-> TRUE, active |-> TRUE, version |-> 1]
            /\ done(h)
    /\ UNCHANGED <<profile, account, doc, keys, objects, zones, deciding>>

\* The API takes "active" too, which the app does not send.
updateVehicle(h) ==
    /\ event' = NoMove
    /\ at(h, "vehicle", "allowed")
    /\ handler[h].version # None
    /\ IF handler[h].version = vehicle.version
       THEN /\ vehicle.version < MaxReviews
            /\ \E active \in BOOLEAN :
                  vehicle' = [vehicle EXCEPT !.active = active, !.version = @ + 1]
            /\ done(h)
       ELSE UNCHANGED vehicle /\ refused(h)
    /\ UNCHANGED <<profile, account, doc, keys, objects, zones, deciding>>

-----------------------------------------------------------------------------
(* uploadDocument.                                                         *)

\* A retry of an upload that was recorded finds its own document.
isRetry(r) ==
    \E i \in currentOf(r.type) :
       /\ doc[i].file = r.file
       /\ r.supersedes \in {None, i, doc[i].supersedes}

findCurrent(h) ==
    LET r == handler[h] IN
    /\ event' = NoMove
    /\ at(h, "upload", "allowed")
    /\ IF r.type = VehicleLicence /\ ~vehicle.added
       THEN refused(h) /\ UNCHANGED <<rows>>
       ELSE IF isRetry(r)
       THEN UNCHANGED rows /\ done(h)
       ELSE Goto(h, "store") /\ UNCHANGED <<rows, told>>
    /\ UNCHANGED <<keys, objects, deciding>>

\* The object's key is drawn anew.
putObject(h) ==
    /\ event' = NoMove
    /\ at(h, "upload", "store")
    /\ keys < MaxKeys
    /\ keys' = keys + 1
    /\ objects' = objects \cup {keys + 1}
    /\ handler' = [handler EXCEPT ![h].step = "record", ![h].key = keys + 1]
    /\ UNCHANGED <<rows, told, deciding>>

\* What the transaction wants to find: the document to be replaced is still
\* current and of the type, or there is none to be replaced.
\* Mistake: nothing looks for a document when the request names none, and no
\* unique index does.
mayRecord_FirstUnchecked(r) ==
    r.supersedes = None \/ r.supersedes \in currentOf(r.type)
mayRecord(r) ==
    IF r.supersedes = None THEN currentOf(r.type) = {}
    ELSE r.supersedes \in currentOf(r.type)

recordDocument(h) ==
    LET r == handler[h] IN
    /\ event' = NoMove
    /\ at(h, "upload", "record")
    /\ mayRecord(r)
    /\ Len(doc) < MaxDocs
    /\ doc' = Append([i \in DOMAIN doc |->
                        IF i = r.supersedes
                        THEN [doc[i] EXCEPT !.current = FALSE,
                                            !.status = "SUPERSEDED"]
                        ELSE doc[i]],
                     [type |-> r.type, file |-> r.file, key |-> r.key,
                      status |-> "PENDING", current |-> TRUE,
                      reviewVersion |-> 1, supersedes |-> r.supersedes])
    /\ done(h)
    /\ UNCHANGED <<profile, account, vehicle, keys, objects, zones,
                   deciding>>

\* Another document came first, or the database fails.
recordFails(h) ==
    /\ event' = NoMove
    /\ at(h, "upload", "record")
    /\ Goto(h, "clean")
    /\ UNCHANGED <<rows, keys, objects, told, deciding>>

\* Mistake: clean-up deletes the file that was stored last.
orphan_Last(r) == keys
orphan(r) == r.key

\* The file is deleted again, which may fail unnoticed.
cleanUp(h) ==
    /\ event' = NoMove
    /\ at(h, "upload", "clean")
    /\ \/ objects' = objects \ {orphan(handler[h])}
       \/ UNCHANGED objects
    /\ refused(h)
    /\ UNCHANGED <<rows, keys, deciding>>

-----------------------------------------------------------------------------
(* submitForReview.                                                        *)

\* Mistake: nobody asks for the documents.
isComplete_VehicleOnly == vehicle.active
isComplete == vehicle.active /\ \A t \in DocType : currentOf(t) # {}

checkComplete(h) ==
    /\ event' = NoMove
    /\ at(h, "submit", "allowed")
    /\ IF isComplete
       THEN Goto(h, "complete") /\ UNCHANGED told
       ELSE refused(h)
    /\ UNCHANGED <<rows, keys, objects, deciding>>

submitForReview(h) ==
    /\ at(h, "submit", "complete")
    /\ IF EditFits(handler[h].version)
       THEN /\ profile.version < MaxVersion
            /\ profile' = [status |-> "PENDING_REVIEW",
                           version |-> profile.version + 1]
            /\ event' = <<handler[h].from, "PENDING_REVIEW">>
            /\ done(h)
       ELSE event' = NoMove /\ UNCHANGED profile /\ refused(h)
    /\ UNCHANGED <<account, vehicle, doc, keys, objects, zones, deciding>>

-----------------------------------------------------------------------------
(* The administrators.                                                     *)

\* Mistake: the action's name is written as the status.
statusByAction_Named == [approve |-> "APPROVED", reject |-> "REJECTED",
                         request_replacement |-> "REQUEST_REPLACEMENT"]
statusByAction == [approve |-> "APPROVED", reject |-> "REJECTED",
                   request_replacement |-> "CHANGES_REQUESTED"]

\* A review made from an older reviewVersion is refused and changes nothing.
reviewDocument(i, action) ==
    /\ i \in DOMAIN doc
    /\ doc[i].current
    /\ doc[i].status \in {"PENDING", "REJECTED", "CHANGES_REQUESTED"}
    /\ doc[i].reviewVersion < MaxReviews
    /\ doc' = [doc EXCEPT ![i].status = statusByAction[action],
                          ![i].reviewVersion = @ + 1]
    /\ event' = NoMove
    /\ IF /\ action = "request_replacement"
          /\ profile.status \in {"PENDING_REVIEW", "CHANGES_REQUESTED"}
       THEN /\ profile.version < MaxVersion
            /\ profile' = [status |-> "CHANGES_REQUESTED",
                           version |-> profile.version + 1]
       ELSE UNCHANGED profile
    /\ UNCHANGED <<account, vehicle, keys, objects, zones, requests, deciding>>

rules ==
    [approve |-> [from |-> {"PENDING_REVIEW"}, to |-> "APPROVED"],
     request_changes |-> [from |-> {"PENDING_REVIEW"}, to |-> "CHANGES_REQUESTED"],
     reject |-> [from |-> {"PENDING_REVIEW", "CHANGES_REQUESTED"}, to |-> "REJECTED"],
     suspend |-> [from |-> {"APPROVED"}, to |-> "SUSPENDED"],
     reactivate |-> [from |-> {"SUSPENDED"}, to |-> "APPROVED"]]

approves(action) == action \in {"approve", "reactivate"}

assertValidForApproval ==
    /\ account \in {"ACTIVE", "PENDING"}
    /\ vehicle.active
    /\ \A t \in DocType : \E i \in currentOf(t) : doc[i].status = "APPROVED"

\* What transitionCourier reads before it updates the profile.  A decision
\* made from a version older than what it reads is refused by the update.
readCourier(a, action) ==
    /\ event' = NoMove
    /\ a \notin DOMAIN deciding
    /\ profile.status \in rules[action].from
    /\ approves(action) => assertValidForApproval
    /\ deciding' = [b \in DOMAIN deciding \cup {a} |->
                      IF b = a
                      THEN [action |-> action, version |-> profile.version,
                            from |-> profile.status]
                      ELSE deciding[b]]
    /\ UNCHANGED <<rows, keys, objects, requests>>

\* Mistake: the update does not look at the version again.
stillAsSeen_StatusOnly(d) == profile.status \in rules[d.action].from
stillAsSeen(d) ==
    /\ profile.version = d.version
    /\ profile.status \in rules[d.action].from

transitionCourier(a) ==
    /\ a \in DOMAIN deciding
    /\ LET d == deciding[a] IN
          IF stillAsSeen(d)
          THEN /\ profile.version < MaxVersion
               /\ profile' = [status |-> rules[d.action].to,
                              version |-> profile.version + 1]
               /\ event' = <<d.from, rules[d.action].to>>
               /\ account' = IF approves(d.action) THEN "ACTIVE" ELSE account
               /\ zones' = IF approves(d.action) THEN zones \cup CityZones
                           ELSE zones
          ELSE event' = NoMove /\ UNCHANGED <<profile, account, zones>>
    /\ deciding' = [b \in DOMAIN deciding \ {a} |-> deciding[b]]
    /\ UNCHANGED <<vehicle, doc, keys, objects, requests>>

updateUserStatus ==
    /\ event' = NoMove
    /\ \E s \in UserStatus : account' = s
    /\ UNCHANGED <<profile, vehicle, doc, zones, keys, objects, requests,
                   deciding>>

\* An API process dies with a request of the courier.
dies(h) ==
    /\ event' = NoMove
    /\ h \in DOMAIN handler
    /\ refused(h)
    /\ UNCHANGED <<rows, keys, objects, deciding>>

Next ==
    \/ updateUserStatus
    \/ \E h \in Handler :
          \/ saveProfile(h) \/ saveVehicle(h) \/ uploadDocument(h) \/ submit(h)
          \/ assertEditable(h) \/ createProfile(h) \/ updateProfile(h)
          \/ addVehicle(h) \/ updateVehicle(h)
          \/ findCurrent(h) \/ putObject(h) \/ recordDocument(h)
          \/ recordFails(h) \/ cleanUp(h)
          \/ checkComplete(h) \/ submitForReview(h) \/ dies(h)
    \/ \E i \in DOMAIN doc, action \in DOMAIN statusByAction :
          reviewDocument(i, action)
    \/ \E a \in Admin, action \in Action : readCourier(a, action)
    \/ \E a \in Admin : transitionCourier(a)

Spec == Init /\ [][Next]_vars

-----------------------------------------------------------------------------
(* Properties.                                                             *)

\* Every variable holds what the schema allows.
TypeOK ==
    /\ profile \in [status: VerificationStatus, version: 1 .. MaxVersion]
    /\ account \in UserStatus
    /\ vehicle \in [added: BOOLEAN, active: BOOLEAN, version: 1 .. MaxReviews]
    /\ doc \in Seq(Document) /\ Len(doc) \in 0 .. MaxDocs
    /\ keys \in 0 .. MaxKeys
    /\ objects \subseteq 1 .. keys
    /\ zones \subseteq CityZones
    /\ event \in VerificationStatus \X VerificationStatus
    /\ DOMAIN handler \subseteq Handler
    /\ \A h \in DOMAIN handler : handler[h] \in Serving
    /\ DOMAIN deciding \subseteq Admin
    /\ \A a \in DOMAIN deciding : deciding[a] \in Decision
    /\ told \subseteq DocType \X File

\* The documents of a type are one line, each replacing the one before, and
\* the last is the current one: "A replacement creates a new row, links to
\* the previous row, and marks the previous version superseded"
\* (docs/adr/0008-private-versioned-courier-documents.md:15), whatever
\* uploads and retries run at once.  The file of every row is kept, a superseded
\* row's too, and every file the courier was told is uploaded is in a row: "No
\* submitted file is silently overwritten" (docs/architecture/document-security.md:19).
EvidenceIsKept ==
    /\ \A i \in DOMAIN doc :
          LET line == {j \in DOMAIN doc : doc[j].type = doc[i].type}
              before == {j \in line : j < i}
          IN  /\ doc[i].supersedes =
                    IF before = {} THEN None
                    ELSE CHOOSE j \in before : \A k \in before : k <= j
              /\ doc[i].current <=> (\A j \in line : j <= i)
              /\ doc[i].current <=> doc[i].status # "SUPERSEDED"
              /\ doc[i].key \in objects
    /\ told \subseteq {<<doc[i].type, doc[i].file>> : i \in DOMAIN doc}

\* An application that was submitted keeps a document of every required
\* type: submitForReview looks for them before its transaction, and no
\* request that was let in earlier takes one away.
SubmittedIsComplete ==
    profile.status \notin editableStatuses \cup {"NONE"} =>
        \A t \in DocType : currentOf(t) # {}

\* Every change of the profile is an edit of an application that may be
\* edited, a document sent back, or a move whose recorded event names the
\* status that was left and the one that was reached, although requests and
\* decisions read the profile before they change it
\* (docs/architecture/courier-verification.md:25).
HistoryTellsEveryMove ==
    [][profile' # profile =>
          \/ profile.status = "NONE"
          \/ profile'.status = profile.status /\ profile.status \in editableStatuses
          \/ profile'.status = "CHANGES_REQUESTED" /\ doc' # doc
          \/ event' = <<profile.status, profile'.status>>]_vars

\* "Submission freezes edits until an administrator requests changes"
\* (docs/architecture/courier-verification.md:8): a document arrives only
\* while the application may be edited.
SubmissionFreezesEdits ==
    [][Len(doc') > Len(doc) => profile.status \in editableStatuses]_vars
=============================================================================
