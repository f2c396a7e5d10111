------------------------------- MODULE Merchants -------------------------------
(***************************************************************************)
(* Merchants and the people who work for them: registration                *)
(* (auth.service.ts), staff and profile (merchant.service.ts), and the     *)
(* administrators' decisions (admin.service.ts).                           *)
(*                                                                         *)
(* A request is admitted on what it reads outside any transaction: the     *)
(* account behind the session, the membership, and the checks of its       *)
(* handler.  Its transaction writes later, some after a reading step of    *)
(* its own, so others write in between.  A refused request ends as one     *)
(* that got lost does, and every request may end at every step.  A user    *)
(* stands for a phone number, whether it has an account or not.            *)
(***************************************************************************)
EXTENDS Naturals, Sequences, FiniteSets

CONSTANTS User,        \* people, each with a phone number
          Founder,     \* the one who owns the first merchant
          Request,     \* requests, each served once
          Name,        \* what a name can be changed to
          MaxServing,  \* bound on the requests served at a time
          MaxMerchants \* bound on the merchants

ASSUME FounderAssumption == Founder \in User
ASSUME BoundAssumption == {MaxServing, MaxMerchants} \subseteq Nat \ {0}

VARIABLES account,  \* the User row of every phone number
          merchant, \* Merchant rows; a row's index is its id
          member,   \* MerchantMembership rows, one for a merchant and a user
          serving,  \* what each request has come to
          demoted   \* the merchants one of whose owners was invited to less

merchantVars == <<account, merchant, member, demoted>>

managers == {"OWNER", "MANAGER"}
merchantRoles == managers \cup {"STAFF"}

\* "NONE": the number has no account.  "OTHER": a courier's, or an
\* administrator's.
Account == [role: merchantRoles \cup {"NONE", "OTHER"},
            status: {"PENDING", "ACTIVE", "SUSPENDED", "BLOCKED"}]
MerchantStatus ==
    {"PENDING", "CHANGES_REQUESTED", "ACTIVE", "SUSPENDED", "BLOCKED"}
MerchantId == 1 .. MaxMerchants
NoMember == [role |-> "NONE", active |-> FALSE, version |-> 0]
newMember(role) == [role |-> role, active |-> TRUE, version |-> 1]

\* What an update does not give.
Same == "same"

\* Mistake: what is not given is written as it was not given.
given_AsGiven(value, old) == value
given(value, old) == IF value = Same THEN old ELSE value
givenFlag(value, old) == IF value = Same THEN old ELSE value = "yes"

Idle == [step |-> "idle"]
Ended == [step |-> "ended"]

\* The first merchant has been created by its owner, or has registered and is
\* waiting; another number may be unknown, of another kind, or its staff's.
Init ==
    /\ \E status \in {"PENDING", "ACTIVE"}, n \in Name :
          merchant = <<[name |-> n, status |-> status, version |-> 1]>>
    /\ \E role \in [User -> merchantRoles \cup {"NONE", "OTHER"}] :
          /\ role[Founder] = "OWNER"
          /\ account = [u \in User |-> [role |-> role[u], status |-> "PENDING"]]
          /\ member = [m \in MerchantId |-> [u \in User |->
                         IF m = 1 /\ role[u] \in merchantRoles THEN newMember(role[u])
                         ELSE NoMember]]
    /\ serving = [r \in Request |-> Idle]
    /\ demoted = {}

\* AuthGuard and RolesGuard look at the account, not at the membership.
signedIn(u, roles) ==
    account[u].role \in roles /\ account[u].status \in {"ACTIVE", "PENDING"}

memberships(u) == {m \in DOMAIN merchant : member[m][u].active}
owners(m) == {u \in User : member[m][u].active /\ member[m][u].role = "OWNER"}

\* The merchants for which a user may act in one of these roles.
actingFor(u, roles) ==
    {m \in memberships(u) : signedIn(u, roles) /\ member[m][u].role \in roles}

Is(r, step, op) == serving[r].step = step /\ serving[r].op = op
\* Another request may come, and does.
Waiting(r) ==
    /\ serving[r] = Idle
    /\ Cardinality({p \in Request : serving[p] \notin {Idle, Ended}}) < MaxServing
Admit(r, request) == serving' = [serving EXCEPT ![r] = request]
End(r) == serving' = [serving EXCEPT ![r] = Ended]

-----------------------------------------------------------------------------
(* New merchants.                                                          *)

AdmitRegistration(r) ==
    \E u \in User :
       /\ account[u].role = "NONE"
       /\ Admit(r, [step |-> "allowed", op |-> "register", by |-> u])

\* A new merchant with its owner.
Found(r, status) ==
    LET u == serving[r].by
        m == Len(merchant) + 1
    IN  /\ m <= MaxMerchants
        /\ \E n \in Name :
              merchant' = Append(merchant, [name |-> n, status |-> status, version |-> 1])
        /\ member' = [member EXCEPT ![m][u] = newMember("OWNER")]
        /\ UNCHANGED demoted
        /\ End(r)

\* registerMerchantPilot: the phone number is unique.
RegisterMerchantPilot(r) ==
    /\ Is(r, "allowed", "register")
    /\ account[serving[r].by].role = "NONE"
    /\ Found(r, "PENDING")
    /\ account' = [account EXCEPT ![serving[r].by] = [role |-> "OWNER", status |-> "PENDING"]]

AdmitCreation(r) ==
    \E u \in User :
       /\ signedIn(u, {"OWNER"}) /\ memberships(u) = {}
       /\ Admit(r, [step |-> "allowed", op |-> "create", by |-> u])

Create(r) ==
    /\ Is(r, "allowed", "create")
    /\ Found(r, "ACTIVE")
    /\ account' = [account EXCEPT ![serving[r].by].role = "OWNER"]

-----------------------------------------------------------------------------
(* The merchant's profile, and what administrators decide about it.        *)

AdmitUpdateCurrent(r) ==
    \E u \in User, n \in Name : \E m \in actingFor(u, managers) :
       Admit(r, [step |-> "allowed", op |-> "updateCurrent", at |-> m,
                 seen |-> merchant[m], name |-> n])

UpdateCurrent(r) ==
    LET q == serving[r] IN
    /\ Is(r, "allowed", "updateCurrent")
    /\ merchant[q.at].version = q.seen.version
    /\ merchant' = [merchant EXCEPT ![q.at].name = q.name, ![q.at].version = @ + 1]
    /\ End(r)
    /\ UNCHANGED <<account, member, demoted>>

rules ==
    [approve         |-> [from |-> {"PENDING", "CHANGES_REQUESTED"}, to |-> "ACTIVE"],
     reject          |-> [from |-> {"PENDING", "CHANGES_REQUESTED"}, to |-> "BLOCKED"],
     request_changes |-> [from |-> {"PENDING"}, to |-> "CHANGES_REQUESTED"],
     suspend         |-> [from |-> {"ACTIVE"}, to |-> "SUSPENDED"],
     reactivate      |-> [from |-> {"SUSPENDED"}, to |-> "ACTIVE"]]

AdmitTransition(r) ==
    \E m \in DOMAIN merchant, action \in DOMAIN rules :
       Admit(r, [step |-> "allowed", op |-> "transition", at |-> m,
                 seen |-> merchant[m], action |-> action])

ReadOwners(r) ==
    LET q == serving[r] IN
    /\ Is(r, "allowed", "transition")
    /\ merchant[q.at].status \in rules[q.action].from
    /\ owners(q.at) # {}
    /\ serving' = [serving EXCEPT ![r] =
                     [step |-> "read", op |-> "transition", at |-> q.at,
                      seen |-> q.seen, action |-> q.action, owners |-> owners(q.at)]]
    /\ UNCHANGED merchantVars

\* The accounts of the owners it has read follow their merchant's status.
TransitionMerchant(r) ==
    LET q == serving[r]
        to == rules[q.action].to
    IN
    /\ Is(r, "read", "transition")
    /\ merchant[q.at].version = q.seen.version
    /\ merchant[q.at].status \in rules[q.action].from
    /\ merchant' = [merchant EXCEPT ![q.at].status = to, ![q.at].version = @ + 1]
    /\ account' = [u \in User |-> IF u \notin q.owners THEN account[u]
                    ELSE [account[u] EXCEPT !.status =
                            IF to = "CHANGES_REQUESTED" THEN "PENDING" ELSE to]]
    /\ End(r)
    /\ UNCHANGED <<member, demoted>>

-----------------------------------------------------------------------------
(* Staff.                                                                  *)

\* assertCanManageRole.
canManage(role, target) ==
    role \in managers /\ (role = "MANAGER" => target = "STAFF")

AdmitAddStaff(r) ==
    \E u \in User : \E m \in memberships(u), who \in User, role \in merchantRoles :
       /\ signedIn(u, managers) /\ canManage(member[m][u].role, role)
       /\ Admit(r, [step |-> "allowed", op |-> "addStaff", at |-> m, on |-> who,
                    role |-> role])

ReadInvited(r) ==
    LET q == serving[r] IN
    /\ Is(r, "allowed", "addStaff")
    /\ account[q.on].role # "OTHER"
    /\ memberships(q.on) \subseteq {q.at}
    /\ serving' = [serving EXCEPT ![r].step = "read"]
    /\ UNCHANGED merchantVars

\* Account and membership are inserted, or overwritten as they are.
AddStaff(r) ==
    LET q == serving[r]
        old == member[q.at][q.on]
    IN
    /\ Is(r, "read", "addStaff")
    /\ account' = [account EXCEPT ![q.on].role = q.role]
    /\ member' = [member EXCEPT ![q.at][q.on] =
                    [role |-> q.role, active |-> TRUE, version |-> old.version + 1]]
    /\ demoted' = IF q.on \in owners(q.at) /\ q.role # "OWNER"
                  THEN demoted \cup {q.at} ELSE demoted
    /\ End(r)
    /\ UNCHANGED merchant

Change == [role: merchantRoles \cup {Same}, active: {"yes", "no", Same}]
            \ [role: {Same}, active: {Same}]

\* The role of the sender is looked at only when a role is given.
AdmitUpdateStaff(r) ==
    \E u \in User : \E m \in memberships(u), who \in User, give \in Change :
       /\ signedIn(u, managers)
       /\ give.role # Same => canManage(member[m][u].role, give.role)
       /\ member[m][who] # NoMember
       /\ Admit(r, [step |-> "allowed", op |-> "updateStaff", at |-> m, on |-> who,
                    seen |-> member[m][who], give |-> give])

\* Mistake: only a demotion counts, no deactivation.
counts_Role(row, give) == row.role = "OWNER" /\ give.role \notin {Same, "OWNER"}

\* The update would take an owner away, for which it counts the owners.
counts(row, give) ==
    row.role = "OWNER" /\ (give.active = "no" \/ give.role \notin {Same, "OWNER"})

\* The snapshot of the serializable transaction.
ReadStaff(r) ==
    LET q == serving[r]
        row == member[q.at][q.on]
    IN
    /\ Is(r, "allowed", "updateStaff")
    /\ row.version = q.seen.version
    /\ counts(row, q.give) => Cardinality(owners(q.at)) > 1
    /\ serving' = [serving EXCEPT ![r] =
                     [step |-> "read", op |-> "updateStaff", at |-> q.at, on |-> q.on,
                      seen |-> q.seen, give |-> q.give, row |-> row,
                      account |-> account[q.on]]]
    /\ UNCHANGED merchantVars

\* Mistake: the transaction is not serializable.
excluded_Never(p, r) == FALSE

\* Of two transactions that have counted the owners of a merchant, each about to
\* write a row that the other has counted, the second fails.
excluded(p, r) ==
    /\ Is(p, "read", "updateStaff") /\ Is(r, "read", "updateStaff")
    /\ serving[p].at = serving[r].at /\ serving[p].on # serving[r].on
    /\ \A q \in {p, r} : counts(serving[q].row, serving[q].give)

UpdateStaff(r) ==
    LET q == serving[r] IN
    /\ Is(r, "read", "updateStaff")
    /\ member[q.at][q.on] = q.row
    /\ q.give.role # Same => account[q.on] = q.account
    /\ member' = [member EXCEPT ![q.at][q.on] =
                    [role |-> given(q.give.role, @.role),
                     active |-> givenFlag(q.give.active, @.active),
                     version |-> @.version + 1]]
    /\ account' = [account EXCEPT ![q.on].role = given(q.give.role, @)]
    /\ serving' = [p \in Request |-> IF p = r \/ excluded(p, r) THEN Ended
                                                                ELSE serving[p]]
    /\ UNCHANGED <<merchant, demoted>>

-----------------------------------------------------------------------------
AdmitMerchants(r) ==
    \/ AdmitRegistration(r) \/ AdmitCreation(r) \/ AdmitUpdateCurrent(r)
    \/ AdmitTransition(r) \/ AdmitAddStaff(r) \/ AdmitUpdateStaff(r)

\* A request is refused, fails or gets lost.
Ends(r) ==
    /\ serving[r].step \notin {"idle", "ended"}
    /\ End(r)
    /\ UNCHANGED merchantVars

\* What a request about merchants does, but for a registration.
ServeMerchants(r) ==
    \/ Create(r) \/ UpdateCurrent(r) \/ ReadOwners(r) \/ TransitionMerchant(r)
    \/ ReadInvited(r) \/ AddStaff(r) \/ ReadStaff(r) \/ UpdateStaff(r)
    \/ Ends(r)

-----------------------------------------------------------------------------
(* Properties.                                                             *)

MerchantsTypeOK ==
    /\ account \in [User -> Account]
    /\ Len(merchant) \in MerchantId
    /\ \A m \in DOMAIN merchant :
          /\ merchant[m].name \in Name /\ merchant[m].status \in MerchantStatus
          /\ merchant[m].version \in Nat \ {0}
    /\ \A m \in MerchantId, u \in User :
          \/ member[m][u] = NoMember
          \/ /\ m \in DOMAIN merchant /\ account[u].role # "NONE"
             /\ member[m][u].role \in merchantRoles /\ member[m][u].version > 0
    /\ demoted \subseteq DOMAIN merchant

\* "A merchant must always retain at least one active owner"
\* (docs/architecture/identity-domain.md), whoever deactivates and demotes
\* whom at once.  Only an owner who is invited again, as less than an owner,
\* is not counted (addStaff).
OwnersRemain ==
    \A m \in DOMAIN merchant : owners(m) = {} => m \in demoted
=============================================================================
