--------------------------- MODULE AddressBookProofs ---------------------------
(***************************************************************************)
(* Proofs about AddressBook and Merchants, for any people, any requests at *)
(* a time, and any bounds.                                                 *)
(*                                                                         *)
(* IInv says what the tables hold (PeopleOK to AddressesOK), that what a   *)
(* request knows of a row is so, or the row's version tells that it no     *)
(* longer is (ServingOK), and that an owner whom a request is about to     *)
(* take away leaves another one behind (OthersOwn), which is what          *)
(* serializable transactions are needed for.                               *)
(***************************************************************************)
EXTENDS AddressBook, FiniteSetTheorems, SequenceTheorems, TLAPS

MerchantRow == [name: Name, status: MerchantStatus, version: Nat \ {0}]
MemberRow == [role: merchantRoles \cup {"NONE"}, active: BOOLEAN, version: Nat]
StoreRow == [merchant: MerchantId, point: Point, active: BOOLEAN, version: Nat]
CustomerRow == [merchant: MerchantId, phone: Phone, name: Name, active: BOOLEAN,
                version: Nat]
AddressRow == [merchant: MerchantId, customer: Nat, store: Nat, point: Point,
               archived: BOOLEAN, version: Nat]

MerchantsOK == merchant \in Seq(MerchantRow) /\ Len(merchant) \in MerchantId

PeopleOK ==
    /\ account \in [User -> Account]
    /\ member \in [MerchantId -> [User -> MemberRow]]
    /\ \A m \in MerchantId, u \in User :
          \/ member[m][u] = NoMember
          \/ /\ m \in DOMAIN merchant /\ account[u].role # "NONE"
             /\ member[m][u].role # "NONE" /\ member[m][u].version > 0
    /\ demoted \subseteq DOMAIN merchant

StoresOK ==
    /\ store \in Seq(StoreRow)
    /\ \A s \in DOMAIN store : store[s].merchant \in DOMAIN merchant

CustomersOK ==
    /\ customer \in Seq(CustomerRow)
    /\ \A c \in DOMAIN customer : customer[c].merchant \in DOMAIN merchant
    /\ \A c, d \in DOMAIN customer :
          customer[c].merchant = customer[d].merchant /\ customer[c].phone = customer[d].phone
          => c = d

\* An address is a customer's, or the copy of a store's.
belongs(row) ==
    \/ /\ row.store = None /\ row.customer \in DOMAIN customer
       /\ row.merchant = customer[row.customer].merchant
    \/ /\ row.customer = None /\ row.store \in DOMAIN store
       /\ row.merchant = store[row.store].merchant

\* A table of addresses has one copy in use of a store's.
addressTable(t) ==
    /\ t \in Seq(AddressRow)
    /\ \A a, b \in DOMAIN t :
          t[a].store # None /\ t[a].store = t[b].store /\ ~t[a].archived /\ ~t[b].archived
          => a = b

AddressesOK ==
    /\ addressTable(address)
    /\ \A a \in DOMAIN address : belongs(address[a])

\* A row is as it was seen, or has another version.
asSeen(row, seen) ==
    seen.version <= row.version /\ (seen.version = row.version => row = seen)

\* What the request q about merchants and people knows.
fitsPeople(q) ==
    /\ q.op \in {"register", "create"} => q.by \in User
    /\ q.op \in {"updateCurrent", "transition"} =>
          /\ q.at \in DOMAIN merchant /\ q.seen \in MerchantRow
          /\ asSeen(merchant[q.at], q.seen)
    /\ q.op = "updateCurrent" => q.name \in Name
    /\ q.op = "transition" => q.action \in DOMAIN rules
    /\ q.op = "addStaff" =>
          q \in [step: {"allowed", "read"}, op: {"addStaff"}, at: DOMAIN merchant,
                 on: User, role: merchantRoles]
    /\ q.op = "updateStaff" =>
          /\ q.at \in DOMAIN merchant /\ q.on \in User /\ q.give \in Change
          /\ q.seen \in MemberRow /\ q.seen.version > 0
          /\ asSeen(member[q.at][q.on], q.seen)
          /\ q.step = "read" => q.row = q.seen

\* What a request about stores, customers and addresses knows.
fitsBook(q) ==
    /\ q.op = "createStore" => q.at \in DOMAIN merchant
    /\ q.op = "updateStore" =>
          /\ q.on \in DOMAIN store /\ q.give \in StoreChange
          /\ q.seen \in StoreRow /\ asSeen(store[q.on], q.seen)
    /\ q.op = "createCustomer" =>
          q.at \in DOMAIN merchant /\ q.phone \in Phone /\ q.name \in Name
    /\ q.op = "updateCustomer" =>
          /\ q.on \in DOMAIN customer /\ q.give \in CustomerChange
          /\ q.seen \in CustomerRow /\ asSeen(customer[q.on], q.seen)
    /\ q.op = "setArchived" => q.on \in DOMAIN customer /\ q.archived \in BOOLEAN
    /\ q.op = "createAddress" =>
          q.on \in DOMAIN customer /\ customer[q.on].merchant = q.at
    /\ q.op \in {"updateAddress", "archiveAddress"} => q.on \in DOMAIN address
    /\ q.op = "updateAddress" =>
          /\ address[q.on].customer # None
          /\ q.seen \in AddressRow /\ asSeen(address[q.on], q.seen)

\* The customer that a quote names or has found is its merchant's.
ownCustomer(q) ==
    q.customer # None => /\ q.customer \in DOMAIN customer
                         /\ customer[q.customer].merchant = q.at

\* What a quote has been asked for.
fitsForm(q) ==
    /\ q.at \in DOMAIN merchant /\ q.phone \in Phone /\ q.name \in Name
    /\ q.store \in DOMAIN store /\ store[q.store].merchant = q.at
    /\ ownCustomer(q) /\ q.save \in BOOLEAN

\* What a quote has read and is about to write.
fitsRead(q) ==
    /\ q.at \in DOMAIN merchant /\ ownCustomer(q) /\ q.save \in BOOLEAN
    /\ q.row \in CustomerRow /\ q.row.merchant = q.at
    /\ q.written \in CustomerRow /\ q.written.merchant = q.at
    /\ q.written.phone = q.row.phone
    /\ q.written = q.row \/ q.written.version > q.row.version
    /\ q.customer = None => q.written = q.row
    /\ q.copy # None => q.copy \in DOMAIN address /\ address[q.copy].customer = None
    /\ q.pickup \in AddressRow /\ q.pickup.customer = None /\ ~q.pickup.archived
    /\ q.pickup.store \in DOMAIN store /\ store[q.pickup.store].merchant = q.at
    /\ q.pickup.merchant = q.at /\ q.point \in Point

fits(q) ==
    \/ q \in {Idle, Ended}
    \/ /\ q.step \in {"allowed", "read"}
       /\ fitsPeople(q) /\ fitsBook(q)
       /\ q.op = "quote" /\ q.step = "allowed" => fitsForm(q)
       /\ q.op = "quote" /\ q.step = "read" => fitsRead(q)

ServingOK ==
    /\ serving = [r \in Request |-> serving[r]]
    /\ \A r \in Request : fits(serving[r])

\* The request q may take an owner away from its merchant.
removes(q) == q.step = "read" /\ q.op = "updateStaff" /\ counts(q.row, q.give)

OthersOwn ==
    \A r \in Request : removes(serving[r]) =>
        \/ serving[r].at \in demoted
        \/ \E u \in owners(serving[r].at) : u # serving[r].on

RowsOK == MerchantsOK /\ PeopleOK /\ StoresOK /\ CustomersOK /\ AddressesOK

\* The inductive invariant.
IInv == RowsOK /\ ServingOK /\ OthersOwn /\ OwnersRemain

-----------------------------------------------------------------------------
(* Tables.                                                                 *)

LEMMA Replaced ==
    ASSUME NEW S, NEW rows \in Seq(S), NEW i \in DOMAIN rows, NEW row \in S
    PROVE  /\ [rows EXCEPT ![i] = row] \in Seq(S)
           /\ DOMAIN [rows EXCEPT ![i] = row] = DOMAIN rows
           /\ Len([rows EXCEPT ![i] = row]) = Len(rows)
           /\ [rows EXCEPT ![i] = row][i] = row
           /\ \A j \in DOMAIN rows \ {i} : [rows EXCEPT ![i] = row][j] = rows[j]
BY ExceptSeq

LEMMA Added ==
    ASSUME NEW S, NEW rows \in Seq(S), NEW row \in S
    PROVE  /\ Append(rows, row) \in Seq(S)
           /\ Len(Append(rows, row)) = Len(rows) + 1
           /\ DOMAIN Append(rows, row) = DOMAIN rows \cup {Len(rows) + 1}
           /\ Len(rows) + 1 \notin DOMAIN rows
           /\ Append(rows, row)[Len(rows) + 1] = row
           /\ \A j \in DOMAIN rows : Append(rows, row)[j] = rows[j]
<1>1. /\ Append(rows, row) \in Seq(S) /\ Len(Append(rows, row)) = Len(rows) + 1
      /\ \A j \in 1 .. Len(rows) : Append(rows, row)[j] = rows[j]
      /\ Append(rows, row)[Len(rows) + 1] = row
  BY AppendProperties
<1>2. /\ DOMAIN rows = 1 .. Len(rows) /\ Len(rows) \in Nat
      /\ DOMAIN Append(rows, row) = 1 .. Len(rows) + 1
  BY <1>1
<1> QED
  BY <1>1, <1>2

\* Rows stay, as they are or under another version.
kept(new, old) == new = old \/ new.version > old.version

MerchantsGrow ==
    /\ \A m \in DOMAIN merchant : m \in DOMAIN merchant' /\ kept(merchant'[m], merchant[m])
    /\ \A m \in DOMAIN merchant, u \in User : kept(member'[m][u], member[m][u])

StoresGrow ==
    \A s \in DOMAIN store :
       /\ s \in DOMAIN store' /\ kept(store'[s], store[s])
       /\ store'[s].merchant = store[s].merchant

CustomersGrow ==
    \A c \in DOMAIN customer :
       /\ c \in DOMAIN customer' /\ kept(customer'[c], customer[c])
       /\ customer'[c].merchant = customer[c].merchant

\* A store's copy changes under the same version.
addressesGrow(new, old) ==
    \A a \in DOMAIN old :
       /\ a \in DOMAIN new /\ new[a].customer = old[a].customer
       /\ old[a].customer # None => kept(new[a], old[a])

Grow ==
    /\ MerchantsGrow /\ StoresGrow /\ CustomersGrow
    /\ addressesGrow(address', address)

LEMMA SeenStill ==
    ASSUME NEW new, NEW old, NEW seen, new.version \in Nat, old.version \in Nat,
           seen.version \in Nat, kept(new, old), asSeen(old, seen)
    PROVE  asSeen(new, seen)
BY DEF kept, asSeen

RowsTyped ==
    /\ \A m \in DOMAIN merchant : m \in MerchantId /\ merchant[m] \in MerchantRow
    /\ \A m \in MerchantId, u \in User : member[m][u] \in MemberRow
    /\ \A s \in DOMAIN store : store[s] \in StoreRow
    /\ \A c \in DOMAIN customer : customer[c] \in CustomerRow
    /\ \A a \in DOMAIN address : address[a] \in AddressRow

LEMMA Typed == RowsOK => RowsTyped
<1> SUFFICES ASSUME RowsOK PROVE RowsTyped
  OBVIOUS
<1>1. \A m \in DOMAIN merchant : m \in MerchantId
  BY BoundAssumption DEF RowsOK, MerchantsOK, MerchantId
<1> QED
  BY <1>1 DEF RowsOK, MerchantsOK, PeopleOK, StoresOK, CustomersOK, AddressesOK,
     addressTable, RowsTyped

\* What a request knows it still knows.
LEMMA FitsStill ==
    ASSUME RowsOK, RowsOK', Grow, NEW q, fits(q)
    PROVE  fits(q)'
<1> USE DEF Grow, MerchantsGrow, StoresGrow, CustomersGrow, addressesGrow
<1>1. CASE q \in {Idle, Ended}
  BY <1>1 DEF fits
<1> SUFFICES ASSUME q \notin {Idle, Ended} PROVE fits(q)'
  BY <1>1
<1>2. /\ q.step \in {"allowed", "read"} /\ fitsPeople(q) /\ fitsBook(q)
      /\ q.op = "quote" /\ q.step = "allowed" => fitsForm(q)
      /\ q.op = "quote" /\ q.step = "read" => fitsRead(q)
  BY DEF fits
<1>3. /\ \A m \in DOMAIN merchant : merchant[m].version \in Nat /\ merchant'[m].version \in Nat
      /\ \A m \in DOMAIN merchant, u \in User :
            member[m][u].version \in Nat /\ member'[m][u].version \in Nat
      /\ \A s \in DOMAIN store : store[s].version \in Nat /\ store'[s].version \in Nat
      /\ \A c \in DOMAIN customer :
            customer[c].version \in Nat /\ customer'[c].version \in Nat
      /\ \A a \in DOMAIN address :
            address[a].version \in Nat /\ address'[a].version \in Nat
  <2>1. RowsTyped /\ RowsTyped'
    BY Typed, PTL
  <2> QED
    BY <2>1 DEF RowsTyped, MerchantRow, MemberRow, StoreRow, CustomerRow, AddressRow
<1>4. fitsPeople(q)'
  <2>1. CASE q.op \in {"updateCurrent", "transition"}
    <3>1. asSeen(merchant[q.at], q.seen)'
      BY <1>2, <1>3, <2>1, SeenStill DEF fitsPeople, MerchantRow
    <3> QED
      BY <1>2, <2>1, <3>1 DEF fitsPeople
  <2>2. CASE q.op = "addStaff"
    <3>1. DOMAIN merchant \subseteq DOMAIN merchant'
      OBVIOUS
    <3> QED
      BY <1>2, <2>2, <3>1 DEF fitsPeople
  <2>3. CASE q.op = "updateStaff"
    <3>1. asSeen(member[q.at][q.on], q.seen)'
      BY <1>2, <1>3, <2>3, SeenStill DEF fitsPeople, MemberRow
    <3> QED
      BY <1>2, <2>3, <3>1 DEF fitsPeople
  <2> QED
    BY <1>2, <2>1, <2>2, <2>3 DEF fitsPeople
<1>5. fitsBook(q)'
  <2>1. CASE q.op = "updateStore"
    <3>1. asSeen(store[q.on], q.seen)'
      BY <1>2, <1>3, <2>1, SeenStill DEF fitsBook, StoreRow
    <3> QED
      BY <1>2, <2>1, <3>1 DEF fitsBook
  <2>2. CASE q.op = "updateCustomer"
    <3>1. asSeen(customer[q.on], q.seen)'
      BY <1>2, <1>3, <2>2, SeenStill DEF fitsBook, CustomerRow
    <3> QED
      BY <1>2, <2>2, <3>1 DEF fitsBook
  <2>3. CASE q.op = "updateAddress"
    <3>1. asSeen(address[q.on], q.seen)'
      BY <1>2, <1>3, <2>3, SeenStill DEF fitsBook, AddressRow
    <3> QED
      BY <1>2, <2>3, <3>1 DEF fitsBook
  <2>4. CASE q.op \notin {"updateStore", "updateCustomer", "updateAddress"}
    BY <1>2, <2>4 DEF fitsBook
  <2> QED
    BY <2>1, <2>2, <2>3, <2>4
<1>6. q.op = "quote" /\ q.step = "allowed" => fitsForm(q)'
  BY <1>2 DEF fitsForm, ownCustomer
<1>7. q.op = "quote" /\ q.step = "read" => fitsRead(q)'
  BY <1>2 DEF fitsRead, ownCustomer
<1> QED
  BY <1>2, <1>4, <1>5, <1>6, <1>7 DEF fits

-----------------------------------------------------------------------------
(* Requests.                                                               *)

LEMMA FitsOf ==
    ASSUME NEW r, NEW q, q = serving'[r], fits(q)'
    PROVE  fits(serving[r])'
BY DEF fits, fitsPeople, fitsBook, fitsForm, fitsRead, ownCustomer, asSeen

\* The rows stay or move on, and so does one request; others may have ended.
LEMMA Frame ==
    ASSUME IInv, NEW r \in Request, NEW new, RowsOK', Grow, OwnersRemain', OthersOwn',
           serving' = [p \in Request |-> serving'[p]], serving'[r] = new, fits(new)',
           \A p \in Request \ {r} : serving'[p] \in {serving[p], Ended}
    PROVE  IInv'
<1>1. ASSUME NEW p \in Request PROVE fits(serving[p])'
  <2>1. PICK q : q = serving'[p]
    OBVIOUS
  <2>2. fits(Ended)'
    BY DEF fits
  <2>3. ASSUME q = serving[p] PROVE fits(q)'
    BY <2>3, FitsStill DEF IInv, ServingOK
  <2>4. fits(q)'
    BY <2>1, <2>2, <2>3
  <2> QED
    BY <2>1, <2>4, FitsOf
<1>2. ServingOK'
  BY <1>1 DEF ServingOK
<1> QED
  BY <1>2 DEF IInv

\* Nobody stops being an owner, but for those who are invited to less.
OwnersStay ==
    /\ demoted \subseteq demoted'
    /\ \A m \in DOMAIN merchant : m \in demoted' \/ owners(m) \subseteq owners(m)'

LEMMA OthersStill ==
    ASSUME IInv, NEW r \in Request, NEW new, OwnersStay, serving'[r] = new, ~removes(new),
           \A p \in Request \ {r} : serving'[p] \in {serving[p], Ended}
    PROVE  OthersOwn'
<1>1. ASSUME NEW p \in Request, NEW q, q = serving'[p], removes(q)
      PROVE  q.at \in demoted' \/ \E u \in owners(q.at)' : u # q.on
  <2>1. p # r /\ q # Ended
    BY <1>1 DEF removes, Ended
  <2>2. q = serving[p]
    BY <1>1, <2>1
  <2>3. q.at \in DOMAIN merchant
    BY <1>1, <2>2 DEF IInv, ServingOK, fits, fitsPeople, removes, Idle, Ended
  <2>4. q.at \in demoted \/ \E u \in owners(q.at) : u # q.on
    BY <1>1, <2>2 DEF IInv, OthersOwn
  <2>5. q.at \in demoted' \/ owners(q.at) \subseteq owners(q.at)'
    BY <2>3 DEF OwnersStay
  <2> QED
    BY <2>4, <2>5 DEF OwnersStay
<1> QED
  BY <1>1 DEF OthersOwn, removes, counts, owners


rows == <<account, merchant, member, demoted, store, customer, address>>

LEMMA RowsStill ==
    ASSUME IInv, UNCHANGED rows
    PROVE  RowsOK' /\ Grow /\ OwnersStay /\ OwnersRemain'
<1>1. RowsOK'
  BY DEF rows, IInv, RowsOK, MerchantsOK, PeopleOK, StoresOK, CustomersOK, AddressesOK,
     addressTable, belongs
<1>2. Grow
  BY DEF rows, Grow, MerchantsGrow, StoresGrow, CustomersGrow, addressesGrow, kept
<1>3. OwnersStay /\ OwnersRemain'
  BY DEF rows, IInv, OwnersStay, OwnersRemain, owners
<1> QED
  BY <1>1, <1>2, <1>3

LEMMA Admitted ==
    ASSUME IInv, NEW r \in Request, NEW new, serving' = [serving EXCEPT ![r] = new]
    PROVE  /\ serving' = [p \in Request |-> serving'[p]] /\ serving'[r] = new
           /\ \A p \in Request \ {r} : serving'[p] = serving[p]
<1>1. serving = [p \in Request |-> serving[p]]
  BY DEF IInv, ServingOK
<1> QED
  BY <1>1

\* A request that only reads.
LEMMA ReadKeeps ==
    ASSUME IInv, NEW r \in Request, NEW new, serving' = [serving EXCEPT ![r] = new],
           fits(new), ~removes(new), UNCHANGED rows
    PROVE  IInv'
<1>1. RowsOK' /\ Grow /\ OwnersStay /\ OwnersRemain'
  BY RowsStill
<1>2. fits(new)'
  BY <1>1, FitsStill DEF IInv
<1>3. OthersOwn'
  BY <1>1, Admitted, OthersStill
<1> QED
  BY <1>1, <1>2, <1>3, Admitted, Frame

\* A request that writes and ends.
LEMMA WriteKeeps ==
    ASSUME IInv, NEW r \in Request, End(r), RowsOK', Grow, OwnersStay, OwnersRemain'
    PROVE  IInv'
<1>1. serving' = [serving EXCEPT ![r] = Ended]
  BY DEF End
<1>2. fits(Ended)' /\ ~removes(Ended)
  BY DEF fits, removes, Ended
<1>3. OthersOwn'
  BY <1>1, <1>2, Admitted, OthersStill
<1> QED
  BY <1>1, <1>2, <1>3, Admitted, Frame

LEMMA EndsKeeps ==
    ASSUME IInv, NEW r \in Request, End(r), UNCHANGED rows
    PROVE  IInv'
BY RowsStill, WriteKeeps

LEMMA AdmitKeeps ==
    ASSUME IInv, NEW r \in Request, NEW q, Admit(r, q), q.step = "allowed",
           fitsPeople(q), fitsBook(q), q.op = "quote" => fitsForm(q), UNCHANGED rows
    PROVE  IInv'
<1>1. fits(q) /\ ~removes(q)
  BY DEF fits, removes
<1> QED
  BY <1>1, ReadKeeps DEF Admit

LEMMA AdmitMerchantsKeeps ==
    ASSUME IInv, NEW r \in Request, AdmitMerchants(r), UNCHANGED rows
    PROVE  IInv'
<1> USE DEF fitsPeople, fitsBook
<1>1. RowsTyped
  BY Typed DEF IInv
<1>2. \A u \in User : \A m \in memberships(u) : m \in DOMAIN merchant
  BY DEF memberships
<1>3. \A u \in User : \A roles : actingFor(u, roles) \subseteq DOMAIN merchant
  BY <1>2 DEF actingFor
<1>4. ASSUME AdmitRegistration(r) PROVE IInv'
  <2>1. PICK u \in User : Admit(r, [step |-> "allowed", op |-> "register", by |-> u])
    BY <1>4 DEF AdmitRegistration
  <2> QED
    BY <2>1, AdmitKeeps
<1>5. ASSUME AdmitCreation(r) PROVE IInv'
  <2>1. PICK u \in User : Admit(r, [step |-> "allowed", op |-> "create", by |-> u])
    BY <1>5 DEF AdmitCreation
  <2> QED
    BY <2>1, AdmitKeeps
<1>6. ASSUME AdmitUpdateCurrent(r) PROVE IInv'
  <2>1. PICK m \in DOMAIN merchant, n \in Name :
           Admit(r, [step |-> "allowed", op |-> "updateCurrent", at |-> m,
                     seen |-> merchant[m], name |-> n])
    BY <1>3, <1>6 DEF AdmitUpdateCurrent
  <2>2. merchant[m] \in MerchantRow /\ asSeen(merchant[m], merchant[m])
    BY <1>1 DEF RowsTyped, MerchantRow, asSeen
  <2> QED
    BY <2>1, <2>2, AdmitKeeps
<1>7. ASSUME AdmitTransition(r) PROVE IInv'
  <2>1. PICK m \in DOMAIN merchant, action \in DOMAIN rules :
           Admit(r, [step |-> "allowed", op |-> "transition", at |-> m,
                     seen |-> merchant[m], action |-> action])
    BY <1>7 DEF AdmitTransition
  <2>2. merchant[m] \in MerchantRow /\ asSeen(merchant[m], merchant[m])
    BY <1>1 DEF RowsTyped, MerchantRow, asSeen
  <2> QED
    BY <2>1, <2>2, AdmitKeeps
<1>8. ASSUME AdmitAddStaff(r) PROVE IInv'
  <2>1. PICK m \in DOMAIN merchant, who \in User, role \in merchantRoles :
           Admit(r, [step |-> "allowed", op |-> "addStaff", at |-> m, on |-> who,
                     role |-> role])
    BY <1>2, <1>8 DEF AdmitAddStaff
  <2> QED
    BY <2>1, AdmitKeeps
<1>9. ASSUME AdmitUpdateStaff(r) PROVE IInv'
  <2>1. PICK m \in DOMAIN merchant, who \in User, give \in Change :
           /\ member[m][who] # NoMember
           /\ Admit(r, [step |-> "allowed", op |-> "updateStaff", at |-> m, on |-> who,
                        seen |-> member[m][who], give |-> give])
    BY <1>2, <1>9 DEF AdmitUpdateStaff
  <2>2. /\ member[m][who] \in MemberRow /\ member[m][who].version > 0
        /\ asSeen(member[m][who], member[m][who])
    BY <1>1, <2>1 DEF RowsTyped, MemberRow, asSeen, IInv, RowsOK, PeopleOK
  <2> QED
    BY <2>1, <2>2, AdmitKeeps
<1> QED
  BY <1>4, <1>5, <1>6, <1>7, <1>8, <1>9 DEF AdmitMerchants

LEMMA AdmitBookKeeps ==
    ASSUME IInv, NEW r \in Request, AdmitBook(r), UNCHANGED rows
    PROVE  IInv'
<1> USE DEF fitsPeople, fitsBook
<1>1. RowsTyped
  BY Typed DEF IInv
<1>2. \A u \in User : merchantContext(u) \subseteq DOMAIN merchant
  BY DEF memberships, merchantContext
<1>3. \A u \in User : \A roles : actingFor(u, roles) \subseteq DOMAIN merchant
  BY DEF actingFor, memberships
<1>4. ASSUME AdmitCreateStore(r) PROVE IInv'
  <2>1. PICK m \in DOMAIN merchant :
           Admit(r, [step |-> "allowed", op |-> "createStore", at |-> m])
    BY <1>3, <1>4 DEF AdmitCreateStore
  <2> QED
    BY <2>1, AdmitKeeps
<1>5. ASSUME AdmitUpdateStore(r) PROVE IInv'
  <2>1. PICK s \in DOMAIN store, give \in StoreChange :
           Admit(r, [step |-> "allowed", op |-> "updateStore", on |-> s,
                     seen |-> store[s], give |-> give])
    BY <1>5 DEF AdmitUpdateStore, rowsOf
  <2>2. store[s] \in StoreRow /\ asSeen(store[s], store[s])
    BY <1>1 DEF RowsTyped, StoreRow, asSeen
  <2> QED
    BY <2>1, <2>2, AdmitKeeps
<1>6. ASSUME AdmitCreateCustomer(r) PROVE IInv'
  <2>1. PICK m \in DOMAIN merchant, phone \in Phone, n \in Name :
           Admit(r, [step |-> "allowed", op |-> "createCustomer", at |-> m,
                     phone |-> phone, name |-> n])
    BY <1>2, <1>6 DEF AdmitCreateCustomer
  <2> QED
    BY <2>1, AdmitKeeps
<1>7. ASSUME AdmitUpdateCustomer(r) PROVE IInv'
  <2>1. PICK c \in DOMAIN customer, give \in CustomerChange :
           Admit(r, [step |-> "allowed", op |-> "updateCustomer", on |-> c,
                     seen |-> customer[c], give |-> give])
    BY <1>7 DEF AdmitUpdateCustomer, rowsOf
  <2>2. customer[c] \in CustomerRow /\ asSeen(customer[c], customer[c])
    BY <1>1 DEF RowsTyped, CustomerRow, asSeen
  <2> QED
    BY <2>1, <2>2, AdmitKeeps
<1>8. ASSUME AdmitSetArchived(r) PROVE IInv'
  <2>1. PICK c \in DOMAIN customer, archived \in BOOLEAN :
           Admit(r, [step |-> "allowed", op |-> "setArchived", on |-> c,
                     archived |-> archived])
    BY <1>8 DEF AdmitSetArchived, rowsOf
  <2> QED
    BY <2>1, AdmitKeeps
<1>9. ASSUME AdmitCreateAddress(r) PROVE IInv'
  <2>1. PICK m \in DOMAIN merchant, c \in DOMAIN customer :
           /\ customer[c].merchant = m
           /\ Admit(r, [step |-> "allowed", op |-> "createAddress", at |-> m, on |-> c])
    BY <1>2, <1>9 DEF AdmitCreateAddress, rowsOf
  <2> QED
    BY <2>1, AdmitKeeps
<1>10. ASSUME AdmitChangeAddress(r) PROVE IInv'
  <2>1. PICK c \in DOMAIN customer, a \in DOMAIN address,
             op \in {"updateAddress", "archiveAddress"} :
           /\ address[a].customer = c
           /\ Admit(r, [step |-> "allowed", op |-> op, on |-> a, seen |-> address[a]])
    BY <1>10 DEF AdmitChangeAddress, rowsOf, addressesOf
  <2>2. address[a].customer # None
    BY <2>1 DEF None, IInv, RowsOK, CustomersOK
  <2>3. address[a] \in AddressRow /\ asSeen(address[a], address[a])
    BY <1>1, <2>2 DEF RowsTyped, AddressRow, asSeen
  <2> QED
    BY <2>1, <2>2, <2>3, AdmitKeeps
<1>11. ASSUME AdmitQuote(r) PROVE IInv'
  <2>1. PICK m \in DOMAIN merchant, phone \in Phone, n \in Name, save \in BOOLEAN :
           \E s \in rowsOf(store, m), c \in {None} \cup rowsOf(customer, m) :
           \E a \in {None} \cup (IF c = None THEN {} ELSE addressesOf(c)) :
              Admit(r, [step |-> "allowed", op |-> "quote", at |-> m, store |-> s,
                        customer |-> c, phone |-> phone, name |-> n,
                        address |-> a, save |-> save])
    BY <1>2, <1>11 DEF AdmitQuote
  <2>2. PICK s \in rowsOf(store, m), c \in {None} \cup rowsOf(customer, m) :
           \E a : Admit(r, [step |-> "allowed", op |-> "quote", at |-> m, store |-> s,
                            customer |-> c, phone |-> phone, name |-> n,
                            address |-> a, save |-> save])
    BY <2>1
  <2>3. PICK q : /\ Admit(r, q)
                 /\ \E a : q = [step |-> "allowed", op |-> "quote", at |-> m, store |-> s,
                                customer |-> c, phone |-> phone, name |-> n,
                                address |-> a, save |-> save]
    BY <2>2
  <2>4. fitsForm(q)
    BY <2>3 DEF fitsForm, ownCustomer, rowsOf
  <2> QED
    BY <2>2, <2>3, <2>4, AdmitKeeps
<1> QED
  BY <1>4, <1>5, <1>6, <1>7, <1>8, <1>9, <1>10, <1>11 DEF AdmitBook

-----------------------------------------------------------------------------
(* Readings of requests about merchants.                                   *)

\* What a request that has been sent, or has read, is about.
LEMMA Under ==
    ASSUME IInv, NEW r \in Request, NEW q, q = serving[r], q.step \in {"allowed", "read"}
    PROVE  /\ fitsPeople(q) /\ fitsBook(q)
           /\ q.op = "quote" /\ q.step = "allowed" => fitsForm(q)
           /\ q.op = "quote" /\ q.step = "read" => fitsRead(q)
BY DEF IInv, ServingOK, fits, Idle, Ended

LEMMA ReadOwnersKeeps ==
    ASSUME IInv, NEW r \in Request, ReadOwners(r), UNCHANGED bookVars PROVE IInv'
<1>1. PICK q : q = serving[r]
  OBVIOUS
<1>2. q.step = "allowed" /\ q.op = "transition"
  BY <1>1 DEF ReadOwners, Is
<1>3. PICK new : new = [step |-> "read", op |-> "transition", at |-> q.at, seen |-> q.seen,
                        action |-> q.action, owners |-> owners(q.at)]
  OBVIOUS
<1>4. serving' = [serving EXCEPT ![r] = new] /\ UNCHANGED rows
  BY <1>1, <1>3 DEF ReadOwners, rows, merchantVars, bookVars
<1>5. fitsPeople(q)
  BY <1>1, <1>2, Under
<1>6. fits(new) /\ ~removes(new)
  BY <1>2, <1>3, <1>5 DEF fits, fitsPeople, fitsBook, removes
<1> QED
  BY <1>4, <1>6, ReadKeeps

LEMMA ReadInvitedKeeps ==
    ASSUME IInv, NEW r \in Request, ReadInvited(r), UNCHANGED bookVars PROVE IInv'
<1>1. PICK q : q = serving[r]
  OBVIOUS
<1>2. q.step = "allowed" /\ q.op = "addStaff"
  BY <1>1 DEF ReadInvited, Is
<1>3. PICK new : new = [q EXCEPT !.step = "read"]
  OBVIOUS
<1>4. serving' = [serving EXCEPT ![r] = new] /\ UNCHANGED rows
  BY <1>1, <1>3 DEF ReadInvited, rows, merchantVars, bookVars
<1>5. q \in [step: {"allowed", "read"}, op: {"addStaff"}, at: DOMAIN merchant,
             on: User, role: merchantRoles]
  BY <1>1, <1>2, Under DEF fitsPeople
<1>6. /\ new \in [step: {"allowed", "read"}, op: {"addStaff"}, at: DOMAIN merchant,
                  on: User, role: merchantRoles]
      /\ new.step = "read" /\ new.op = "addStaff"
  BY <1>3, <1>5
<1>7. fits(new) /\ ~removes(new)
  BY <1>6 DEF fits, fitsPeople, fitsBook, removes
<1> QED
  BY <1>4, <1>7, ReadKeeps

\* Of several owners there is another than this one.
LEMMA AnotherOne ==
    ASSUME NEW S, NEW x, Cardinality(S) > 1
    PROVE  \E y \in S : y # x
<1> SUFFICES ASSUME \A y \in S : y = x PROVE FALSE
  OBVIOUS
<1>1. CASE S = {}
  BY <1>1, FS_EmptySet
<1>2. CASE S # {}
  <2>1. S = {x}
    BY <1>2
  <2>2. Cardinality({x}) = 1
    BY FS_Singleton
  <2> QED
    BY <2>1, <2>2
<1> QED
  BY <1>1, <1>2

\* An update that would take an owner away has counted another one.
LEMMA ReadStaffKeeps ==
    ASSUME IInv, NEW r \in Request, ReadStaff(r), UNCHANGED bookVars PROVE IInv'
<1>1. PICK q, row : q = serving[r] /\ row = member[q.at][q.on]
  OBVIOUS
<1>2. /\ q.step = "allowed" /\ q.op = "updateStaff" /\ row.version = q.seen.version
      /\ counts(row, q.give) => Cardinality(owners(q.at)) > 1
  BY <1>1 DEF ReadStaff, Is
<1>3. PICK new : new = [step |-> "read", op |-> "updateStaff", at |-> q.at, on |-> q.on,
                        seen |-> q.seen, give |-> q.give, row |-> row,
                        account |-> account[q.on]]
  OBVIOUS
<1>4. serving' = [serving EXCEPT ![r] = new] /\ UNCHANGED rows
  BY <1>1, <1>3 DEF ReadStaff, rows, merchantVars, bookVars
<1>5. fitsPeople(q)
  BY <1>1, <1>2, Under
<1>6. row = q.seen
  BY <1>1, <1>2, <1>5 DEF fitsPeople, asSeen
<1>7. fits(new)
  BY <1>2, <1>3, <1>5, <1>6 DEF fits, fitsPeople, fitsBook
<1>8. removes(new) => \E u \in owners(new.at) : u # new.on
  BY <1>2, <1>3, AnotherOne DEF removes
<1>9. RowsOK' /\ Grow /\ OwnersStay /\ OwnersRemain'
  BY <1>4, RowsStill
<1>10. fits(new)'
  BY <1>7, <1>9, FitsStill DEF IInv
<1>11. OthersOwn'
  <2>1. serving'[r] = new /\ \A p \in Request \ {r} : serving'[p] = serving[p]
    BY <1>4, Admitted
  <2>2. owners(new.at)' = owners(new.at) /\ demoted' = demoted
    BY <1>4 DEF rows, owners
  <2>3. ASSUME NEW p \in Request, NEW n, n = serving'[p], removes(n)
        PROVE  n.at \in demoted \/ \E u \in owners(n.at) : u # n.on
    <3>1. CASE p = r
      BY <1>8, <2>1, <2>3, <3>1
    <3>2. CASE p # r
      BY <2>1, <2>3, <3>2 DEF IInv, OthersOwn
    <3> QED
      BY <3>1, <3>2
  <2> QED
    BY <1>4, <2>3 DEF OthersOwn, removes, counts, owners, rows
<1> QED
  BY <1>4, <1>9, <1>10, <1>11, Admitted, Frame

-----------------------------------------------------------------------------
(* What a quote reads.                                                     *)

LEMMA AnyOf ==
    ASSUME NEW S, None \notin S
    PROVE  anyOf(S) = None \/ anyOf(S) \in S
BY DEF anyOf

LEMMA Renamed ==
    ASSUME NEW row \in CustomerRow, NEW n \in Name, NEW new, new = renamed(row, n)
    PROVE  /\ new \in CustomerRow /\ new.merchant = row.merchant /\ new.phone = row.phone
           /\ new = row \/ new.version > row.version
           /\ row.active /\ row.name = n => new = row
<1>1. CASE row.active /\ row.name = n
  BY <1>1 DEF renamed
<1>2. CASE ~(row.active /\ row.name = n)
  <2>1. new = [row EXCEPT !.name = n, !.active = TRUE, !.version = row.version + 1]
    BY <1>2 DEF renamed
  <2>2. row.version + 1 \in Nat /\ row.version + 1 > row.version
    BY DEF CustomerRow
  <2>3. /\ new \in CustomerRow /\ new.merchant = row.merchant /\ new.phone = row.phone
        /\ new.version = row.version + 1
    BY <2>1, <2>2 DEF CustomerRow
  <2> QED
    BY <1>2, <2>2, <2>3
<1> QED
  BY <1>1, <1>2

LEMMA ReadBookKeeps ==
    ASSUME IInv, NEW r \in Request, ReadBook(r), UNCHANGED merchantVars PROVE IInv'
<1>1. PICK q : q = serving[r]
  OBVIOUS
<1>2. PICK c : c = IF q.customer # None THEN q.customer ELSE anyOf(withPhone(q.at, q.phone))
  OBVIOUS
<1>3. PICK fresh : fresh = newCustomer(q.at, q.phone, q.name)
  OBVIOUS
<1>4. PICK row : row = rowAt(customer, c, fresh)
  OBVIOUS
<1>5. PICK copy : copy = anyOf(copies(q.store))
  OBVIOUS
<1>6. PICK made : made = newAddress(q.at, None, q.store, store[q.store].point, FALSE)
  OBVIOUS
<1>7. PICK pickup : pickup = rowAt(address, copy, made)
  OBVIOUS
<1>8. PICK written : written = IF q.customer # None THEN row ELSE renamed(row, q.name)
  OBVIOUS
<1>9. PICK new : new = [step |-> "read", op |-> "quote", at |-> q.at,
           customer |-> c, row |-> row, written |-> written,
           copy |-> copy, pickup |-> pickup, point |-> store[q.store].point,
           address |-> q.address, save |-> q.save]
  OBVIOUS
<1>10. /\ q.step = "allowed" /\ q.op = "quote"
       /\ serving' = [serving EXCEPT ![r] = new] /\ UNCHANGED rows
  BY <1>1, <1>2, <1>3, <1>4, <1>5, <1>6, <1>7, <1>8, <1>9
  DEF ReadBook, Is, rows, merchantVars, bookVars
<1>11. fitsForm(q)
  BY <1>1, <1>10, Under
<1>12. RowsTyped
  BY Typed DEF IInv
<1>13. /\ None \notin DOMAIN customer /\ None \notin DOMAIN address
       /\ None \notin DOMAIN store
       /\ DOMAIN merchant \subseteq MerchantId /\ MerchantId \subseteq Nat
       /\ DOMAIN store \subseteq Nat
  BY <1>12 DEF None, MerchantId, RowsTyped, IInv, RowsOK, CustomersOK, AddressesOK,
     addressTable, StoresOK
<1>14. c # None => c \in DOMAIN customer /\ customer[c].merchant = q.at
  <2>1. withPhone(q.at, q.phone) \subseteq {i \in DOMAIN customer : customer[i].merchant = q.at}
    BY DEF withPhone, rowsOf
  <2>2. q.customer = None => c = None \/ c \in withPhone(q.at, q.phone)
    BY <1>2, <1>13, <2>1, AnyOf
  <2> QED
    BY <1>2, <1>11, <2>1, <2>2 DEF fitsForm, ownCustomer
<1>15. row \in CustomerRow /\ row.merchant = q.at
  <2>1. fresh \in CustomerRow /\ fresh.merchant = q.at
    BY <1>3, <1>11, <1>13 DEF fitsForm, newCustomer, CustomerRow
  <2> QED
    BY <1>4, <1>12, <1>14, <2>1 DEF rowAt, RowsTyped
<1>16. /\ written \in CustomerRow /\ written.merchant = q.at /\ written.phone = row.phone
       /\ written = row \/ written.version > row.version
       /\ c = None => written = row
  <2>1. q.name \in Name
    BY <1>11 DEF fitsForm
  <2>2. c = None => q.customer = None /\ row.active /\ row.name = q.name
    BY <1>2, <1>3, <1>4 DEF rowAt, newCustomer
  <2> QED
    BY <1>8, <1>15, <2>1, <2>2, Renamed
<1>17. /\ copy # None => copy \in DOMAIN address /\ address[copy].customer = None
       /\ pickup \in AddressRow /\ pickup.customer = None /\ ~pickup.archived
       /\ pickup.store = q.store /\ pickup.merchant = q.at
  <2>1. q.store \in DOMAIN store /\ store[q.store].merchant = q.at /\ q.store # None
    BY <1>11, <1>13 DEF fitsForm
  <2>2. CASE copy # None
    <3>1. copy \in DOMAIN address /\ address[copy].store = q.store /\ ~address[copy].archived
      <4>1. copies(q.store) \subseteq DOMAIN address
        BY DEF copies
      <4>2. copy \in copies(q.store)
        BY <1>5, <1>13, <2>2, <4>1, AnyOf
      <4> QED
        BY <4>2 DEF copies
    <3>2. belongs(address[copy])
      BY <3>1 DEF IInv, RowsOK, AddressesOK
    <3>3. pickup = address[copy]
      BY <1>7, <2>2 DEF rowAt
    <3> QED
      BY <1>12, <2>1, <3>1, <3>2, <3>3 DEF belongs, RowsTyped
  <2>3. CASE copy = None
    <3>1. pickup = made
      BY <1>7, <2>3 DEF rowAt
    <3>2. store[q.store].point \in Point
      BY <1>12, <2>1 DEF RowsTyped, StoreRow
    <3>3. q.at \in MerchantId /\ q.store \in Nat /\ None \in Nat
      BY <1>11, <1>13, <2>1 DEF fitsForm, None
    <3>4. /\ made \in AddressRow /\ made.customer = None /\ ~made.archived
          /\ made.store = q.store /\ made.merchant = q.at
      BY <1>6, <3>2, <3>3 DEF newAddress, AddressRow
    <3> QED
      BY <2>3, <3>1, <3>4
  <2> QED
    BY <2>2, <2>3
<1>18. fitsRead(new)
  <2>1. q.at \in DOMAIN merchant /\ q.store \in DOMAIN store /\ store[q.store].merchant = q.at
        /\ q.save \in BOOLEAN
    BY <1>11 DEF fitsForm
  <2>2. store[q.store].point \in Point
    BY <1>12, <2>1 DEF RowsTyped, StoreRow
  <2> QED
    BY <1>9, <1>14, <1>15, <1>16, <1>17, <2>1, <2>2 DEF fitsRead, ownCustomer
<1>19. fits(new) /\ ~removes(new)
  BY <1>9, <1>18 DEF fits, fitsPeople, fitsBook, removes
<1> QED
  BY <1>10, <1>19, ReadKeeps

-----------------------------------------------------------------------------
(* Writing the book.                                                       *)

LEMMA StoreWrite ==
    ASSUME IInv, NEW r \in Request, End(r), UNCHANGED <<merchantVars, customer, address>>,
           StoresOK', StoresGrow
    PROVE  IInv'
<1>1. MerchantsOK' /\ PeopleOK' /\ CustomersOK' /\ OwnersStay /\ OwnersRemain'
  BY DEF IInv, RowsOK, MerchantsOK, PeopleOK, CustomersOK, OwnersStay, OwnersRemain, owners,
     merchantVars
<1>2. AddressesOK'
  BY DEF IInv, RowsOK, AddressesOK, addressTable, belongs, StoresGrow
<1>3. Grow
  BY DEF Grow, MerchantsGrow, CustomersGrow, addressesGrow, kept, merchantVars
<1> QED
  BY <1>1, <1>2, <1>3, WriteKeeps DEF RowsOK

LEMMA CustomerWrite ==
    ASSUME IInv, NEW r \in Request, End(r), UNCHANGED <<merchantVars, store, address>>,
           CustomersOK', CustomersGrow
    PROVE  IInv'
<1>1. MerchantsOK' /\ PeopleOK' /\ StoresOK' /\ OwnersStay /\ OwnersRemain'
  BY DEF IInv, RowsOK, MerchantsOK, PeopleOK, StoresOK, OwnersStay, OwnersRemain, owners,
     merchantVars
<1>2. AddressesOK'
  BY DEF IInv, RowsOK, AddressesOK, addressTable, belongs, CustomersGrow
<1>3. Grow
  BY DEF Grow, MerchantsGrow, StoresGrow, addressesGrow, kept, merchantVars
<1> QED
  BY <1>1, <1>2, <1>3, WriteKeeps DEF RowsOK

\* A quote may write customers and addresses.
LEMMA AddressWrite ==
    ASSUME IInv, NEW r \in Request, End(r), UNCHANGED <<merchantVars, store>>,
           CustomersOK', CustomersGrow, AddressesOK', addressesGrow(address', address)
    PROVE  IInv'
<1>1. MerchantsOK' /\ PeopleOK' /\ StoresOK' /\ OwnersStay /\ OwnersRemain'
  BY DEF IInv, RowsOK, MerchantsOK, PeopleOK, StoresOK, OwnersStay, OwnersRemain, owners,
     merchantVars
<1>2. Grow
  BY DEF Grow, MerchantsGrow, StoresGrow, kept, merchantVars
<1> QED
  BY <1>1, <1>2, WriteKeeps DEF RowsOK

LEMMA CustomersStill ==
    ASSUME IInv, UNCHANGED <<merchant, customer>>
    PROVE  CustomersOK' /\ CustomersGrow
BY DEF IInv, RowsOK, CustomersOK, CustomersGrow, kept

LEMMA StoreAdded ==
    ASSUME StoresOK, NEW row \in StoreRow, store' = Append(store, row),
           DOMAIN merchant \subseteq DOMAIN merchant', row.merchant \in DOMAIN merchant'
    PROVE  StoresOK' /\ StoresGrow
<1>1. PICK new : new = store'
  OBVIOUS
<1>2. PICK old : old = store
  OBVIOUS
<1>3. old \in Seq(StoreRow) /\ new = Append(old, row)
  BY <1>1, <1>2 DEF StoresOK
<1>4. /\ new \in Seq(StoreRow) /\ DOMAIN new = DOMAIN old \cup {Len(old) + 1}
      /\ new[Len(old) + 1] = row /\ \A s \in DOMAIN old : new[s] = old[s]
  BY <1>3, Added
<1> QED
  BY <1>1, <1>2, <1>4 DEF StoresOK, StoresGrow, kept

LEMMA CreateStoreKeeps ==
    ASSUME IInv, NEW r \in Request, CreateStore(r), UNCHANGED merchantVars PROVE IInv'
<1>1. PICK q : q = serving[r]
  OBVIOUS
<1>2. q.step = "allowed" /\ q.op = "createStore" /\ End(r) /\ UNCHANGED <<customer, address>>
  BY <1>1 DEF CreateStore, Is
<1>3. PICK row : \E p \in Point, active \in BOOLEAN :
         row = newStore(q.at, p, active) /\ store' = Append(store, row)
  BY <1>1 DEF CreateStore
<1>4. q.at \in DOMAIN merchant
  BY <1>1, <1>2, Under DEF fitsBook
<1>5. q.at \in MerchantId
  BY <1>4, Typed DEF IInv, RowsTyped
<1>6. row \in StoreRow /\ row.merchant = q.at
  BY <1>3, <1>5 DEF newStore, StoreRow
<1>7. StoresOK' /\ StoresGrow
  BY <1>3, <1>4, <1>6, StoreAdded DEF IInv, RowsOK, merchantVars
<1> QED
  BY <1>2, <1>7, StoreWrite

\* What an update gives, or leaves.
LEMMA Given ==
    /\ \A value, old : given(value, old) \in {value, old} /\ given(Same, old) = old
    /\ \A value, old : value # Same => given(value, old) = value
    /\ \A value : \A old \in BOOLEAN : givenFlag(value, old) \in BOOLEAN
    /\ \A old : givenFlag(Same, old) = old
BY DEF given, givenFlag

LEMMA UpdateStoreKeeps ==
    ASSUME IInv, NEW r \in Request, UpdateStore(r), UNCHANGED merchantVars PROVE IInv'
<1>1. PICK q : q = serving[r]
  OBVIOUS
<1>2. q.step = "allowed" /\ q.op = "updateStore" /\ End(r) /\ UNCHANGED <<customer, address>>
  BY <1>1 DEF UpdateStore, Is
<1>3. q.on \in DOMAIN store /\ q.give \in StoreChange
  BY <1>1, <1>2, Under DEF fitsBook
<1>4. PICK old : old = store[q.on]
  OBVIOUS
<1>5. old \in StoreRow
  BY <1>3, <1>4, Typed DEF IInv, RowsTyped
<1>6. PICK new : new = [old EXCEPT !.point = given(q.give.point, old.point),
                                   !.active = givenFlag(q.give.active, old.active),
                                   !.version = old.version + 1]
  OBVIOUS
<1>7. store' = [store EXCEPT ![q.on] = new]
  BY <1>1, <1>3, <1>4, <1>6 DEF UpdateStore, IInv, RowsOK, StoresOK
<1>8. new \in StoreRow /\ new.merchant = old.merchant /\ new.version > old.version
  <2>1. /\ given(q.give.point, old.point) \in Point
        /\ givenFlag(q.give.active, old.active) \in BOOLEAN
        /\ old.version + 1 \in Nat /\ old.version + 1 > old.version
    BY <1>3, <1>5, Given DEF StoreChange, StoreRow
  <2> QED
    BY <1>5, <1>6, <2>1 DEF StoreRow
<1>9. /\ store' \in Seq(StoreRow) /\ DOMAIN store' = DOMAIN store /\ store'[q.on] = new
      /\ \A s \in DOMAIN store \ {q.on} : store'[s] = store[s]
  BY <1>3, <1>7, <1>8, Replaced DEF IInv, RowsOK, StoresOK
<1>10. StoresOK' /\ StoresGrow
  BY <1>3, <1>4, <1>8, <1>9 DEF IInv, RowsOK, StoresOK, StoresGrow, kept, merchantVars
<1> QED
  BY <1>2, <1>10, StoreWrite

\* A new customer has a phone number that none of the merchant's others has.
LEMMA CustomerAdded ==
    ASSUME CustomersOK, NEW row \in CustomerRow, customer' = Append(customer, row),
           merchant' = merchant, row.merchant \in DOMAIN merchant,
           withPhone(row.merchant, row.phone) = {}
    PROVE  CustomersOK' /\ CustomersGrow
<1>1. PICK new : new = customer'
  OBVIOUS
<1>2. PICK old : old = customer
  OBVIOUS
<1>3. old \in Seq(CustomerRow) /\ new = Append(old, row)
  BY <1>1, <1>2 DEF CustomersOK
<1>4. /\ new \in Seq(CustomerRow) /\ DOMAIN new = DOMAIN old \cup {Len(old) + 1}
      /\ new[Len(old) + 1] = row /\ \A c \in DOMAIN old : new[c] = old[c]
  BY <1>3, Added
<1>5. \A c \in DOMAIN old : old[c].merchant # row.merchant \/ old[c].phone # row.phone
  BY <1>2 DEF withPhone, rowsOf
<1> QED
  BY <1>1, <1>2, <1>4, <1>5 DEF CustomersOK, CustomersGrow, kept

LEMMA CustomerReplaced ==
    ASSUME CustomersOK, NEW row \in CustomerRow, NEW i \in DOMAIN customer,
           customer' = [customer EXCEPT ![i] = row], merchant' = merchant,
           row.merchant = customer[i].merchant, kept(row, customer[i]),
           withPhone(row.merchant, row.phone) \subseteq {i}
    PROVE  CustomersOK' /\ CustomersGrow
<1>1. PICK new : new = customer'
  OBVIOUS
<1>2. PICK old : old = customer
  OBVIOUS
<1>3. old \in Seq(CustomerRow) /\ i \in DOMAIN old /\ new = [old EXCEPT ![i] = row]
  BY <1>1, <1>2 DEF CustomersOK
<1>4. /\ new \in Seq(CustomerRow) /\ DOMAIN new = DOMAIN old
      /\ new[i] = row /\ \A c \in DOMAIN old \ {i} : new[c] = old[c]
  BY <1>3, Replaced
<1>5. \A c \in DOMAIN old \ {i} : old[c].merchant # row.merchant \/ old[c].phone # row.phone
  BY <1>2 DEF withPhone, rowsOf
<1> QED
  BY <1>1, <1>2, <1>3, <1>4, <1>5 DEF CustomersOK, CustomersGrow, kept

LEMMA CreateCustomerKeeps ==
    ASSUME IInv, NEW r \in Request, CreateCustomer(r), UNCHANGED merchantVars PROVE IInv'
<1>1. PICK q : q = serving[r]
  OBVIOUS
<1>2. PICK row : row = newCustomer(q.at, q.phone, q.name)
  OBVIOUS
<1>3. /\ q.step = "allowed" /\ q.op = "createCustomer" /\ End(r)
      /\ UNCHANGED <<store, address>> /\ withPhone(q.at, q.phone) = {}
      /\ customer' = Append(customer, row)
  BY <1>1, <1>2 DEF CreateCustomer, Is
<1>4. q.at \in DOMAIN merchant /\ q.phone \in Phone /\ q.name \in Name
  BY <1>1, <1>3, Under DEF fitsBook
<1>5. q.at \in MerchantId
  BY <1>4, Typed DEF IInv, RowsTyped
<1>6. row \in CustomerRow /\ row.merchant = q.at /\ row.phone = q.phone
  BY <1>2, <1>4, <1>5 DEF newCustomer, CustomerRow
<1>7. CustomersOK' /\ CustomersGrow
  BY <1>3, <1>4, <1>6, CustomerAdded DEF IInv, RowsOK, merchantVars
<1> QED
  BY <1>3, <1>7, CustomerWrite

\* The customers of a merchant with the phone number of one are that one.
LEMMA OnlyOne ==
    ASSUME CustomersOK, NEW i \in DOMAIN customer
    PROVE  withPhone(customer[i].merchant, customer[i].phone) \subseteq {i}
BY DEF CustomersOK, withPhone, rowsOf

LEMMA UpdateCustomerKeeps ==
    ASSUME IInv, NEW r \in Request, UpdateCustomer(r), UNCHANGED merchantVars PROVE IInv'
<1>1. PICK q : q = serving[r]
  OBVIOUS
<1>2. /\ q.step = "allowed" /\ q.op = "updateCustomer" /\ End(r)
      /\ UNCHANGED <<store, address>>
  BY <1>1 DEF UpdateCustomer, Is
<1>3. q.on \in DOMAIN customer /\ q.give \in CustomerChange
  BY <1>1, <1>2, Under DEF fitsBook
<1>4. PICK old : old = customer[q.on]
  OBVIOUS
<1>5. old \in CustomerRow
  BY <1>3, <1>4, Typed DEF IInv, RowsTyped
<1>6. PICK phone : phone = given(q.give.phone, old.phone)
  OBVIOUS
<1>7. PICK new : new = [old EXCEPT !.name = given(q.give.name, old.name), !.phone = phone,
                                   !.version = old.version + 1]
  OBVIOUS
<1>8. /\ customer' = [customer EXCEPT ![q.on] = new]
      /\ withPhone(old.merchant, phone) \subseteq {q.on}
  BY <1>1, <1>3, <1>4, <1>6, <1>7 DEF UpdateCustomer, IInv, RowsOK, CustomersOK
<1>9. /\ new \in CustomerRow /\ new.merchant = old.merchant /\ new.phone = phone
      /\ new.version > old.version
  <2>1. /\ given(q.give.name, old.name) \in Name /\ phone \in Phone
        /\ old.version + 1 \in Nat /\ old.version + 1 > old.version
    BY <1>3, <1>5, <1>6, Given DEF CustomerChange, CustomerRow
  <2> QED
    BY <1>5, <1>7, <2>1 DEF CustomerRow
<1>10. CustomersOK' /\ CustomersGrow
  BY <1>3, <1>4, <1>8, <1>9, CustomerReplaced DEF IInv, RowsOK, kept, merchantVars
<1> QED
  BY <1>2, <1>10, CustomerWrite

LEMMA SetArchivedKeeps ==
    ASSUME IInv, NEW r \in Request, SetArchived(r), UNCHANGED merchantVars PROVE IInv'
<1>1. PICK q : q = serving[r]
  OBVIOUS
<1>2. q.step = "allowed" /\ q.op = "setArchived" /\ End(r) /\ UNCHANGED <<store, address>>
  BY <1>1 DEF SetArchived, Is
<1>3. q.on \in DOMAIN customer /\ q.archived \in BOOLEAN
  BY <1>1, <1>2, Under DEF fitsBook
<1>4. PICK old : old = customer[q.on]
  OBVIOUS
<1>5. old \in CustomerRow
  BY <1>3, <1>4, Typed DEF IInv, RowsTyped
<1>6. PICK new : new = [old EXCEPT !.active = ~q.archived, !.version = old.version + 1]
  OBVIOUS
<1>7. customer' = [customer EXCEPT ![q.on] = new]
  BY <1>1, <1>3, <1>4, <1>6 DEF SetArchived, IInv, RowsOK, CustomersOK
<1>8. /\ new \in CustomerRow /\ new.merchant = old.merchant /\ new.phone = old.phone
      /\ new.version > old.version
  <2>1. old.version + 1 \in Nat /\ old.version + 1 > old.version
    BY <1>5 DEF CustomerRow
  <2> QED
    BY <1>3, <1>5, <1>6, <2>1 DEF CustomerRow
<1>9. CustomersOK' /\ CustomersGrow
  BY <1>3, <1>4, <1>7, <1>8, OnlyOne, CustomerReplaced DEF IInv, RowsOK, kept, merchantVars
<1> QED
  BY <1>2, <1>9, CustomerWrite

\* No other copy of a store's address is in use.
alone(row, t, others) ==
    row.store # None /\ ~row.archived =>
        \A a \in others : t[a].store # row.store \/ t[a].archived

LEMMA TableAdded ==
    ASSUME NEW t, addressTable(t), NEW row \in AddressRow, alone(row, t, DOMAIN t),
           NEW new, new = Append(t, row)
    PROVE  addressTable(new) /\ addressesGrow(new, t)
<1>1. /\ new \in Seq(AddressRow) /\ DOMAIN new = DOMAIN t \cup {Len(t) + 1}
      /\ new[Len(t) + 1] = row /\ \A a \in DOMAIN t : new[a] = t[a]
  BY Added DEF addressTable
<1> QED
  BY <1>1 DEF addressTable, addressesGrow, kept, alone

LEMMA TableReplaced ==
    ASSUME NEW t, addressTable(t), NEW i \in DOMAIN t, NEW row \in AddressRow,
           alone(row, t, DOMAIN t \ {i}), row.customer = t[i].customer,
           t[i].customer # None => kept(row, t[i]), NEW new, new = [t EXCEPT ![i] = row]
    PROVE  /\ addressTable(new) /\ addressesGrow(new, t)
           /\ DOMAIN new = DOMAIN t /\ new[i] = row
           /\ \A a \in DOMAIN t \ {i} : new[a] = t[a]
<1>1. /\ new \in Seq(AddressRow) /\ DOMAIN new = DOMAIN t
      /\ new[i] = row /\ \A a \in DOMAIN t \ {i} : new[a] = t[a]
  BY Replaced DEF addressTable
<1> QED
  BY <1>1 DEF addressTable, addressesGrow, kept, alone

LEMMA BelongsStill ==
    ASSUME NEW row, belongs(row), StoresGrow, CustomersGrow
    PROVE  belongs(row)'
BY DEF belongs, StoresGrow, CustomersGrow

\* The customer's or the store's address, or another one of theirs.
LEMMA BelongsLike ==
    ASSUME NEW row, NEW old, belongs(old), row.store = old.store,
           row.customer = old.customer, row.merchant = old.merchant
    PROVE  belongs(row)
BY DEF belongs

\* One address is new, or changes.
LEMMA OneAddressKeeps ==
    ASSUME IInv, NEW r \in Request, End(r), UNCHANGED <<merchantVars, store, customer>>,
           NEW new, new = address', addressTable(new), addressesGrow(new, address),
           NEW i, i \in DOMAIN new, belongs(new[i]),
           \A a \in DOMAIN new \ {i} : a \in DOMAIN address /\ new[a] = address[a]
    PROVE  IInv'
<1>1. \A a \in DOMAIN new : belongs(new[a])
  BY DEF IInv, RowsOK, AddressesOK
<1>2. AddressesOK'
  BY <1>1 DEF AddressesOK, belongs, addressTable
<1>3. CustomersOK' /\ CustomersGrow
  BY CustomersStill DEF merchantVars
<1> QED
  BY <1>2, <1>3, AddressWrite

LEMMA CreateAddressKeeps ==
    ASSUME IInv, NEW r \in Request, CreateAddress(r), UNCHANGED merchantVars PROVE IInv'
<1>1. PICK q : q = serving[r]
  OBVIOUS
<1>2. /\ q.step = "allowed" /\ q.op = "createAddress" /\ End(r)
      /\ UNCHANGED <<store, customer>>
  BY <1>1 DEF CreateAddress, Is
<1>3. PICK row : \E p \in Point :
         /\ row = newAddress(q.at, q.on, None, p, FALSE)
         /\ address' = Append(address, row)
  BY <1>1 DEF CreateAddress
<1>4. q.on \in DOMAIN customer /\ customer[q.on].merchant = q.at
  BY <1>1, <1>2, Under DEF fitsBook
<1>5. q.at \in MerchantId /\ q.on \in Nat /\ None \in Nat
  BY <1>4, Typed DEF IInv, RowsTyped, RowsOK, CustomersOK, CustomerRow, None
<1>6. row \in AddressRow /\ row.customer = q.on /\ row.store = None /\ row.merchant = q.at
  BY <1>3, <1>5 DEF newAddress, AddressRow
<1>7. belongs(row) /\ alone(row, address, DOMAIN address)
  BY <1>4, <1>6 DEF belongs, alone
<1>8. PICK new : new = address'
  OBVIOUS
<1>9. /\ addressTable(new) /\ addressesGrow(new, address)
      /\ DOMAIN new = DOMAIN address \cup {Len(address) + 1} /\ new[Len(address) + 1] = row
      /\ \A a \in DOMAIN address : new[a] = address[a]
  <2>1. PICK old : old = address
    OBVIOUS
  <2>2. /\ addressTable(old) /\ alone(row, old, DOMAIN old) /\ row \in AddressRow
        /\ new = Append(old, row)
    <3>1. addressTable(old)
      BY <2>1 DEF IInv, RowsOK, AddressesOK
    <3>2. alone(row, old, DOMAIN old)
      BY <1>7, <2>1
    <3>3. new = Append(old, row)
      BY <1>3, <1>8, <2>1
    <3> QED
      BY <1>6, <3>1, <3>2, <3>3
  <2>3. /\ addressTable(new) /\ addressesGrow(new, old)
        /\ DOMAIN new = DOMAIN old \cup {Len(old) + 1} /\ new[Len(old) + 1] = row
        /\ \A a \in DOMAIN old : new[a] = old[a]
    <3>1. addressTable(new) /\ addressesGrow(new, old)
      BY <2>2, TableAdded
    <3>2. old \in Seq(AddressRow)
      BY <2>2 DEF addressTable
    <3>3. /\ DOMAIN new = DOMAIN old \cup {Len(old) + 1} /\ new[Len(old) + 1] = row
          /\ \A a \in DOMAIN old : new[a] = old[a]
      BY <2>2, <3>2, Added
    <3> QED
      BY <3>1, <3>3
  <2> QED
    BY <2>1, <2>3
<1> QED
  BY <1>2, <1>7, <1>8, <1>9, OneAddressKeeps

\* An address changes, and stays where it belongs.
LEMMA AddressKeeps ==
    ASSUME IInv, NEW r \in Request, End(r), UNCHANGED <<merchantVars, store, customer>>,
           NEW i \in DOMAIN address, NEW row \in AddressRow,
           address' = [address EXCEPT ![i] = row], kept(row, address[i]),
           row.store = address[i].store, row.customer = address[i].customer,
           row.merchant = address[i].merchant, address[i].archived => row.archived
    PROVE  IInv'
<1>1. belongs(row)
  BY BelongsLike DEF IInv, RowsOK, AddressesOK
<1>2. alone(row, address, DOMAIN address \ {i})
  BY DEF IInv, RowsOK, AddressesOK, addressTable, alone
<1>3. PICK new : new = address'
  OBVIOUS
<1>4. /\ addressTable(new) /\ addressesGrow(new, address)
      /\ DOMAIN new = DOMAIN address /\ new[i] = row
      /\ \A a \in DOMAIN address \ {i} : new[a] = address[a]
  BY <1>2, <1>3, TableReplaced DEF IInv, RowsOK, AddressesOK
<1> QED
  BY <1>1, <1>3, <1>4, OneAddressKeeps

LEMMA UpdateAddressKeeps ==
    ASSUME IInv, NEW r \in Request, UpdateAddress(r), UNCHANGED merchantVars PROVE IInv'
<1>1. PICK q : q = serving[r]
  OBVIOUS
<1>2. /\ q.step = "allowed" /\ q.op = "updateAddress" /\ End(r)
      /\ UNCHANGED <<store, customer>>
  BY <1>1 DEF UpdateAddress, Is
<1>3. q.on \in DOMAIN address
  BY <1>1, <1>2, Under DEF fitsBook
<1>4. PICK old : old = address[q.on]
  OBVIOUS
<1>5. old \in AddressRow
  BY <1>3, <1>4, Typed DEF IInv, RowsTyped
<1>6. PICK new : \E p \in Point :
         /\ new = [old EXCEPT !.point = p, !.version = old.version + 1]
         /\ address' = [address EXCEPT ![q.on] = new]
  BY <1>1, <1>3, <1>4 DEF UpdateAddress, IInv, RowsOK, AddressesOK, addressTable
<1>7. /\ new \in AddressRow /\ new.version > old.version /\ new.store = old.store
      /\ new.customer = old.customer /\ new.merchant = old.merchant
      /\ new.archived = old.archived
  <2>1. old.version + 1 \in Nat /\ old.version + 1 > old.version
    BY <1>5 DEF AddressRow
  <2> QED
    BY <1>5, <1>6, <2>1 DEF AddressRow
<1>8. address' = [address EXCEPT ![q.on] = new]
  BY <1>6
<1> QED
  BY <1>2, <1>3, <1>4, <1>7, <1>8, AddressKeeps DEF kept

LEMMA ArchiveAddressKeeps ==
    ASSUME IInv, NEW r \in Request, ArchiveAddress(r), UNCHANGED merchantVars PROVE IInv'
<1>1. PICK q : q = serving[r]
  OBVIOUS
<1>2. /\ q.step = "allowed" /\ q.op = "archiveAddress" /\ End(r)
      /\ UNCHANGED <<store, customer>>
  BY <1>1 DEF ArchiveAddress, Is
<1>3. q.on \in DOMAIN address
  BY <1>1, <1>2, Under DEF fitsBook
<1>4. PICK old : old = address[q.on]
  OBVIOUS
<1>5. old \in AddressRow
  BY <1>3, <1>4, Typed DEF IInv, RowsTyped
<1>6. PICK new : new = [old EXCEPT !.archived = TRUE, !.version = old.version + 1]
  OBVIOUS
<1>7. address' = [address EXCEPT ![q.on] = new]
  BY <1>1, <1>3, <1>4, <1>6 DEF ArchiveAddress, IInv, RowsOK, AddressesOK, addressTable
<1>8. /\ new \in AddressRow /\ new.version > old.version /\ new.store = old.store
      /\ new.customer = old.customer /\ new.merchant = old.merchant /\ new.archived
  <2>1. old.version + 1 \in Nat /\ old.version + 1 > old.version
    BY <1>5 DEF AddressRow
  <2> QED
    BY <1>5, <1>6, <2>1 DEF AddressRow
<1> QED
  BY <1>2, <1>3, <1>4, <1>7, <1>8, AddressKeeps DEF kept

\* A quote renames, restores or inserts its customer.
LEMMA QuoteCustomer ==
    ASSUME IInv, NEW q, fitsRead(q), mayCommit(q), merchant' = merchant, NEW c,
           c = IF q.customer = None THEN Len(customer) + 1 ELSE q.customer,
           customer' = IF q.customer # None /\ q.row = q.written THEN customer
                       ELSE put(customer, q.customer, q.written)
    PROVE  /\ CustomersOK' /\ CustomersGrow
           /\ c \in DOMAIN customer' /\ customer'[c].merchant = q.at /\ c # None
<1> USE DEF fitsRead
<1>1. PICK written : written = q.written
  OBVIOUS
<1>2. written \in CustomerRow /\ written.merchant = q.at /\ q.at \in DOMAIN merchant
  BY <1>1
<1>3. CustomersOK /\ customer \in Seq(CustomerRow)
  BY DEF IInv, RowsOK, CustomersOK
<1>4. CASE q.customer = None
  <2>1. customer' = Append(customer, written) /\ c = Len(customer) + 1
    BY <1>1, <1>4 DEF put
  <2>2. withPhone(written.merchant, written.phone) = {}
    BY <1>1, <1>2, <1>4 DEF mayCommit
  <2>3. CustomersOK' /\ CustomersGrow
    BY <1>2, <1>3, <2>1, <2>2, CustomerAdded
  <2>4. c \in DOMAIN customer' /\ customer'[c] = written
    BY <1>2, <1>3, <2>1, Added
  <2>5. Len(customer) \in Nat
    BY <1>3
  <2> QED
    BY <1>2, <2>1, <2>3, <2>4, <2>5 DEF None
<1>5. CASE q.customer # None /\ q.row = q.written
  <2>1. customer' = customer /\ c = q.customer
    BY <1>5
  <2>2. c \in DOMAIN customer /\ customer[c].merchant = q.at
    BY <1>5, <2>1 DEF ownCustomer
  <2> QED
    BY <1>5, <2>1, <2>2, CustomersStill
<1>6. CASE q.customer # None /\ q.row # q.written
  <2>1. customer' = [customer EXCEPT ![c] = written] /\ c = q.customer
    BY <1>1, <1>6 DEF put
  <2>2. c \in DOMAIN customer /\ customer[c] = q.row
    BY <1>6, <2>1 DEF ownCustomer, mayCommit
  <2>3. written.merchant = q.row.merchant /\ written.phone = q.row.phone
    BY <1>1
  <2>4. withPhone(written.merchant, written.phone) \subseteq {c}
    BY <1>3, <2>2, <2>3, OnlyOne
  <2>5. kept(written, customer[c])
    BY <1>1, <2>2 DEF kept
  <2>6. CustomersOK' /\ CustomersGrow
    BY <1>2, <1>3, <2>1, <2>2, <2>3, <2>4, <2>5, CustomerReplaced
  <2>7. c \in DOMAIN customer' /\ customer'[c] = written
    BY <1>2, <1>3, <2>1, <2>2, Replaced
  <2> QED
    BY <1>2, <1>6, <2>1, <2>6, <2>7
<1> QED
  BY <1>4, <1>5, <1>6

\* The addresses of a table belong to customers and stores.
allBelong(t) == \A a \in DOMAIN t : belongs(t[a])

\* A quote moves or inserts the copy of its store's address.
LEMMA QuotePickup ==
    ASSUME IInv, NEW q, fitsRead(q), mayCommit(q), NEW pickups,
           pickups = IF q.copy # None /\ q.pickup.point = q.point THEN address
                     ELSE put(address, q.copy, [q.pickup EXCEPT !.point = q.point])
    PROVE  addressTable(pickups) /\ allBelong(pickups) /\ addressesGrow(pickups, address)
<1> USE DEF fitsRead
<1>1. PICK old : old = address
  OBVIOUS
<1>2. /\ addressTable(old) /\ old \in Seq(AddressRow)
      /\ \A a \in DOMAIN old : belongs(old[a])
  BY <1>1 DEF IInv, RowsOK, AddressesOK, addressTable
<1>3. PICK row : row = [q.pickup EXCEPT !.point = q.point]
  OBVIOUS
<1>4. /\ row \in AddressRow /\ row.customer = None /\ ~row.archived /\ row.merchant = q.at
      /\ row.store = q.pickup.store
  BY <1>3 DEF AddressRow
<1>5. belongs(row)
  BY <1>4 DEF belongs
<1>6. CASE q.copy # None /\ q.pickup.point = q.point
  BY <1>1, <1>2, <1>6 DEF addressesGrow, kept, allBelong
<1>7. CASE q.copy = None
  <2>1. pickups = Append(old, row)
    BY <1>1, <1>3, <1>7 DEF put
  <2>2. copies(row.store) = {}
    BY <1>4, <1>7 DEF mayCommit
  <2>3. alone(row, old, DOMAIN old)
    BY <1>1, <2>2 DEF copies, alone
  <2>4. addressTable(pickups) /\ addressesGrow(pickups, old)
    BY <1>2, <1>4, <2>1, <2>3, TableAdded
  <2>5. /\ DOMAIN pickups = DOMAIN old \cup {Len(old) + 1} /\ pickups[Len(old) + 1] = row
        /\ \A a \in DOMAIN old : pickups[a] = old[a]
    BY <1>2, <1>4, <2>1, Added
  <2>6. allBelong(pickups)
    BY <1>2, <1>5, <2>5 DEF allBelong
  <2> QED
    BY <1>1, <2>4, <2>6
<1>8. CASE q.copy # None /\ q.pickup.point # q.point
  <2>1. pickups = [old EXCEPT ![q.copy] = row]
    BY <1>1, <1>3, <1>8 DEF put
  <2>2. q.copy \in DOMAIN old /\ old[q.copy] = q.pickup
    BY <1>1, <1>8 DEF mayCommit
  <2>3. alone(row, old, DOMAIN old \ {q.copy})
    BY <1>2, <1>4, <2>2 DEF addressTable, alone
  <2>4. row.customer = old[q.copy].customer /\ ~(old[q.copy].customer # None)
    BY <1>4, <2>2
  <2>5. /\ addressTable(pickups) /\ addressesGrow(pickups, old)
        /\ DOMAIN pickups = DOMAIN old /\ pickups[q.copy] = row
        /\ \A a \in DOMAIN old \ {q.copy} : pickups[a] = old[a]
    BY <1>2, <1>4, <2>1, <2>2, <2>3, <2>4, TableReplaced
  <2>6. allBelong(pickups)
    BY <1>2, <1>5, <2>5 DEF allBelong
  <2> QED
    BY <1>1, <2>5, <2>6
<1> QED
  BY <1>6, <1>7, <1>8

LEMMA CreateQuoteKeeps ==
    ASSUME IInv, NEW r \in Request, CreateQuote(r), UNCHANGED merchantVars PROVE IInv'
<1>1. PICK q : q = serving[r]
  OBVIOUS
<1>2. PICK c : c = IF q.customer = None THEN Len(customer) + 1 ELSE q.customer
  OBVIOUS
<1>3. PICK pickups :
         pickups = IF q.copy # None /\ q.pickup.point = q.point THEN address
                   ELSE put(address, q.copy, [q.pickup EXCEPT !.point = q.point])
  OBVIOUS
<1>4. /\ q.step = "read" /\ q.op = "quote" /\ mayCommit(q) /\ End(r) /\ UNCHANGED store
      /\ customer' = IF q.customer # None /\ q.row = q.written THEN customer
                     ELSE put(customer, q.customer, q.written)
      /\ \/ address' = pickups
         \/ \E p \in Point :
               address' = Append(pickups, newAddress(q.at, c, None, p, ~q.save))
  BY <1>1, <1>2, <1>3 DEF CreateQuote, Is
<1>5. fitsRead(q)
  BY <1>1, <1>4, Under
<1>6. /\ CustomersOK' /\ CustomersGrow
      /\ c \in DOMAIN customer' /\ customer'[c].merchant = q.at /\ c # None
  BY <1>2, <1>4, <1>5, QuoteCustomer DEF merchantVars
<1>7. addressTable(pickups) /\ allBelong(pickups) /\ addressesGrow(pickups, address)
  BY <1>3, <1>4, <1>5, QuotePickup
<1>8. StoresGrow
  BY <1>4 DEF StoresGrow, kept
<1>9. \A a \in DOMAIN pickups : belongs(pickups[a])'
  <2>1. ASSUME NEW a \in DOMAIN pickups, NEW row, row = pickups[a] PROVE belongs(row)'
    BY <1>6, <1>7, <1>8, <2>1, BelongsStill DEF allBelong
  <2> QED
    BY <2>1 DEF belongs
<1>10. CASE address' = pickups
  <2>1. AddressesOK' /\ addressesGrow(address', address)
    BY <1>7, <1>9, <1>10 DEF AddressesOK, belongs, addressTable, addressesGrow
  <2> QED
    BY <1>4, <1>6, <2>1, AddressWrite
<1>11. CASE address' # pickups
  <2>1. PICK row : \E p \in Point :
           /\ row = newAddress(q.at, c, None, p, ~q.save)
           /\ address' = Append(pickups, row)
    BY <1>4, <1>11
  <2>2. row \in AddressRow /\ row.customer = c /\ row.store = None /\ row.merchant = q.at
    <3>1. q.at \in MerchantId /\ c \in Nat /\ None \in Nat
      <4>1. q.at \in MerchantId
        BY <1>5, Typed DEF fitsRead, IInv, RowsTyped
      <4>2. \A t \in Seq(CustomerRow) : DOMAIN t \subseteq Nat
        OBVIOUS
      <4>3. c \in Nat
        BY <1>6, <4>2 DEF CustomersOK
      <4>4. None \in Nat
        BY DEF None
      <4> QED
        BY <4>1, <4>3, <4>4
    <3> QED
      BY <2>1, <3>1 DEF newAddress, AddressRow
  <2>3. alone(row, pickups, DOMAIN pickups)
    BY <2>2 DEF alone
  <2>4. belongs(row)'
    BY <1>6, <2>2 DEF belongs
  <2>5. PICK new : new = address'
    OBVIOUS
  <2>6. addressTable(new) /\ addressesGrow(new, pickups)
    BY <1>7, <2>1, <2>2, <2>3, <2>5, TableAdded
  <2>7. pickups \in Seq(AddressRow)
    BY <1>7 DEF addressTable
  <2>8. /\ DOMAIN new = DOMAIN pickups \cup {Len(pickups) + 1} /\ new[Len(pickups) + 1] = row
        /\ \A a \in DOMAIN pickups : new[a] = pickups[a]
    BY <2>1, <2>2, <2>5, <2>7, Added
  <2>9. \A a \in DOMAIN new : belongs(new[a])'
    BY <1>9, <2>4, <2>8
  <2>10. AddressesOK'
    BY <2>5, <2>6, <2>9 DEF AddressesOK, belongs, addressTable
  <2>11. addressesGrow(new, address)
    BY <1>7, <2>8 DEF addressesGrow
  <2> QED
    BY <1>4, <1>6, <2>5, <2>10, <2>11, AddressWrite
<1> QED
  BY <1>10, <1>11

-----------------------------------------------------------------------------
(* Writing merchants and people.                                           *)

LEMMA MerchantWrite ==
    ASSUME IInv, NEW r \in Request, End(r), UNCHANGED bookVars,
           MerchantsOK', PeopleOK', MerchantsGrow, OwnersStay, OwnersRemain'
    PROVE  IInv'
<1>1. DOMAIN merchant \subseteq DOMAIN merchant'
  BY DEF MerchantsGrow
<1>2. StoresOK' /\ CustomersOK' /\ AddressesOK'
  BY <1>1 DEF bookVars, IInv, RowsOK, StoresOK, CustomersOK, AddressesOK, addressTable, belongs
<1>3. Grow
  BY DEF bookVars, Grow, StoresGrow, CustomersGrow, addressesGrow, kept
<1> QED
  BY <1>2, <1>3, WriteKeeps DEF RowsOK

LEMMA MemberReplaced ==
    ASSUME NEW old \in [MerchantId -> [User -> MemberRow]],
           NEW m \in MerchantId, NEW u \in User, NEW row \in MemberRow,
           NEW new, new = [old EXCEPT ![m][u] = row]
    PROVE  /\ new \in [MerchantId -> [User -> MemberRow]] /\ new[m][u] = row
           /\ \A n \in MerchantId, v \in User : n # m \/ v # u => new[n][v] = old[n][v]
OBVIOUS

\* Accounts are added, never deleted.
AccountsStay ==
    /\ account' \in [User -> Account]
    /\ \A u \in User : account[u].role # "NONE" => account'[u].role # "NONE"

LEMMA FoundKeeps ==
    ASSUME IInv, NEW r \in Request, NEW status \in MerchantStatus, Found(r, status),
           serving[r].by \in User, AccountsStay, account'[serving[r].by].role # "NONE"
    PROVE  /\ MerchantsOK' /\ PeopleOK' /\ MerchantsGrow /\ OwnersStay /\ OwnersRemain'
           /\ Len(merchant') \in DOMAIN merchant' /\ Len(merchant') \in MerchantId
<1>1. PICK u : u = serving[r].by
  OBVIOUS
<1>2. PICK m : m = Len(merchant) + 1
  OBVIOUS
<1>3. /\ m <= MaxMerchants /\ demoted' = demoted /\ u \in User
      /\ member' = [member EXCEPT ![m][u] = newMember("OWNER")]
  BY <1>1, <1>2 DEF Found
<1>4. PICK row : \E n \in Name :
         /\ row = [name |-> n, status |-> status, version |-> 1]
         /\ merchant' = Append(merchant, row)
  BY DEF Found
<1>5. PICK new : new = merchant'
  OBVIOUS
<1>6. PICK old : old = merchant
  OBVIOUS
<1>7. old \in Seq(MerchantRow) /\ Len(old) \in Nat /\ DOMAIN old = 1 .. Len(old)
  BY <1>6 DEF IInv, RowsOK, MerchantsOK
<1>8. row \in MerchantRow
  BY <1>4 DEF MerchantRow
<1>9. /\ new \in Seq(MerchantRow) /\ Len(new) = m /\ DOMAIN new = DOMAIN old \cup {m}
      /\ m \notin DOMAIN old /\ \A i \in DOMAIN old : new[i] = old[i]
  BY <1>2, <1>4, <1>5, <1>6, <1>7, <1>8, Added
<1>10. m \in MerchantId
  BY <1>2, <1>3, <1>6, <1>7, BoundAssumption DEF MerchantId
<1>11. MerchantsOK'
  BY <1>5, <1>9, <1>10 DEF MerchantsOK, MerchantRow, MerchantId
<1>12. newMember("OWNER") \in MemberRow
  BY DEF newMember, MemberRow, merchantRoles, managers
<1>13. /\ member' \in [MerchantId -> [User -> MemberRow]]
       /\ member'[m][u] = newMember("OWNER")
       /\ \A k \in MerchantId, v \in User : k # m \/ v # u => member'[k][v] = member[k][v]
  <2>1. member \in [MerchantId -> [User -> MemberRow]]
    BY DEF IInv, RowsOK, PeopleOK
  <2> QED
    BY <1>3, <1>10, <1>12, <2>1, MemberReplaced
<1>14. \A v \in User : member[m][v] = NoMember
  BY <1>6, <1>9, <1>10 DEF IInv, RowsOK, PeopleOK
<1>15. DOMAIN old \subseteq MerchantId
  BY <1>6, Typed DEF IInv, RowsTyped
<1>16. PeopleOK'
  <2>1. ASSUME NEW k \in MerchantId, NEW v \in User
        PROVE  \/ member'[k][v] = NoMember
               \/ /\ k \in DOMAIN new /\ account'[v].role # "NONE"
                  /\ member'[k][v].role # "NONE" /\ member'[k][v].version > 0
    <3>1. CASE k = m /\ v = u
      BY <1>1, <1>9, <1>13, <3>1 DEF newMember
    <3>2. CASE k # m \/ v # u
      BY <1>6, <1>9, <1>13, <3>2 DEF IInv, RowsOK, PeopleOK, AccountsStay
    <3> QED
      BY <3>1, <3>2
  <2>2. demoted' \subseteq DOMAIN new
    BY <1>3, <1>6, <1>9 DEF IInv, RowsOK, PeopleOK
  <2> QED
    BY <1>5, <1>13, <2>1, <2>2 DEF PeopleOK, AccountsStay
<1>17. MerchantsGrow
  <2>1. \A i \in DOMAIN old : i \in DOMAIN new /\ kept(new[i], old[i])
    BY <1>9 DEF kept
  <2>2. \A i \in DOMAIN old, v \in User : kept(member'[i][v], member[i][v])
    BY <1>9, <1>13, <1>15 DEF kept
  <2> QED
    BY <1>5, <1>6, <2>1, <2>2 DEF MerchantsGrow
<1>18. \A i \in DOMAIN old : owners(i)' = owners(i)
  BY <1>9, <1>13, <1>15 DEF owners
<1>19. u \in owners(m)'
  BY <1>3, <1>13 DEF owners, newMember
<1>20. OwnersStay
  BY <1>3, <1>6, <1>18 DEF OwnersStay
<1>21. OwnersRemain'
  <2>1. ASSUME NEW i \in DOMAIN new, owners(i)' = {} PROVE i \in demoted'
    BY <1>3, <1>6, <1>9, <1>18, <1>19, <2>1 DEF IInv, OwnersRemain
  <2> QED
    BY <1>5, <2>1 DEF OwnersRemain
<1> QED
  BY <1>5, <1>9, <1>10, <1>11, <1>16, <1>17, <1>20, <1>21

LEMMA CreateKeeps ==
    ASSUME IInv, NEW r \in Request, Create(r), UNCHANGED bookVars PROVE IInv'
<1>1. PICK q : q = serving[r]
  OBVIOUS
<1>2. /\ q.step = "allowed" /\ q.op = "create" /\ Found(r, "ACTIVE")
      /\ account' = [account EXCEPT ![q.by].role = "OWNER"]
  BY <1>1 DEF Create, Is
<1>3. q.by \in User
  BY <1>1, <1>2, Under DEF fitsPeople
<1>4. AccountsStay /\ account'[q.by].role = "OWNER"
  BY <1>2, <1>3 DEF AccountsStay, IInv, RowsOK, PeopleOK, Account, merchantRoles, managers
<1>5. /\ MerchantsOK' /\ PeopleOK' /\ MerchantsGrow /\ OwnersStay /\ OwnersRemain'
      /\ End(r)
  BY <1>1, <1>2, <1>3, <1>4, FoundKeeps DEF Found, MerchantStatus
<1> QED
  BY <1>5, MerchantWrite

LEMMA RegisterKeeps ==
    ASSUME IInv, NEW r \in Request, Register(r) PROVE IInv'
<1>1. PICK q : q = serving[r]
  OBVIOUS
<1>2. /\ q.step = "allowed" /\ q.op = "register" /\ Found(r, "PENDING")
      /\ account' = [account EXCEPT ![q.by] = [role |-> "OWNER", status |-> "PENDING"]]
      /\ UNCHANGED <<customer, address>>
  BY <1>1 DEF Register, RegisterMerchantPilot, Is
<1>3. q.by \in User
  BY <1>1, <1>2, Under DEF fitsPeople
<1>4. AccountsStay /\ account'[q.by].role = "OWNER"
  BY <1>2, <1>3 DEF AccountsStay, IInv, RowsOK, PeopleOK, Account, merchantRoles, managers
<1>5. /\ MerchantsOK' /\ PeopleOK' /\ MerchantsGrow /\ OwnersStay /\ OwnersRemain'
      /\ Len(merchant') \in DOMAIN merchant' /\ Len(merchant') \in MerchantId
      /\ End(r)
  BY <1>1, <1>2, <1>3, <1>4, FoundKeeps DEF Found, MerchantStatus
<1>6. PICK row : \E p \in Point :
         row = newStore(Len(merchant'), p, TRUE) /\ store' = Append(store, row)
  BY DEF Register
<1>7. row \in StoreRow /\ row.merchant = Len(merchant')
  BY <1>5, <1>6 DEF newStore, StoreRow
<1>8. StoresOK' /\ StoresGrow
  BY <1>5, <1>6, <1>7, StoreAdded DEF MerchantsGrow, IInv, RowsOK
<1>9. CustomersOK'
  BY <1>2, <1>5 DEF MerchantsGrow, IInv, RowsOK, CustomersOK
<1>10. AddressesOK'
  BY <1>2, <1>8 DEF IInv, RowsOK, AddressesOK, addressTable, belongs, StoresGrow
<1>11. Grow
  BY <1>2, <1>5, <1>8 DEF Grow, CustomersGrow, addressesGrow, kept
<1> QED
  BY <1>5, <1>8, <1>9, <1>10, <1>11, WriteKeeps DEF RowsOK

\* One merchant's row changes, and accounts may.
LEMMA OneMerchantKeeps ==
    ASSUME IInv, NEW r \in Request, End(r), UNCHANGED bookVars, UNCHANGED <<member, demoted>>,
           AccountsStay, NEW i \in DOMAIN merchant, NEW row \in MerchantRow,
           merchant' = [merchant EXCEPT ![i] = row], kept(row, merchant[i])
    PROVE  IInv'
<1>1. PICK new : new = merchant'
  OBVIOUS
<1>2. PICK old : old = merchant
  OBVIOUS
<1>3. old \in Seq(MerchantRow) /\ Len(old) \in MerchantId
  BY <1>2 DEF IInv, RowsOK, MerchantsOK
<1>4. /\ new \in Seq(MerchantRow) /\ DOMAIN new = DOMAIN old /\ Len(new) = Len(old)
      /\ new[i] = row /\ \A k \in DOMAIN old \ {i} : new[k] = old[k]
  BY <1>1, <1>2, <1>3, Replaced
<1>5. MerchantsOK'
  BY <1>1, <1>3, <1>4 DEF MerchantsOK, MerchantRow, MerchantId
<1>6. PeopleOK'
  BY <1>1, <1>2, <1>4 DEF IInv, RowsOK, PeopleOK, AccountsStay
<1>7. MerchantsGrow
  BY <1>1, <1>2, <1>4 DEF MerchantsGrow, kept
<1>8. OwnersStay /\ OwnersRemain'
  BY <1>1, <1>2, <1>4 DEF OwnersStay, IInv, OwnersRemain, owners
<1> QED
  BY <1>5, <1>6, <1>7, <1>8, MerchantWrite

LEMMA UpdateCurrentKeeps ==
    ASSUME IInv, NEW r \in Request, UpdateCurrent(r), UNCHANGED bookVars PROVE IInv'
<1>1. PICK q : q = serving[r]
  OBVIOUS
<1>2. /\ q.step = "allowed" /\ q.op = "updateCurrent" /\ End(r)
      /\ UNCHANGED <<account, member, demoted>>
  BY <1>1 DEF UpdateCurrent, Is
<1>3. q.at \in DOMAIN merchant /\ q.name \in Name
  BY <1>1, <1>2, Under DEF fitsPeople
<1>4. PICK old : old = merchant[q.at]
  OBVIOUS
<1>5. old \in MerchantRow
  BY <1>3, <1>4, Typed DEF IInv, RowsTyped
<1>6. PICK new : new = [old EXCEPT !.name = q.name, !.version = old.version + 1]
  OBVIOUS
<1>7. merchant' = [merchant EXCEPT ![q.at] = new]
  BY <1>1, <1>3, <1>4, <1>6 DEF UpdateCurrent, IInv, RowsOK, MerchantsOK
<1>8. new \in MerchantRow /\ kept(new, old)
  <2>1. old.version + 1 \in Nat \ {0} /\ old.version + 1 > old.version
    BY <1>5 DEF MerchantRow
  <2> QED
    BY <1>3, <1>5, <1>6, <2>1 DEF MerchantRow, kept
<1>9. AccountsStay
  BY <1>2 DEF AccountsStay, IInv, RowsOK, PeopleOK
<1> QED
  BY <1>2, <1>3, <1>4, <1>7, <1>8, <1>9, OneMerchantKeeps

LEMMA TransitionMerchantKeeps ==
    ASSUME IInv, NEW r \in Request, TransitionMerchant(r), UNCHANGED bookVars PROVE IInv'
<1>1. PICK q : q = serving[r]
  OBVIOUS
<1>2. PICK to : to = rules[q.action].to
  OBVIOUS
<1>3. /\ q.step = "read" /\ q.op = "transition" /\ End(r) /\ UNCHANGED <<member, demoted>>
      /\ account' = [u \in User |-> IF u \notin q.owners THEN account[u]
                       ELSE [account[u] EXCEPT !.status =
                               IF to = "CHANGES_REQUESTED" THEN "PENDING" ELSE to]]
  BY <1>1, <1>2 DEF TransitionMerchant, Is
<1>4. q.at \in DOMAIN merchant /\ q.action \in DOMAIN rules
  BY <1>1, <1>3, Under DEF fitsPeople
<1>5. to \in {"ACTIVE", "BLOCKED", "CHANGES_REQUESTED", "SUSPENDED"}
  BY <1>2, <1>4 DEF rules
<1>6. PICK old : old = merchant[q.at]
  OBVIOUS
<1>7. old \in MerchantRow
  BY <1>4, <1>6, Typed DEF IInv, RowsTyped
<1>8. PICK new : new = [old EXCEPT !.status = to, !.version = old.version + 1]
  OBVIOUS
<1>9. merchant' = [merchant EXCEPT ![q.at] = new]
  BY <1>1, <1>2, <1>4, <1>6, <1>8 DEF TransitionMerchant, IInv, RowsOK, MerchantsOK
<1>10. new \in MerchantRow /\ kept(new, old)
  <2>1. old.version + 1 \in Nat \ {0} /\ old.version + 1 > old.version /\ to \in MerchantStatus
    BY <1>5, <1>7 DEF MerchantRow, MerchantStatus
  <2> QED
    BY <1>7, <1>8, <2>1 DEF MerchantRow, kept
<1>11. AccountsStay
  <2>1. PICK status : status = IF to = "CHANGES_REQUESTED" THEN "PENDING" ELSE to
    OBVIOUS
  <2>2. status \in {"PENDING", "ACTIVE", "SUSPENDED", "BLOCKED"}
    BY <1>5, <2>1
  <2>3. \A u \in User : account[u] \in Account
    BY DEF IInv, RowsOK, PeopleOK
  <2>4. ASSUME NEW u \in User
        PROVE  account'[u] \in Account /\ account'[u].role = account[u].role
    <3>1. account'[u] = account[u] \/ account'[u] = [account[u] EXCEPT !.status = status]
      BY <1>3, <2>1
    <3> QED
      BY <2>2, <2>3, <3>1 DEF Account
  <2>5. account' = [u \in User |-> account'[u]]
    BY <1>3
  <2> QED
    BY <2>4, <2>5 DEF AccountsStay
<1> QED
  BY <1>3, <1>4, <1>6, <1>9, <1>10, <1>11, OneMerchantKeeps

\* One membership changes or is new, and one account's role.
becomes(m, u, row) == member' = [member EXCEPT ![m][u] = row]

LEMMA OneMember ==
    ASSUME IInv, merchant' = merchant, NEW m \in DOMAIN merchant, NEW u \in User,
           NEW row \in MemberRow, becomes(m, u, row),
           row.role # "NONE", row.version > member[m][u].version, AccountsStay,
           account'[u].role # "NONE", demoted' \subseteq DOMAIN merchant
    PROVE  /\ MerchantsOK' /\ PeopleOK' /\ MerchantsGrow
           /\ member'[m][u] = row
           /\ \A n \in DOMAIN merchant, v \in User :
                 n # m \/ v # u => member'[n][v] = member[n][v]
<1>1. /\ DOMAIN merchant \subseteq MerchantId
      /\ \A n \in MerchantId, v \in User : member[n][v].version \in Nat
  BY Typed DEF IInv, RowsTyped, MemberRow
<1>2. PeopleOK
  BY DEF IInv, RowsOK
<1>3. /\ member' \in [MerchantId -> [User -> MemberRow]] /\ member'[m][u] = row
      /\ \A n \in MerchantId, v \in User : n # m \/ v # u => member'[n][v] = member[n][v]
  BY <1>1, <1>2, MemberReplaced DEF PeopleOK, becomes
<1>4. row.version > 0
  BY <1>1 DEF MemberRow
<1>5. PeopleOK'
  <2>1. ASSUME NEW n \in MerchantId, NEW v \in User
        PROVE  \/ member'[n][v] = NoMember
               \/ /\ n \in DOMAIN merchant /\ account'[v].role # "NONE"
                  /\ member'[n][v].role # "NONE" /\ member'[n][v].version > 0
    <3>1. CASE n = m /\ v = u
      BY <1>3, <1>4, <3>1
    <3>2. CASE n # m \/ v # u
      BY <1>2, <1>3, <3>2 DEF PeopleOK, AccountsStay
    <3> QED
      BY <3>1, <3>2
  <2> QED
    BY <1>3, <2>1 DEF PeopleOK, AccountsStay
<1>6. MerchantsOK'
  BY DEF IInv, RowsOK, MerchantsOK
<1>7. MerchantsGrow
  <2>1. \A n \in DOMAIN merchant, v \in User : kept(member'[n][v], member[n][v])
    BY <1>1, <1>3 DEF kept
  <2> QED
    BY <2>1 DEF MerchantsGrow, kept
<1> QED
  BY <1>1, <1>3, <1>5, <1>6, <1>7

LEMMA AddStaffKeeps ==
    ASSUME IInv, NEW r \in Request, AddStaff(r), UNCHANGED bookVars PROVE IInv'
<1>1. PICK q : q = serving[r]
  OBVIOUS
<1>2. PICK row : row = [role |-> q.role, active |-> TRUE,
                        version |-> member[q.at][q.on].version + 1]
  OBVIOUS
<1>3. /\ q.step = "read" /\ q.op = "addStaff" /\ End(r) /\ UNCHANGED merchant
      /\ account' = [account EXCEPT ![q.on].role = q.role]
      /\ member' = [member EXCEPT ![q.at][q.on] = row]
      /\ demoted' = IF q.on \in owners(q.at) /\ q.role # "OWNER"
                    THEN demoted \cup {q.at} ELSE demoted
  BY <1>1, <1>2 DEF AddStaff, Is
<1>4. q.at \in DOMAIN merchant /\ q.on \in User /\ q.role \in merchantRoles
  BY <1>1, <1>3, Under DEF fitsPeople
<1>5. q.at \in MerchantId /\ member[q.at][q.on].version \in Nat
  BY <1>4, Typed DEF IInv, RowsTyped, MemberRow
<1>6. /\ row \in MemberRow /\ row.version > member[q.at][q.on].version
      /\ row.role = q.role /\ row.active /\ row.role # "NONE"
  BY <1>2, <1>4, <1>5 DEF MemberRow, merchantRoles, managers
<1>7. AccountsStay /\ account'[q.on].role # "NONE"
  BY <1>3, <1>4 DEF AccountsStay, IInv, RowsOK, PeopleOK, Account, merchantRoles, managers
<1>8. demoted' \subseteq DOMAIN merchant
  BY <1>3, <1>4 DEF IInv, RowsOK, PeopleOK
<1>9. /\ MerchantsOK' /\ PeopleOK' /\ MerchantsGrow
      /\ member'[q.at][q.on] = row
      /\ \A n \in DOMAIN merchant, v \in User :
            n # q.at \/ v # q.on => member'[n][v] = member[n][v]
  <2>1. merchant' = merchant /\ becomes(q.at, q.on, row)
    BY <1>3 DEF becomes
  <2> QED
    BY <1>4, <1>6, <1>7, <1>8, <2>1, OneMember
<1>10. OwnersStay
  <2>1. ASSUME NEW m \in DOMAIN merchant, m \notin demoted', NEW u \in owners(m)
        PROVE  u \in owners(m)'
    <3>1. CASE m = q.at /\ u = q.on
      <4>1. q.role = "OWNER"
        BY <1>3, <2>1, <3>1
      <4> QED
        BY <1>4, <1>6, <1>9, <3>1, <4>1 DEF owners
    <3>2. CASE m # q.at \/ u # q.on
      BY <1>9, <2>1, <3>2 DEF owners
    <3> QED
      BY <3>1, <3>2
  <2> QED
    BY <1>3, <2>1 DEF OwnersStay
<1>11. OwnersRemain'
  <2>1. ASSUME NEW m \in DOMAIN merchant, owners(m)' = {} PROVE m \in demoted'
    BY <1>10, <2>1 DEF OwnersStay, IInv, OwnersRemain
  <2> QED
    BY <1>3, <2>1 DEF OwnersRemain
<1> QED
  BY <1>3, <1>9, <1>10, <1>11, MerchantWrite

\* What an update of a membership leaves: the owner stays one, or is counted.
LEMMA StaffGiven ==
    ASSUME NEW old \in MemberRow, old.role # "NONE", NEW give \in Change, NEW new,
           new = [role |-> given(give.role, old.role),
                  active |-> givenFlag(give.active, old.active),
                  version |-> old.version + 1]
    PROVE  /\ new \in MemberRow /\ new.role # "NONE" /\ new.version > old.version
           /\ old.role = "OWNER" /\ old.active /\ ~counts(old, give) =>
                 new.role = "OWNER" /\ new.active
<1>1. old.role \in merchantRoles /\ old.active \in BOOLEAN /\ old.version \in Nat
  BY DEF MemberRow
<1>2. give.role \in merchantRoles \cup {Same} /\ give.active \in {"yes", "no", Same}
  BY DEF Change
<1>3. given(give.role, old.role) \in merchantRoles /\ "NONE" \notin merchantRoles
  BY <1>1, <1>2 DEF given, merchantRoles, managers
<1>4. givenFlag(give.active, old.active) \in BOOLEAN
  BY <1>1, Given
<1>5. new \in MemberRow /\ new.role # "NONE" /\ new.version > old.version
  BY <1>1, <1>3, <1>4 DEF MemberRow
<1>6. ASSUME old.role = "OWNER", old.active, ~counts(old, give)
      PROVE  new.role = "OWNER" /\ new.active
  <2>1. give.role \in {Same, "OWNER"} /\ give.active \in {"yes", Same}
    BY <1>2, <1>6 DEF counts
  <2> QED
    BY <1>6, <2>1 DEF given, givenFlag
<1> QED
  BY <1>5, <1>6

\* Whom an update takes away leaves another owner, and those who would take
\* that one away have failed.
LEMMA UpdateStaffKeeps ==
    ASSUME IInv, NEW r \in Request, UpdateStaff(r), UNCHANGED bookVars PROVE IInv'
<1>1. PICK q : q = serving[r]
  OBVIOUS
<1>2. PICK old : old = member[q.at][q.on]
  OBVIOUS
<1>3. PICK new : new = [role |-> given(q.give.role, old.role),
                        active |-> givenFlag(q.give.active, old.active),
                        version |-> old.version + 1]
  OBVIOUS
<1>4. /\ q.step = "read" /\ q.op = "updateStaff" /\ old = q.row
      /\ UNCHANGED <<merchant, demoted>>
      /\ account' = [account EXCEPT ![q.on].role = given(q.give.role, @)]
      /\ serving' = [p \in Request |-> IF p = r \/ excluded(p, r) THEN Ended ELSE serving[p]]
  BY <1>1, <1>2 DEF UpdateStaff, Is
<1>5. /\ q.at \in DOMAIN merchant /\ q.on \in User /\ q.give \in Change
      /\ q.seen.version > 0 /\ q.row = q.seen
  BY <1>1, <1>4, Under DEF fitsPeople
<1>6. q.at \in MerchantId /\ old \in MemberRow
  BY <1>2, <1>5, Typed DEF IInv, RowsTyped
<1>7. old.role # "NONE" /\ account[q.on].role # "NONE"
  <2>1. old # NoMember
    BY <1>4, <1>5 DEF NoMember
  <2> QED
    BY <1>2, <1>5, <1>6, <2>1 DEF IInv, RowsOK, PeopleOK
<1>8. member' = [member EXCEPT ![q.at][q.on] = new]
  BY <1>1, <1>2, <1>3, <1>5, <1>6 DEF UpdateStaff, IInv, RowsOK, PeopleOK
<1>9. /\ new \in MemberRow /\ new.role # "NONE" /\ new.version > old.version
      /\ old.role = "OWNER" /\ old.active /\ ~counts(old, q.give) =>
            new.role = "OWNER" /\ new.active
  BY <1>3, <1>5, <1>6, <1>7, StaffGiven
<1>10. AccountsStay /\ account'[q.on].role # "NONE"
  <2>1. PICK role : role = given(q.give.role, account[q.on].role)
    OBVIOUS
  <2>2. /\ account \in [User -> Account]
        /\ account[q.on].role \in merchantRoles \cup {"NONE", "OTHER"}
    BY <1>5 DEF IInv, RowsOK, PeopleOK, Account
  <2>3. role \in merchantRoles \cup {"NONE", "OTHER"} /\ role # "NONE"
    BY <1>5, <1>7, <2>1, <2>2 DEF Change, given, merchantRoles, managers
  <2>4. account' = [account EXCEPT ![q.on].role = role]
    BY <1>4, <1>5, <2>1, <2>2
  <2> QED
    BY <1>5, <2>2, <2>3, <2>4 DEF AccountsStay, Account
<1>11. /\ MerchantsOK' /\ PeopleOK' /\ MerchantsGrow
       /\ member'[q.at][q.on] = new
       /\ \A n \in DOMAIN merchant, v \in User :
             n # q.at \/ v # q.on => member'[n][v] = member[n][v]
  <2>1. demoted' \subseteq DOMAIN merchant /\ merchant' = merchant
    BY <1>4 DEF IInv, RowsOK, PeopleOK
  <2>2. becomes(q.at, q.on, new)
    BY <1>8 DEF becomes
  <2> QED
    BY <1>2, <1>5, <1>9, <1>10, <2>1, <2>2, OneMember
<1>12. RowsOK' /\ Grow
  <2>1. StoresOK' /\ CustomersOK' /\ AddressesOK'
    BY <1>4 DEF bookVars, IInv, RowsOK, StoresOK, CustomersOK, AddressesOK, addressTable,
       belongs
  <2> QED
    BY <1>11, <2>1 DEF RowsOK, bookVars, Grow, StoresGrow, CustomersGrow, addressesGrow, kept
<1>13. \A m \in DOMAIN merchant : owners(m) \ {q.on} \subseteq owners(m)'
  BY <1>11 DEF owners
<1>14. \A m \in DOMAIN merchant : m # q.at => owners(m) \subseteq owners(m)'
  BY <1>11 DEF owners
<1>15. ~counts(old, q.give) => \A m \in DOMAIN merchant : owners(m) \subseteq owners(m)'
  <2>1. ASSUME ~counts(old, q.give), q.on \in owners(q.at) PROVE q.on \in owners(q.at)'
    BY <1>2, <1>5, <1>9, <1>11, <2>1 DEF owners
  <2> QED
    BY <1>5, <1>13, <1>14, <2>1
<1>16. serving'[r] = Ended /\ \A p \in Request \ {r} : serving'[p] \in {serving[p], Ended}
  BY <1>4
<1>17. CASE counts(old, q.give)
  <2>1. q.at \in demoted \/ \E u \in owners(q.at) : u # q.on
    BY <1>1, <1>4, <1>17 DEF IInv, OthersOwn, removes
  <2>2. OwnersRemain'
    <3>1. ASSUME NEW m \in DOMAIN merchant, owners(m)' = {} PROVE m \in demoted
      BY <1>13, <1>14, <2>1, <3>1 DEF IInv, OwnersRemain
    <3> QED
      BY <1>4, <3>1 DEF OwnersRemain
  <2>3. OthersOwn'
    <3>1. ASSUME NEW p \in Request, NEW n, n = serving'[p], removes(n)
          PROVE  n.at \in demoted \/ \E u \in owners(n.at)' : u # n.on
      <4>1. p # r /\ ~excluded(p, r) /\ n = serving[p]
        BY <1>4, <3>1 DEF removes, Ended
      <4>2. n.at # q.at \/ n.on = q.on
        BY <1>1, <1>4, <1>17, <3>1, <4>1 DEF excluded, removes, Is
      <4>3. n.at \in DOMAIN merchant
        BY <3>1, <4>1, Under DEF removes, fitsPeople
      <4>4. n.at \in demoted \/ \E u \in owners(n.at) : u # n.on
        BY <3>1, <4>1 DEF IInv, OthersOwn
      <4> QED
        BY <1>13, <1>14, <4>2, <4>3, <4>4
    <3> QED
      BY <1>4, <3>1 DEF OthersOwn, removes, counts, owners
  <2> QED
    BY <1>4, <1>12, <1>16, <2>2, <2>3, Frame DEF fits
<1>18. CASE ~counts(old, q.give)
  <2>1. OwnersStay /\ OwnersRemain'
    BY <1>4, <1>15, <1>18 DEF OwnersStay, OwnersRemain, IInv
  <2>2. OthersOwn'
    <3>1. ~removes(Ended)
      BY DEF removes, Ended
    <3> QED
      BY <1>16, <2>1, <3>1, OthersStill
  <2> QED
    BY <1>4, <1>12, <1>16, <2>1, <2>2, Frame DEF fits
<1> QED
  BY <1>17, <1>18

-----------------------------------------------------------------------------
(* The invariant.                                                          *)

LEMMA InitInv == BookInit => IInv
<1> SUFFICES ASSUME BookInit PROVE IInv
  OBVIOUS
<1>1. PICK row : \E n \in Name, status \in {"PENDING", "ACTIVE"} :
         row = [name |-> n, status |-> status, version |-> 1] /\ merchant = <<row>>
  BY DEF BookInit, Init
<1>2. PICK role \in [User -> merchantRoles \cup {"NONE", "OTHER"}] :
         /\ role[Founder] = "OWNER"
         /\ account = [u \in User |-> [role |-> role[u], status |-> "PENDING"]]
         /\ member = [m \in MerchantId |-> [u \in User |->
                        IF m = 1 /\ role[u] \in merchantRoles THEN newMember(role[u])
                        ELSE NoMember]]
  BY DEF BookInit, Init
<1>3. PICK first : \E p \in Point : first = newStore(1, p, TRUE) /\ store = <<first>>
  BY DEF BookInit
<1>4. /\ serving = [r \in Request |-> Idle] /\ demoted = {}
      /\ customer = <<>> /\ address = <<>>
  BY DEF BookInit, Init
<1>5. 1 \in MerchantId
  BY BoundAssumption DEF MerchantId
<1>6. row \in MerchantRow
  BY <1>1 DEF MerchantRow, MerchantStatus
<1>7. merchant \in Seq(MerchantRow) /\ Len(merchant) = 1 /\ DOMAIN merchant = {1}
  BY <1>1, <1>6
<1>8. MerchantsOK
  BY <1>5, <1>7 DEF MerchantsOK
<1>9. "NONE" \notin merchantRoles /\ "OWNER" \in merchantRoles
  BY DEF merchantRoles, managers
<1>10. PeopleOK
  <2>1. account \in [User -> Account]
    BY <1>2 DEF Account
  <2>2. ASSUME NEW x \in merchantRoles
        PROVE  /\ newMember(x) \in MemberRow /\ newMember(x).role = x
               /\ newMember(x).version > 0
    BY <2>2 DEF newMember, MemberRow
  <2>3. NoMember \in MemberRow
    BY DEF NoMember, MemberRow
  <2>4. member \in [MerchantId -> [User -> MemberRow]]
    BY <1>2, <2>2, <2>3
  <2>5. ASSUME NEW m \in MerchantId, NEW u \in User
        PROVE  \/ member[m][u] = NoMember
               \/ /\ m = 1 /\ role[u] \in merchantRoles
                  /\ member[m][u] = newMember(role[u])
    BY <1>2
  <2>6. \A u \in User : account[u].role = role[u]
    BY <1>2
  <2> QED
    BY <1>4, <1>7, <1>9, <2>1, <2>2, <2>4, <2>5, <2>6 DEF PeopleOK
<1>11. StoresOK
  <2>1. first \in StoreRow /\ first.merchant = 1
    BY <1>3, <1>5 DEF newStore, StoreRow
  <2>2. store = <<first>>
    BY <1>3
  <2>3. store \in Seq(StoreRow) /\ DOMAIN store = {1} /\ store[1] = first
    BY <2>1, <2>2
  <2> QED
    BY <1>7, <2>1, <2>3 DEF StoresOK
<1>12. CustomersOK /\ AddressesOK
  BY <1>4 DEF CustomersOK, AddressesOK, addressTable
<1>13. ServingOK /\ OthersOwn
  BY <1>4 DEF ServingOK, fits, OthersOwn, removes, Idle
<1>14. OwnersRemain
  <2>1. member[1][Founder] = newMember("OWNER")
    BY <1>2, <1>5, <1>9, FounderAssumption
  <2>2. Founder \in owners(1)
    BY <2>1, FounderAssumption DEF owners, newMember
  <2> QED
    BY <1>7, <2>2 DEF OwnersRemain
<1> QED
  BY <1>8, <1>10, <1>11, <1>12, <1>13, <1>14 DEF IInv, RowsOK

LEMMA NextInv == IInv /\ [Next]_vars => IInv'
<1> SUFFICES ASSUME IInv, [Next]_vars PROVE IInv'
  OBVIOUS
<1>1. CASE UNCHANGED vars
  BY <1>1 DEF vars, IInv, RowsOK, MerchantsOK, PeopleOK, StoresOK, CustomersOK, AddressesOK,
     addressTable, belongs, ServingOK, fits, fitsPeople, fitsBook, fitsForm, fitsRead,
     ownCustomer, asSeen, OthersOwn, removes, counts, owners, OwnersRemain
<1>2. ASSUME NEW r \in Request, AdmitMerchants(r) \/ AdmitBook(r),
             UNCHANGED <<merchantVars, bookVars>>
      PROVE  IInv'
  BY <1>2, AdmitMerchantsKeeps, AdmitBookKeeps DEF merchantVars, bookVars, rows
<1>3. ASSUME NEW r \in Request, ServeMerchants(r), UNCHANGED bookVars PROVE IInv'
  <2>1. ASSUME Ends(r) PROVE IInv'
    BY <1>3, <2>1, EndsKeeps DEF Ends, merchantVars, bookVars, rows
  <2> QED
    BY <1>3, <2>1, CreateKeeps, UpdateCurrentKeeps, ReadOwnersKeeps, TransitionMerchantKeeps,
       ReadInvitedKeeps, AddStaffKeeps, ReadStaffKeeps, UpdateStaffKeeps DEF ServeMerchants
<1>4. ASSUME NEW r \in Request, UNCHANGED merchantVars,
             \/ CreateStore(r) \/ UpdateStore(r) \/ CreateCustomer(r) \/ UpdateCustomer(r)
             \/ SetArchived(r) \/ CreateAddress(r) \/ UpdateAddress(r) \/ ArchiveAddress(r)
             \/ ReadBook(r) \/ CreateQuote(r)
      PROVE  IInv'
  BY <1>4, CreateStoreKeeps, UpdateStoreKeeps, CreateCustomerKeeps, UpdateCustomerKeeps,
     SetArchivedKeeps, CreateAddressKeeps, UpdateAddressKeeps, ArchiveAddressKeeps,
     ReadBookKeeps, CreateQuoteKeeps
<1> QED
  BY <1>1, <1>2, <1>3, <1>4, RegisterKeeps DEF Next

LEMMA Invariance == Spec => []IInv
BY InitInv, NextInv, PTL DEF Spec

\* The tables hold merchants and people, stores, customers and addresses, and
\* nothing that is not somebody's (Prisma's schema, and what registration,
\* staff, customers and quotes insert).
THEOREM TypeCorrect == Spec => []TypeOK
<1>1. IInv => TypeOK
  <2> SUFFICES ASSUME IInv PROVE TypeOK
    OBVIOUS
  <2>1. RowsTyped
    BY Typed DEF IInv
  <2>2. MerchantsTypeOK
    <3>1. \A m \in DOMAIN merchant :
             /\ merchant[m].name \in Name /\ merchant[m].status \in MerchantStatus
             /\ merchant[m].version \in Nat \ {0}
      BY <2>1 DEF RowsTyped, MerchantRow
    <3>2. \A m \in MerchantId, u \in User :
             member[m][u].role \in merchantRoles \cup {"NONE"}
      BY <2>1 DEF RowsTyped, MemberRow
    <3> QED
      BY <3>1, <3>2 DEF MerchantsTypeOK, IInv, RowsOK, MerchantsOK, PeopleOK
  <2>3. \A s \in DOMAIN store : store[s].merchant \in DOMAIN merchant
                                   /\ store[s].point \in Point
    BY <2>1 DEF RowsTyped, StoreRow, IInv, RowsOK, StoresOK
  <2>4. \A c \in DOMAIN customer : customer[c].merchant \in DOMAIN merchant
                                      /\ customer[c].phone \in Phone
                                      /\ customer[c].name \in Name
    BY <2>1 DEF RowsTyped, CustomerRow, IInv, RowsOK, CustomersOK
  <2>5. \A a \in DOMAIN address : address[a].point \in Point
                                     /\ address[a].customer \in {None} \cup DOMAIN customer
                                     /\ address[a].store \in {None} \cup DOMAIN store
    BY <2>1 DEF RowsTyped, AddressRow, IInv, RowsOK, AddressesOK, belongs
  <2> QED
    BY <2>2, <2>3, <2>4, <2>5 DEF TypeOK
<1> QED
  BY <1>1, Invariance, PTL

\* Every merchant keeps an active owner, however many updates deactivate and
\* demote owners at once (updateStaff counts them in a serializable
\* transaction); addStaff alone can take the last one, by inviting it again.
THEOREM OwnersRemainHolds == Spec => []OwnersRemain
<1>1. IInv => OwnersRemain
  BY DEF IInv
<1> QED
  BY <1>1, Invariance, PTL

\* All members of a set are the same: it has at most one.
LEMMA AtMostOne ==
    ASSUME NEW S, \A x, y \in S : x = y
    PROVE  Cardinality(S) <= 1
<1>1. CASE S = {}
  BY <1>1, FS_EmptySet
<1>2. CASE S # {}
  <2>1. PICK x : S = {x}
    BY <1>2
  <2> QED
    BY <2>1, FS_Singleton
<1> QED
  BY <1>1, <1>2

\* Whatever customers, their editors and quotes insert and change at once, a
\* merchant has one customer for a phone number, a store one copy of its
\* address in use, and no address mixes two merchants (customers.service.ts
\* and the serializable transaction of orders.service.ts).
THEOREM BookIsConsistentHolds == Spec => []BookIsConsistent
<1>1. IInv => BookIsConsistent
  <2> SUFFICES ASSUME IInv PROVE BookIsConsistent
    OBVIOUS
  <2>1. ASSUME NEW m, NEW phone PROVE Cardinality(withPhone(m, phone)) <= 1
    <3>1. \A c, d \in withPhone(m, phone) : c = d
      BY DEF withPhone, rowsOf, IInv, RowsOK, CustomersOK
    <3> QED
      BY <3>1, AtMostOne
  <2>2. ASSUME NEW s \in DOMAIN store PROVE Cardinality(copies(s)) <= 1
    <3>1. s # None
      BY DEF None, IInv, RowsOK, StoresOK
    <3>2. \A a, b \in copies(s) : a = b
      BY <3>1 DEF copies, IInv, RowsOK, AddressesOK, addressTable
    <3> QED
      BY <3>2, AtMostOne
  <2>3. None \notin DOMAIN store /\ None \notin DOMAIN customer
    BY DEF None, IInv, RowsOK, StoresOK, CustomersOK
  <2>4. \A a \in DOMAIN address :
           \/ /\ address[a].store = None /\ address[a].customer # None
              /\ address[a].merchant = customer[address[a].customer].merchant
           \/ /\ address[a].customer = None /\ address[a].store # None
              /\ address[a].merchant = store[address[a].store].merchant
    BY <2>3 DEF IInv, RowsOK, AddressesOK, belongs
  <2> QED
    BY <2>1, <2>2, <2>4 DEF BookIsConsistent
<1> QED
  BY <1>1, Invariance, PTL

-----------------------------------------------------------------------------
(* What an edit changes.                                                   *)

\* A request that is served leaves the others as they are.
LEMMA AloneAdmitted ==
    ASSUME NEW p, AdmitMerchants(p) \/ AdmitBook(p)
    PROVE  \E new : Admit(p, new)
<1>1. ASSUME AdmitMerchants(p) PROVE \E new : Admit(p, new)
  <2>1. AdmitRegistration(p) => \E new : Admit(p, new)
    BY DEF AdmitRegistration
  <2>2. AdmitCreation(p) => \E new : Admit(p, new)
    BY DEF AdmitCreation
  <2>3. AdmitUpdateCurrent(p) => \E new : Admit(p, new)
    BY DEF AdmitUpdateCurrent
  <2>4. AdmitTransition(p) => \E new : Admit(p, new)
    BY DEF AdmitTransition
  <2>5. AdmitAddStaff(p) => \E new : Admit(p, new)
    BY DEF AdmitAddStaff
  <2>6. AdmitUpdateStaff(p) => \E new : Admit(p, new)
    BY DEF AdmitUpdateStaff
  <2> QED
    BY <1>1, <2>1, <2>2, <2>3, <2>4, <2>5, <2>6 DEF AdmitMerchants
<1>2. ASSUME AdmitBook(p) PROVE \E new : Admit(p, new)
  <2>1. AdmitCreateStore(p) => \E new : Admit(p, new)
    BY DEF AdmitCreateStore
  <2>2. AdmitUpdateStore(p) => \E new : Admit(p, new)
    BY DEF AdmitUpdateStore
  <2>3. AdmitCreateCustomer(p) => \E new : Admit(p, new)
    BY DEF AdmitCreateCustomer
  <2>4. AdmitUpdateCustomer(p) => \E new : Admit(p, new)
    BY DEF AdmitUpdateCustomer
  <2>5. AdmitSetArchived(p) => \E new : Admit(p, new)
    BY DEF AdmitSetArchived
  <2>6. AdmitCreateAddress(p) => \E new : Admit(p, new)
    BY DEF AdmitCreateAddress
  <2>7. AdmitChangeAddress(p) => \E new : Admit(p, new)
    BY DEF AdmitChangeAddress
  <2>8. AdmitQuote(p) => \E new : Admit(p, new)
    BY DEF AdmitQuote
  <2> QED
    BY <1>2, <2>1, <2>2, <2>3, <2>4, <2>5, <2>6, <2>7, <2>8 DEF AdmitBook
<1> QED
  BY <1>1, <1>2

moves(p) == \E new : serving' = [serving EXCEPT ![p] = new]

\* So does every step, but for an update of staff that others have not to see.
LEMMA OthersWait ==
    ASSUME Next, NEW r \in Request, serving = [q \in Request |-> serving[q]],
           serving'[r] # serving[r]
    PROVE  \/ UNCHANGED <<merchantVars, bookVars>>
           \/ ServeMerchants(r) /\ UNCHANGED bookVars
           \/ Register(r)
           \/ /\ \/ CreateStore(r) \/ UpdateStore(r) \/ CreateCustomer(r) \/ UpdateCustomer(r)
                 \/ SetArchived(r) \/ CreateAddress(r) \/ UpdateAddress(r)
                 \/ ArchiveAddress(r) \/ ReadBook(r) \/ CreateQuote(r)
              /\ UNCHANGED merchantVars
           \/ /\ \E p \in Request : UpdateStaff(p) /\ excluded(r, p)
              /\ UNCHANGED bookVars
<1>1. PICK p \in Request :
          \/ /\ AdmitMerchants(p) \/ AdmitBook(p)
             /\ UNCHANGED <<merchantVars, bookVars>>
          \/ ServeMerchants(p) /\ UNCHANGED bookVars
          \/ Register(p)
          \/ /\ \/ CreateStore(p) \/ UpdateStore(p) \/ CreateCustomer(p) \/ UpdateCustomer(p)
                \/ SetArchived(p) \/ CreateAddress(p) \/ UpdateAddress(p)
                \/ ArchiveAddress(p) \/ ReadBook(p) \/ CreateQuote(p)
             /\ UNCHANGED merchantVars
  BY DEF Next
<1>2. moves(p) => p = r
  BY DEF moves
<1>3. End(p) => moves(p)
  BY DEF End, moves
<1>4. AdmitMerchants(p) \/ AdmitBook(p) => moves(p)
  BY AloneAdmitted DEF Admit, moves
<1>5. Register(p) => moves(p)
  BY <1>3 DEF Register, RegisterMerchantPilot, Found
<1>6. ServeMerchants(p) => moves(p) \/ UpdateStaff(p)
  <2>1. Create(p) => moves(p)
    BY <1>3 DEF Create, Found
  <2>2. UpdateCurrent(p) \/ TransitionMerchant(p) \/ AddStaff(p) \/ Ends(p) => moves(p)
    BY <1>3 DEF UpdateCurrent, TransitionMerchant, AddStaff, Ends
  <2>3. ReadOwners(p) => moves(p)
    BY DEF ReadOwners, moves
  <2>4. ReadInvited(p) => moves(p)
    BY DEF ReadInvited, moves
  <2>5. ReadStaff(p) => moves(p)
    BY DEF ReadStaff, moves
  <2> QED
    BY <2>1, <2>2, <2>3, <2>4, <2>5 DEF ServeMerchants
<1>7. (\/ CreateStore(p) \/ UpdateStore(p) \/ CreateCustomer(p) \/ UpdateCustomer(p)
       \/ SetArchived(p) \/ CreateAddress(p) \/ UpdateAddress(p)
       \/ ArchiveAddress(p) \/ CreateQuote(p)) => moves(p)
  BY <1>3 DEF CreateStore, UpdateStore, CreateCustomer, UpdateCustomer, SetArchived,
     CreateAddress, UpdateAddress, ArchiveAddress, CreateQuote
<1>8. ReadBook(p) => moves(p)
  BY DEF ReadBook, moves
<1>9. UpdateStaff(p) => p = r \/ excluded(r, p)
  BY DEF UpdateStaff
<1>10. p = r \/ (UpdateStaff(p) /\ excluded(r, p))
  <2>1. CASE AdmitMerchants(p) \/ AdmitBook(p)
    BY <1>2, <1>4, <2>1
  <2>2. CASE ServeMerchants(p)
    BY <1>2, <1>6, <1>9, <2>2
  <2>3. CASE Register(p)
    BY <1>2, <1>5, <2>3
  <2>4. CASE ReadBook(p)
    BY <1>2, <1>8, <2>4
  <2>5. CASE \/ CreateStore(p) \/ UpdateStore(p) \/ CreateCustomer(p) \/ UpdateCustomer(p)
             \/ SetArchived(p) \/ CreateAddress(p) \/ UpdateAddress(p)
             \/ ArchiveAddress(p) \/ CreateQuote(p)
    BY <1>2, <1>7, <2>5
  <2> QED
    BY <1>1, <2>1, <2>2, <2>3, <2>4, <2>5
<1>11. CASE p = r
  BY <1>1, <1>11
<1>12. CASE UpdateStaff(p) /\ excluded(r, p)
  <2>1. ~Is(p, "allowed", "register") /\ ~\E step, op : op # "updateStaff" /\ Is(p, step, op)
    BY <1>12 DEF excluded, Is
  <2>2. ~Register(p)
    BY <2>1 DEF Register, RegisterMerchantPilot
  <2>3. ~CreateStore(p) /\ ~UpdateStore(p) /\ ~CreateCustomer(p) /\ ~UpdateCustomer(p)
    BY <2>1 DEF CreateStore, UpdateStore, CreateCustomer, UpdateCustomer
  <2>4. ~SetArchived(p) /\ ~CreateAddress(p) /\ ~UpdateAddress(p) /\ ~ArchiveAddress(p)
    BY <2>1 DEF SetArchived, CreateAddress, UpdateAddress, ArchiveAddress
  <2>5. ~ReadBook(p)
    BY <2>1 DEF ReadBook
  <2>6. ~CreateQuote(p)
    BY <2>1 DEF CreateQuote
  <2> QED
    BY <1>1, <1>12, <2>2, <2>3, <2>4, <2>5, <2>6
<1> QED
  BY <1>10, <1>11, <1>12

LEMMA SameRow ==
    ASSUME NEW q, UNCHANGED <<merchantVars, bookVars>>
    PROVE  rowOf(q)' = rowOf(q)
BY DEF rowOf, merchantVars, bookVars

\* An edit of a merchant, a membership, a store, a customer or an address
\* changes the row its sender has seen, or none: whoever changes the row gives
\* it another version, which the edit then does not find (the expectedVersion
\* of every update in merchant.service.ts, admin.service.ts and
\* customers.service.ts).
THEOREM EditsSeeTheRowHolds == Spec => EditsSeeTheRow
<1>1. ASSUME IInv, [Next]_vars, NEW r \in Request, editing(r), serving'[r] = Ended,
             NEW q, q = serving[r], rowOf(q)' # rowOf(q)
      PROVE  rowOf(q) = q.seen
  <2>1. q.step \in {"allowed", "read"} /\ q # Ended /\ q # Idle
    BY <1>1 DEF editing, IInv, ServingOK, fits, Idle, Ended
  <2>2. fitsPeople(q) /\ fitsBook(q)
    BY <1>1, <2>1, Under
  <2>3. q.op \in {"updateCurrent", "transition", "updateStaff", "updateStore",
                  "updateCustomer", "updateAddress"}
    BY <1>1 DEF editing
  <2>4. ~UNCHANGED <<merchantVars, bookVars>>
    BY <1>1, SameRow
  <2>5. Next /\ serving'[r] # serving[r] /\ serving = [p \in Request |-> serving[p]]
    BY <1>1, <2>1, <2>4 DEF vars, merchantVars, bookVars, IInv, ServingOK
  <2>6. \A step, op : Is(r, step, op) => q.op = op
    BY <1>1 DEF Is
  <2>7. CASE ServeMerchants(r) /\ UNCHANGED bookVars
    <3>1. ~Create(r) /\ ~ReadInvited(r)
      BY <2>3, <2>6 DEF Create, ReadInvited
    <3>2. ~AddStaff(r)
      BY <2>3, <2>6 DEF AddStaff
    <3>3. ~ReadOwners(r) /\ ~Ends(r)
      BY <2>4, <2>7 DEF ReadOwners, Ends
    <3>4. ~ReadStaff(r)
      BY <2>4, <2>7 DEF ReadStaff
    <3>5. ASSUME UpdateCurrent(r) PROVE rowOf(q) = q.seen
      <4>1. q.op = "updateCurrent" /\ merchant[q.at].version = q.seen.version
        BY <1>1, <2>6, <3>5 DEF UpdateCurrent
      <4> QED
        BY <2>2, <4>1 DEF rowOf, fitsPeople, asSeen
    <3>6. ASSUME TransitionMerchant(r) PROVE rowOf(q) = q.seen
      <4>1. q.op = "transition" /\ merchant[q.at].version = q.seen.version
        BY <1>1, <2>6, <3>6 DEF TransitionMerchant
      <4> QED
        BY <2>2, <4>1 DEF rowOf, fitsPeople, asSeen
    <3>7. ASSUME UpdateStaff(r) PROVE rowOf(q) = q.seen
      <4>1. q.op = "updateStaff" /\ q.step = "read" /\ member[q.at][q.on] = q.row
        BY <1>1, <2>6, <3>7 DEF UpdateStaff, Is
      <4> QED
        BY <2>2, <4>1 DEF rowOf, fitsPeople
    <3> QED
      BY <2>7, <3>1, <3>2, <3>3, <3>4, <3>5, <3>6, <3>7 DEF ServeMerchants
  <2>8. CASE Register(r)
    BY <2>3, <2>6, <2>8 DEF Register, RegisterMerchantPilot
  <2>9. ASSUME UpdateStore(r) PROVE rowOf(q) = q.seen
    <3>1. q.op = "updateStore" /\ store[q.on].version = q.seen.version
      BY <1>1, <2>6, <2>9 DEF UpdateStore
    <3> QED
      BY <2>2, <3>1 DEF rowOf, fitsBook, asSeen
  <2>10. ASSUME UpdateCustomer(r) PROVE rowOf(q) = q.seen
    <3>1. q.op = "updateCustomer" /\ customer[q.on].version = q.seen.version
      BY <1>1, <2>6, <2>10 DEF UpdateCustomer
    <3> QED
      BY <2>2, <3>1 DEF rowOf, fitsBook, asSeen
  <2>11. ASSUME UpdateAddress(r) PROVE rowOf(q) = q.seen
    <3>1. q.op = "updateAddress" /\ address[q.on].version = q.seen.version
      BY <1>1, <2>6, <2>11 DEF UpdateAddress
    <3> QED
      BY <2>2, <3>1 DEF rowOf, fitsBook, asSeen
  <2>12. ~CreateStore(r) /\ ~CreateCustomer(r) /\ ~SetArchived(r) /\ ~CreateAddress(r)
    BY <2>3, <2>6 DEF CreateStore, CreateCustomer, SetArchived, CreateAddress
  <2>13. ~ArchiveAddress(r) /\ ~CreateQuote(r)
    BY <2>3, <2>6 DEF ArchiveAddress, CreateQuote
  <2>14. ~ReadBook(r)
    BY <2>3, <2>6 DEF ReadBook
  <2>15. ASSUME NEW p \in Request, UpdateStaff(p), excluded(r, p), UNCHANGED bookVars
         PROVE  rowOf(q)' = rowOf(q)
    <3>1. PICK o, row : /\ o = serving[p] /\ q.on # o.on /\ q.op = "updateStaff"
                        /\ member' = [member EXCEPT ![o.at][o.on] = row]
      BY <1>1, <2>15 DEF UpdateStaff, excluded, Is
    <3>2. q.at \in MerchantId /\ q.on \in User
      BY <1>1, <2>2, <3>1, Typed DEF fitsPeople, IInv, RowsTyped
    <3>3. member'[q.at][q.on] = member[q.at][q.on]
      BY <1>1, <3>1, <3>2 DEF IInv, RowsOK, PeopleOK
    <3> QED
      BY <3>1, <3>3 DEF rowOf
  <2> QED
    BY <1>1, <2>4, <2>5, <2>7, <2>8, <2>9, <2>10, <2>11, <2>12, <2>13, <2>14, <2>15, OthersWait
<1>2. IInv /\ [Next]_vars =>
         [\A r \in Request : editing(r) /\ serving'[r] = Ended =>
             \A q \in {serving[r]} : rowOf(q)' # rowOf(q) => rowOf(q) = q.seen]_vars
  BY <1>1
<1> QED
  BY <1>2, Invariance, PTL DEF EditsSeeTheRow, Spec
=============================================================================
