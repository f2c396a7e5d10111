------------------------------ MODULE AddressBook ------------------------------
(***************************************************************************)
(* What belongs to a merchant, and the quotes that read and write it:      *)
(* stores (merchant.service.ts), customers and their addresses             *)
(* (customers.service.ts), and the serializable transaction of a quote     *)
(* (orders.service.ts: resolveCustomer, storeWithPoint,                    *)
(* createStoreAddress, resolveDropoff), which renames, restores and adds   *)
(* customers and addresses on its way.  Who may do so is Merchants'        *)
(* subject; whether a pickup lies in a zone is left open, as is the price. *)
(***************************************************************************)
EXTENDS Merchants

CONSTANTS Phone, \* the phone numbers of customers
          Point  \* places on the map

VARIABLES store,    \* Store rows; a row's index is its id
          customer, \* Customer rows
          address   \* Address rows: a customer's, or the copy of a store's

bookVars == <<store, customer, address>>
vars == <<account, merchant, member, serving, demoted, store, customer, address>>

None == 0

newStore(m, p, active) == [merchant |-> m, point |-> p, active |-> active, version |-> 1]
newCustomer(m, phone, n) ==
    [merchant |-> m, phone |-> phone, name |-> n, active |-> TRUE, version |-> 1]
newAddress(m, c, s, p, archived) ==
    [merchant |-> m, customer |-> c, store |-> s, point |-> p, archived |-> archived,
     version |-> 1]

BookInit ==
    /\ Init
    /\ \E p \in Point : store = <<newStore(1, p, TRUE)>>
    /\ customer = <<>>
    /\ address = <<>>

\* merchantContext: only active merchants have customers and quotes.
merchantContext(u) ==
    {m \in memberships(u) : signedIn(u, merchantRoles) /\ merchant[m].status = "ACTIVE"}

rowsOf(rows, m) == {i \in DOMAIN rows : rows[i].merchant = m}
withPhone(m, phone) == {c \in rowsOf(customer, m) : customer[c].phone = phone}
addressesOf(c) == {a \in DOMAIN address : address[a].customer = c}

\* The one copy of a store's address that quotes use.
copies(s) == {a \in DOMAIN address : address[a].store = s /\ ~address[a].archived}

-----------------------------------------------------------------------------
(* Stores.                                                                 *)

\* A registration brings the first store with it.
Register(r) ==
    /\ RegisterMerchantPilot(r)
    /\ \E p \in Point : store' = Append(store, newStore(Len(merchant'), p, TRUE))
    /\ UNCHANGED <<customer, address>>

AdmitCreateStore(r) ==
    \E u \in User : \E m \in actingFor(u, managers) :
       Admit(r, [step |-> "allowed", op |-> "createStore", at |-> m])

CreateStore(r) ==
    /\ Is(r, "allowed", "createStore")
    /\ \E p \in Point, active \in BOOLEAN :
          store' = Append(store, newStore(serving[r].at, p, active))
    /\ End(r)
    /\ UNCHANGED <<customer, address>>

StoreChange == [point: Point, active: {Same}] \cup [point: {Same}, active: {"yes", "no"}]

AdmitUpdateStore(r) ==
    \E u \in User : \E m \in actingFor(u, managers) :
       \E s \in rowsOf(store, m), give \in StoreChange :
          Admit(r, [step |-> "allowed", op |-> "updateStore", on |-> s,
                    seen |-> store[s], give |-> give])

UpdateStore(r) ==
    LET q == serving[r] IN
    /\ Is(r, "allowed", "updateStore")
    /\ store[q.on].version = q.seen.version
    /\ store' = [store EXCEPT ![q.on].point = given(q.give.point, @),
                              ![q.on].active = givenFlag(q.give.active, @),
                              ![q.on].version = @ + 1]
    /\ End(r)
    /\ UNCHANGED <<customer, address>>

-----------------------------------------------------------------------------
(* Customers and their addresses.                                          *)

AdmitCreateCustomer(r) ==
    \E u \in User : \E m \in merchantContext(u), phone \in Phone, n \in Name :
       /\ withPhone(m, phone) = {}
       /\ Admit(r, [step |-> "allowed", op |-> "createCustomer", at |-> m,
                    phone |-> phone, name |-> n])

\* Customer_merchantId_normalizedPhone_key.
CreateCustomer(r) ==
    LET q == serving[r] IN
    /\ Is(r, "allowed", "createCustomer")
    /\ withPhone(q.at, q.phone) = {}
    /\ customer' = Append(customer, newCustomer(q.at, q.phone, q.name))
    /\ End(r)
    /\ UNCHANGED <<store, address>>

CustomerChange == [name: Name, phone: {Same}] \cup [name: {Same}, phone: Phone]

AdmitUpdateCustomer(r) ==
    \E u \in User : \E m \in merchantContext(u) :
       \E c \in rowsOf(customer, m), give \in CustomerChange :
          Admit(r, [step |-> "allowed", op |-> "updateCustomer", on |-> c,
                    seen |-> customer[c], give |-> give])

UpdateCustomer(r) ==
    LET q == serving[r]
        phone == given(q.give.phone, customer[q.on].phone)
    IN
    /\ Is(r, "allowed", "updateCustomer")
    /\ customer[q.on].version = q.seen.version
    /\ withPhone(customer[q.on].merchant, phone) \subseteq {q.on}
    /\ customer' = [customer EXCEPT ![q.on].name = given(q.give.name, @),
                                    ![q.on].phone = phone, ![q.on].version = @ + 1]
    /\ End(r)
    /\ UNCHANGED <<store, address>>

AdmitSetArchived(r) ==
    \E u \in User, archived \in BOOLEAN :
       \E m \in merchantContext(u) \cap actingFor(u, managers) :
          \E c \in rowsOf(customer, m) :
             Admit(r, [step |-> "allowed", op |-> "setArchived", on |-> c,
                       archived |-> archived])

\* Whatever the customer has become meanwhile.
SetArchived(r) ==
    LET q == serving[r] IN
    /\ Is(r, "allowed", "setArchived")
    /\ customer' = [customer EXCEPT ![q.on].active = ~q.archived,
                                    ![q.on].version = @ + 1]
    /\ End(r)
    /\ UNCHANGED <<store, address>>

AdmitCreateAddress(r) ==
    \E u \in User : \E m \in merchantContext(u) : \E c \in rowsOf(customer, m) :
       /\ customer[c].active
       /\ Admit(r, [step |-> "allowed", op |-> "createAddress", at |-> m, on |-> c])

CreateAddress(r) ==
    LET q == serving[r] IN
    /\ Is(r, "allowed", "createAddress")
    /\ \E p \in Point :
          address' = Append(address, newAddress(q.at, q.on, None, p, FALSE))
    /\ End(r)
    /\ UNCHANGED <<store, customer>>

AdmitChangeAddress(r) ==
    \E u \in User, op \in {"updateAddress", "archiveAddress"} :
       \E m \in merchantContext(u) : \E c \in rowsOf(customer, m) :
          \E a \in addressesOf(c) :
             Admit(r, [step |-> "allowed", op |-> op, on |-> a, seen |-> address[a]])

UpdateAddress(r) ==
    LET q == serving[r] IN
    /\ Is(r, "allowed", "updateAddress")
    /\ ~address[q.on].archived /\ address[q.on].version = q.seen.version
    /\ \E p \in Point :
          address' = [address EXCEPT ![q.on].point = p, ![q.on].version = @ + 1]
    /\ End(r)
    /\ UNCHANGED <<store, customer>>

ArchiveAddress(r) ==
    LET a == serving[r].on IN
    /\ Is(r, "allowed", "archiveAddress")
    /\ ~address[a].archived
    /\ address' = [address EXCEPT ![a].archived = TRUE, ![a].version = @ + 1]
    /\ End(r)
    /\ UNCHANGED <<store, customer>>

-----------------------------------------------------------------------------
(* Quotes.                                                                 *)

\* A form names a customer, perhaps with one of the customer's addresses, or a
\* phone number and a name; an address that is not named is entered, and kept
\* or not.
AdmitQuote(r) ==
    \E u \in User : \E m \in merchantContext(u) :
       \E phone \in Phone, n \in Name, save \in BOOLEAN :
          \E s \in rowsOf(store, m), c \in {None} \cup rowsOf(customer, m) :
             \E a \in {None} \cup (IF c = None THEN {} ELSE addressesOf(c)) :
                /\ c # None => customer[c].phone = phone /\ customer[c].name = n
                /\ a # None => save
                /\ Admit(r, [step |-> "allowed", op |-> "quote", at |-> m, store |-> s,
                             customer |-> c, phone |-> phone, name |-> n,
                             address |-> a, save |-> save])

\* Mistake: a customer is renamed, or restored, under the same version.
renamed_Silently(row, n) == [row EXCEPT !.name = n, !.active = TRUE]

\* What resolveCustomer makes of a customer it finds by phone number.
renamed(row, n) ==
    IF row.active /\ row.name = n THEN row
    ELSE [row EXCEPT !.name = n, !.active = TRUE, !.version = @ + 1]

\* The row with this index, or the one to be inserted.
rowAt(rows, i, new) == IF i = None THEN new ELSE rows[i]
anyOf(ids) == IF ids = {} THEN None ELSE CHOOSE i \in ids : TRUE

\* The snapshot of the serializable transaction, and what it will write.
ReadBook(r) ==
    LET q == serving[r]
        c == IF q.customer # None THEN q.customer ELSE anyOf(withPhone(q.at, q.phone))
        row == rowAt(customer, c, newCustomer(q.at, q.phone, q.name))
        copy == anyOf(copies(q.store))
        pickup == rowAt(address, copy,
                        newAddress(q.at, None, q.store, store[q.store].point, FALSE))
    IN
    /\ Is(r, "allowed", "quote")
    /\ q.customer # None => row.active
    /\ store[q.store].active
    /\ serving' = [serving EXCEPT ![r] =
          [step |-> "read", op |-> "quote", at |-> q.at,
           customer |-> c, row |-> row,
           written |-> IF q.customer # None THEN row ELSE renamed(row, q.name),
           copy |-> copy, pickup |-> pickup, point |-> store[q.store].point,
           address |-> q.address, save |-> q.save]]
    /\ UNCHANGED bookVars

\* Mistake: the transaction is not serializable.
mayCommit_Always(q) == TRUE

\* The transaction fails when a row it writes has changed since its snapshot,
\* and when it inserts what another has inserted: a customer with the phone
\* number, or the copy of the store's address.
mayCommit(q) ==
    /\ IF q.customer = None THEN withPhone(q.at, q.row.phone) = {}
       ELSE q.row # q.written => customer[q.customer] = q.row
    /\ IF q.copy = None THEN copies(q.pickup.store) = {}
       ELSE q.pickup.point # q.point => address[q.copy] = q.pickup

\* rows with row at this index, or at the end.
put(rows, i, row) == IF i = None THEN Append(rows, row) ELSE [rows EXCEPT ![i] = row]

CreateQuote(r) ==
    LET q == serving[r]
        c == IF q.customer = None THEN Len(customer) + 1 ELSE q.customer
        pickups == IF q.copy # None /\ q.pickup.point = q.point THEN address
                   ELSE put(address, q.copy, [q.pickup EXCEPT !.point = q.point])
    IN
    /\ Is(r, "read", "quote")
    /\ mayCommit(q)
    /\ customer' = IF q.customer # None /\ q.row = q.written THEN customer
                   ELSE put(customer, q.customer, q.written)
    /\ IF q.address # None THEN address' = pickups
       ELSE \E p \in Point :
               address' = Append(pickups, newAddress(q.at, c, None, p, ~q.save))
    /\ End(r)
    /\ UNCHANGED store

-----------------------------------------------------------------------------
AdmitBook(r) ==
    \/ AdmitCreateStore(r) \/ AdmitUpdateStore(r) \/ AdmitCreateCustomer(r)
    \/ AdmitUpdateCustomer(r) \/ AdmitSetArchived(r) \/ AdmitCreateAddress(r)
    \/ AdmitChangeAddress(r) \/ AdmitQuote(r)

Next ==
    \E r \in Request :
       \/ /\ Waiting(r) /\ (AdmitMerchants(r) \/ AdmitBook(r))
          /\ UNCHANGED <<merchantVars, bookVars>>
       \/ ServeMerchants(r) /\ UNCHANGED bookVars
       \/ Register(r)
       \/ /\ \/ CreateStore(r) \/ UpdateStore(r) \/ CreateCustomer(r)
             \/ UpdateCustomer(r) \/ SetArchived(r) \/ CreateAddress(r)
             \/ UpdateAddress(r) \/ ArchiveAddress(r) \/ ReadBook(r) \/ CreateQuote(r)
          /\ UNCHANGED merchantVars

Spec == BookInit /\ [][Next]_vars

-----------------------------------------------------------------------------
(* Properties.                                                             *)

\* Rows are what the tables can hold.
TypeOK ==
    /\ MerchantsTypeOK
    /\ \A s \in DOMAIN store : store[s].merchant \in DOMAIN merchant
                                  /\ store[s].point \in Point
    /\ \A c \in DOMAIN customer : customer[c].merchant \in DOMAIN merchant
                                     /\ customer[c].phone \in Phone
                                     /\ customer[c].name \in Name
    /\ \A a \in DOMAIN address : address[a].point \in Point
                                    /\ address[a].customer \in {None} \cup DOMAIN customer
                                    /\ address[a].store \in {None} \cup DOMAIN store

\* The book has no doubles and mixes no two merchants' rows, although quotes
\* insert customers and copies that they did not find in an older snapshot: one
\* customer for a merchant and a phone number, one copy of a store's address,
\* and every address is its customer's or store's merchant's.
BookIsConsistent ==
    /\ \A m \in DOMAIN merchant, phone \in Phone : Cardinality(withPhone(m, phone)) <= 1
    /\ \A s \in DOMAIN store : Cardinality(copies(s)) <= 1
    /\ \A a \in DOMAIN address :
          \/ /\ address[a].store = None /\ address[a].customer # None
             /\ address[a].merchant = customer[address[a].customer].merchant
          \/ /\ address[a].customer = None /\ address[a].store # None
             /\ address[a].merchant = store[address[a].store].merchant

\* The requests that carry a version, and the rows they are about.
editing(r) ==
    /\ serving[r].step \notin {"idle", "ended"}
    /\ serving[r].op \in {"updateCurrent", "transition", "updateStaff", "updateStore",
                          "updateCustomer", "updateAddress"}
rowOf(q) ==
    CASE q.op \in {"updateCurrent", "transition"} -> merchant[q.at]
      [] q.op = "updateStaff" -> member[q.at][q.on]
      [] q.op = "updateStore" -> store[q.on]
      [] q.op = "updateCustomer" -> customer[q.on]
      [] q.op = "updateAddress" -> address[q.on]

\* An edit is applied to the row its sender was looking at, and to no other:
\* neither another edit, nor an administrator, an invitation or a quote changes
\* a row that screens show, and leaves its version.
EditsSeeTheRow ==
    [][\A r \in Request : editing(r) /\ serving'[r] = Ended =>
          \A q \in {serving[r]} : rowOf(q)' # rowOf(q) => rowOf(q) = q.seen]_vars
=============================================================================
