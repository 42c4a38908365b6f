------------------------------- MODULE Imports -------------------------------
(***************************************************************************)
(* Importing the files: batches, the products and contacts they bring up   *)
(* to date, the stock they leave behind, and the snapshots of stock that   *)
(* campaigns freeze from a finished batch.                                 *)
(*                                                                         *)
(* An import is a request with three transactions: one claims the file by  *)
(* a PROCESSING batch, one applies it, and one records that it failed.     *)
(* The second works on the objects of its session: a row is read once, and *)
(* at the commit only the columns that then differ from what was read are  *)
(* written, over whatever others have committed since.  A statement that   *)
(* waits for another transaction's row or unique key is decided when that  *)
(* one ends, so the model decides it at the commit.                        *)
(*                                                                         *)
(* A request may fail anywhere in the second transaction, not learn that   *)
(* its commit went through, and die between any two steps.                 *)
(***************************************************************************)
EXTENDS ImportFiles, Ranks

CONSTANTS
    Imports,    \* requests; each makes at most one batch, named after it
    Campaigns,
    Files,
    Content,    \* the columns and rows of each file
    Refs,       \* internal references of products
    Suppliers,  \* external references of contacts
    Names,
    Amounts,
    MaxContacts \* bound: rows of a file of contacts

Values == Names \cup Suppliers \cup Amounts \cup {None}

Product == [ref: Refs, name: Values, prices: [Prices -> Amounts \cup {None}],
            quantity: Amounts \cup {None}, supplier: Suppliers \cup {None}]
Movement == [ref: Refs, description: Values, quantity: Amounts]
Contact == [ref: Suppliers \cup {None}, name: Names]

Parsed == [f \in Files |-> ParsedData(Content[f])]

ASSUME AmountsAssumption == Amounts \subseteq Int /\ 0 \in Amounts
\* What the cells of a column hold where they are not blank.
CellsOf(column) ==
    CASE column \in Prices \cup {"quantity", "movement_quantity"} -> Amounts \cup {Bad}
      [] column = "internal_reference" -> Refs
      [] column \in {"external_ref", "supplier_ref"} -> Suppliers
      [] column \in {"contact_name", "name", "movement"} -> Names

ASSUME FilesAssumption ==
    \A f \in Files : Accepted(Content[f]) =>
        LET lines == Content[f].rows
        IN  /\ Len(lines) \in Nat /\ DOMAIN lines = 1..Len(lines)
            /\ \A k \in DOMAIN lines, column \in Columns(Content[f]) :
                  lines[k][column] \in CellsOf(column) \cup {None}
            /\ Type(Content[f]) = "CONTACTS" => Len(lines) <= MaxContacts
ASSUME BoundAssumption == MaxContacts \in Nat
ASSUME NoneAssumption == /\ None \notin Imports \cup Files
                         /\ None \notin Suppliers \cup Refs \cup Names \cup Amounts

VARIABLES
    rows,       \* products and contacts
    links,      \* product_supplier_refs
    batches,    \* import_batches: the status of each
    stock,      \* stock_snapshots, by batch
    moves,      \* stock_movements, by batch
    campaigns,  \* their source batch, and the snapshot frozen from it
    tx          \* what each request knows

database == <<rows, links, batches, stock, moves>>
vars == <<database, campaigns, tx>>

ContactIds == Imports \X (1..MaxContacts)
Keys == Refs \cup ContactIds

Row == [{"name"} \cup Prices -> Values] \cup [{"name", "external_ref"} -> Values]
Table == [Keys -> Row \cup {None}]
Link == [ref: Refs, contact: ContactIds, supplier: Suppliers]

Active == {"PROCESSING", "COMPLETED", "COMPLETED_WITH_WARNINGS"}
Complete == {"COMPLETED", "COMPLETED_WITH_WARNINGS"}

Item == [ref: Refs, quantity: Amounts, name: Values,
         prices: [Prices -> Values], cost: Amounts]

ASSUME KeysAssumption == Refs \cap ContactIds = {}
ASSUME BlankAssumption == None \notin Row /\ None \notin Active \cup {"FAILED"}

-----------------------------------------------------------------------------
(* A request: the file it imports, the next product to bring up to date,   *)
(* its session (rows as read and as they are now, links to add, whether a  *)
(* supplier was missing), and the batch it was told of.                    *)

Ended == {"done", "already", "failed", "dead"}
Running == {"find", "create", "lost", "persist", "commit", "failing"}

Request == [pc: Running \cup Ended \cup {"idle"}, file: Files \cup {None},
            next: Nat, base: Table, mine: Table, added: Seq(Link),
            missing: BOOLEAN, told: Imports \cup {None}]

Unread == [k \in Keys |-> None]

Blank == [pc |-> "idle", file |-> None, next |-> 1, base |-> Unread, mine |-> Unread,
          added |-> <<>>, missing |-> FALSE, told |-> None]

At(i, pc) == tx[i].pc = pc
Data(i) == Parsed[tx[i].file]

\* The request is over: it keeps what it answered.
EndAs(i, pc, told) == [Blank EXCEPT !.pc = pc, !.file = tx[i].file, !.told = told]
End(i, pc, told) == tx' = [tx EXCEPT ![i] = EndAs(i, pc, told)]

TypeOK ==
    /\ rows \in Table
    /\ links \in SUBSET Link
    /\ batches \in [Imports -> Active \cup {"FAILED", None}]
    /\ stock \in [Imports -> Seq([ref: Refs, quantity: Amounts])]
    /\ moves \in [Imports -> Seq(Movement)]
    /\ campaigns \in [Campaigns -> [source: Imports \cup {None}, frozen: BOOLEAN,
                                    items: SUBSET Item]]
    /\ tx \in [Imports -> Request]

Init ==
    /\ rows = Unread
    /\ links = {}
    /\ batches = [i \in Imports |-> None]
    /\ stock = [i \in Imports |-> <<>>]
    /\ moves = [i \in Imports |-> <<>>]
    /\ campaigns = [c \in Campaigns |-> [source |-> None, frozen |-> FALSE, items |-> {}]]
    /\ tx = [i \in Imports |-> Blank]

-----------------------------------------------------------------------------
(* The first transaction: one batch per file.                              *)

\* Mutant: a finished batch does not keep its file from being imported again.
Unfinished(f) == {b \in Imports : batches[b] = "PROCESSING" /\ tx[b].file = f}

\* _find_active_batch, and what the partial unique index refuses.
ActiveBatches(f) == {b \in Imports : batches[b] \in Active /\ tx[b].file = f}

\* Unreadable and unknown files never get here.
Begin(i, f) ==
    /\ At(i, "idle") /\ Accepted(Content[f])
    /\ tx' = [tx EXCEPT ![i] = [@ EXCEPT !.pc = "find", !.file = f]]
    /\ UNCHANGED <<database, campaigns>>

FindActive(i) ==
    /\ At(i, "find")
    /\ \E b \in ActiveBatches(tx[i].file) : End(i, "already", b)
    /\ UNCHANGED <<database, campaigns>>

FindNone(i) ==
    /\ At(i, "find") /\ ActiveBatches(tx[i].file) = {}
    /\ tx' = [tx EXCEPT ![i].pc = "create"]
    /\ UNCHANGED <<database, campaigns>>

Create(i) ==
    /\ At(i, "create") /\ ActiveBatches(tx[i].file) = {}
    /\ batches' = [batches EXCEPT ![i] = "PROCESSING"]
    /\ tx' = [tx EXCEPT ![i].pc = "persist"]
    /\ UNCHANGED <<rows, links, stock, moves, campaigns>>

\* Another request was quicker: IntegrityError.
CreateRefused(i) ==
    /\ At(i, "create") /\ ActiveBatches(tx[i].file) # {}
    /\ tx' = [tx EXCEPT ![i].pc = "lost"]
    /\ UNCHANGED <<database, campaigns>>

\* The winner is looked up, and may have failed meanwhile.
FindWinner(i) ==
    LET winners == ActiveBatches(tx[i].file)
    IN  /\ At(i, "lost")
        /\ \E b \in winners \cup {None} :
              /\ (b = None) <=> (winners = {})
              /\ End(i, "already", b)
        /\ UNCHANGED <<database, campaigns>>

-----------------------------------------------------------------------------
(* The second: the file's rows, one after the other.                       *)

\* Mutant: a price the file does not give is removed.
UpsertBlanks(row, p) == [c \in {"name"} \cup Prices |-> IF c = "name" THEN p.name ELSE p.prices[c]]

\* A price the file does not give is left as it is.
Updated(row, p) ==
    [c \in {"name"} \cup Prices |->
        IF c = "name" THEN p.name
        ELSE IF p.prices[c] # None THEN p.prices[c] ELSE row[c]]

Created(p) == [c \in {"name"} \cup Prices |-> IF c = "name" THEN p.name ELSE p.prices[c]]

\* upsert of the next product.
UpsertProduct(i) ==
    LET p    == Data(i).products[tx[i].next]
        seen == tx[i].mine[p.ref] # None
        row  == IF seen THEN tx[i].mine[p.ref] ELSE rows[p.ref]
        base == [tx[i].base EXCEPT ![p.ref] = IF seen THEN @ ELSE row]
        mine == [tx[i].mine EXCEPT ![p.ref] = IF row = None THEN Created(p) ELSE Updated(row, p)]
    IN  /\ At(i, "persist") /\ tx[i].next <= Len(Data(i).products)
        /\ tx' = [tx EXCEPT ![i] = [tx[i] EXCEPT !.next = tx[i].next + 1,
                                                !.base = base, !.mine = mine]]
        /\ UNCHANGED <<database, campaigns>>

\* upsert_batch: all contacts are read at once, and each of the file's is
\* looked for by reference, then by name.
NewContact(i, acc, contact) ==
    LET key == <<i, acc.next>>
    IN  [mine  |-> [acc.mine EXCEPT ![key] = [c \in {"name", "external_ref"} |->
                        IF c = "name" THEN contact.name ELSE contact.ref]],
         byRef |-> IF contact.ref = None THEN acc.byRef
                   ELSE [acc.byRef EXCEPT ![contact.ref] = key],
         byName |-> [acc.byName EXCEPT ![contact.name] = key],
         next |-> acc.next + 1]

\* The name it had still finds the contact, and so does its old reference.
KnownContact(key, acc, contact) ==
    [mine  |-> [acc.mine EXCEPT ![key] = [c \in {"name", "external_ref"} |->
                   IF c = "name" THEN contact.name
                   ELSE IF contact.ref # None THEN contact.ref ELSE acc.mine[key][c]]],
     byRef |-> IF contact.ref = None THEN acc.byRef
               ELSE [acc.byRef EXCEPT ![contact.ref] = key],
     byName |-> acc.byName,
     next |-> acc.next]

UpsertContact(i, acc, contact) ==
    LET byRef == IF contact.ref = None THEN None ELSE acc.byRef[contact.ref]
        key   == IF byRef # None THEN byRef ELSE acc.byName[contact.name]
    IN  IF key = None THEN NewContact(i, acc, contact) ELSE KnownContact(key, acc, contact)

\* An index of the contacts: of several with one value, any.
Indexes(column, values) ==
    {index \in [values -> ContactIds \cup {None}] :
        \A v \in values :
            LET having == {k \in ContactIds : rows[k] # None /\ rows[k][column] = v}
            IN  IF having = {} THEN index[v] = None ELSE index[v] \in having}

\* The contacts as they are read.
Contacted == [k \in Keys |-> IF k \in ContactIds THEN rows[k] ELSE None]

\* What the session makes of them, one contact of the file after the other.
Upserting(i, byRef, byName) ==
    LET contacts == Data(i).contacts
        acc[n \in 0..Len(contacts)] ==
            IF n = 0 THEN [mine |-> Contacted, byRef |-> byRef, byName |-> byName, next |-> 1]
            ELSE UpsertContact(i, acc[n - 1], contacts[n])
    IN  acc

Upserted(i, byRef, byName) == Upserting(i, byRef, byName)[Len(Data(i).contacts)].mine

UpsertContacts(i) ==
    /\ At(i, "persist") /\ Type(Content[tx[i].file]) = "CONTACTS"
    /\ \E byRef \in Indexes("external_ref", Suppliers), byName \in Indexes("name", Names) :
          tx' = [tx EXCEPT ![i] = [@ EXCEPT !.pc = "commit", !.base = Contacted,
                                            !.mine = Upserted(i, byRef, byName)]]
    /\ UNCHANGED <<database, campaigns>>

\* _link_suppliers.  The links it adds itself are not seen by its queries.
LinkSuppliers(i) ==
    LET products == Data(i).products
        refs     == {products[n].supplier : n \in DOMAIN products} \ {None}
    IN  /\ At(i, "persist") /\ Type(Content[tx[i].file]) # "CONTACTS"
        /\ tx[i].next > Len(products)
        /\ \E contact \in Indexes("external_ref", refs) :
              LET New(p) == /\ p.supplier # None
                            /\ contact[p.supplier] # None
                            /\ ~\E l \in links : l.ref = p.ref /\ l.contact = contact[p.supplier]
                  new    == Picked(products, {n \in DOMAIN products : New(products[n])})
              IN  tx' = [tx EXCEPT ![i] = [@ EXCEPT
                            !.pc = "commit",
                            !.added = [n \in DOMAIN new |->
                                          [ref |-> new[n].ref, supplier |-> new[n].supplier,
                                           contact |-> contact[new[n].supplier]]],
                            !.missing = \E s \in refs : contact[s] = None]]
        /\ UNCHANGED <<database, campaigns>>

-----------------------------------------------------------------------------
(* Its commit, its failure, and the third transaction.                     *)

SamePair(l, m) == l.ref = m.ref /\ l.contact = m.contact

\* A unique key is taken: a product that someone else has inserted since, a
\* link that is there or is added twice.
Conflict(i) ==
    \/ \E r \in Refs : tx[i].mine[r] # None /\ tx[i].base[r] = None /\ rows[r] # None
    \/ \E n \in DOMAIN tx[i].added :
          \/ \E l \in links : SamePair(l, tx[i].added[n])
          \/ \E m \in DOMAIN tx[i].added : m # n /\ SamePair(tx[i].added[m], tx[i].added[n])

\* What becomes of a row the session has read: the columns it changed are
\* written.
Written(base, mine, row) ==
    [c \in DOMAIN mine |-> IF base # None /\ mine[c] = base[c] THEN row[c] ELSE mine[c]]

\* Mutant: a product without quantity has stock too.
StockOfAll(data) ==
    [n \in DOMAIN data.products |->
        [ref |-> data.products[n].ref, quantity |-> data.products[n].quantity]]

StockOf(data) ==
    LET products == data.products
        given    == Picked(products, {n \in DOMAIN products : products[n].quantity # None})
    IN  [n \in DOMAIN given |-> [ref |-> given[n].ref, quantity |-> given[n].quantity]]

\* "answered": the request sees that it is committed.
Commit(i, answered) ==
    /\ At(i, "commit") /\ ~Conflict(i)
    /\ rows' = [k \in Keys |-> IF tx[i].mine[k] = None THEN rows[k]
                               ELSE Written(tx[i].base[k], tx[i].mine[k], rows[k])]
    /\ links' = links \cup {tx[i].added[n] : n \in DOMAIN tx[i].added}
    /\ stock' = [stock EXCEPT ![i] = StockOf(Data(i))]
    /\ moves' = [moves EXCEPT ![i] = Data(i).movements]
    /\ batches' = [batches EXCEPT ![i] =
                      IF Data(i).errors > 0 \/ tx[i].missing THEN "COMPLETED_WITH_WARNINGS"
                      ELSE "COMPLETED"]
    /\ IF answered THEN End(i, "done", i) ELSE End(i, "failing", None)
    /\ UNCHANGED campaigns

\* Any exception; nothing of the transaction stays.
Fail(i) ==
    /\ tx[i].pc \in {"persist", "commit"}
    /\ End(i, "failing", None)
    /\ UNCHANGED <<database, campaigns>>

\* Mutant: the batch is left as it is.
RecordNothing(i) ==
    /\ At(i, "failing")
    /\ End(i, "failed", None)
    /\ UNCHANGED <<database, campaigns>>

\* The status is set whatever it has become.
RecordFailure(i) ==
    /\ At(i, "failing")
    /\ batches' = [batches EXCEPT ![i] = "FAILED"]
    /\ End(i, "failed", None)
    /\ UNCHANGED <<rows, links, stock, moves, campaigns>>

\* The process dies, or the failure cannot be recorded.
Die(i) ==
    /\ tx[i].pc \in Running
    /\ End(i, "dead", None)
    /\ UNCHANGED <<database, campaigns>>

-----------------------------------------------------------------------------
(* Campaigns.                                                              *)

\* get_source_batch.  Only imports of products leave stock.
Eligible(b) == batches[b] \in Complete /\ stock[b] # <<>>

SelectSource(c, b) ==
    /\ ~campaigns[c].frozen /\ Eligible(b)
    /\ campaigns' = [campaigns EXCEPT ![c].source = b]
    /\ UNCHANGED <<database, tx>>

\* Mutant: only rows that agree are told apart.
DistinctRows(b) == \A m, n \in DOMAIN stock[b] : stock[b][m] = stock[b][n] => m = n

\* assert_source_consistent: no product has two rows.
Consistent(b) == \A m, n \in DOMAIN stock[b] : stock[b][m].ref = stock[b][n].ref => m = n

\* build_snapshot: quantities are those of the batch, names and prices those
\* of the products now.
Snapshot(b) ==
    {[ref |-> s.ref, quantity |-> s.quantity, name |-> rows[s.ref]["name"],
      prices |-> [p \in Prices |-> rows[s.ref][p]],
      cost |-> EffectiveCost(rows[s.ref]["cost"], rows[s.ref]["consignment_cost"]).amount] :
        s \in {stock[b][n] : n \in {n \in DOMAIN stock[b] : stock[b][n].quantity # 0}}}

Start(c) ==
    LET b == campaigns[c].source
    IN  /\ ~campaigns[c].frozen /\ b # None
        /\ Eligible(b) /\ Consistent(b)
        /\ campaigns' = [campaigns EXCEPT ![c] = [@ EXCEPT !.frozen = TRUE,
                                                          !.items = Snapshot(b)]]
        /\ UNCHANGED <<database, tx>>

-----------------------------------------------------------------------------
\* What the thread of a request does by itself.
Proceed(i) ==
    \/ FindActive(i) \/ FindNone(i)
    \/ Create(i) \/ CreateRefused(i) \/ FindWinner(i)
    \/ UpsertProduct(i) \/ UpsertContacts(i) \/ LinkSuppliers(i)
    \/ \E answered \in BOOLEAN : Commit(i, answered)
    \/ Fail(i) \/ RecordFailure(i)

Next ==
    \/ \E i \in Imports :
          \/ \E f \in Files : Begin(i, f)
          \/ Proceed(i) \/ Die(i)
    \/ \E c \in Campaigns :
          \/ \E b \in Imports : SelectSource(c, b)
          \/ Start(c)

Spec == Init /\ [][Next]_vars

\* As long as a request can go on, one does; statements that wait for each
\* other are ended by the database.  No request has more than finitely many
\* steps, so none is passed over for ever.
FairSpec == Spec /\ WF_vars(\E i \in Imports : Proceed(i))

-----------------------------------------------------------------------------
(* What the imports and the snapshots promise.                             *)

\* Of the rows of a file: those of a product with this quantity, and those of
\* a movement of this product, the last one named above them.
StockRows ==
    [f \in Files |-> [r \in Refs |-> [q \in Amounts |->
        {k \in DOMAIN Content[f].rows : /\ IsProduct(Content[f], k)
                                        /\ Cell(Content[f], k, "internal_reference") = r
                                        /\ Number(Content[f], k, "quantity") = q}]]]

MovementRows ==
    [f \in Files |-> [r \in Refs |->
        {k \in DOMAIN Content[f].rows :
            /\ Type(Content[f]) = "MIXED_PRODUCT_EXPORT"
            /\ ~IsProduct(Content[f], k) /\ IsMovement(Content[f], k)
            /\ \E j \in 1..k : /\ Cell(Content[f], j, "internal_reference") = r
                               /\ \A l \in j + 1..k : ~IsProduct(Content[f], l)}]]

HoldsAllOf(b, f) ==
    \A r \in Refs :
        /\ \A q \in Amounts :
              Cardinality({n \in DOMAIN stock[b] : stock[b][n] = [ref |-> r, quantity |-> q]})
                = Cardinality(StockRows[f][r][q])
        /\ Cardinality({n \in DOMAIN moves[b] : moves[b][n].ref = r})
                = Cardinality(MovementRows[f][r])

\* A batch has all the stock and movements of its file or none of them, and all
\* if it is completed: whatever failed or died on the way, run's second
\* transaction is one, and the parsers give each movement to its product.
AllOrNothing ==
    \A b \in Imports :
        /\ batches[b] = None => stock[b] = <<>> /\ moves[b] = <<>>
        /\ batches[b] # None =>
              \/ HoldsAllOf(b, tx[b].file)
              \/ batches[b] \notin Complete /\ stock[b] = <<>> /\ moves[b] = <<>>

\* A file is not imported twice: of two completed batches of one file, the
\* partial unique index allows one.  Who is told "already imported" is told of
\* another batch of that file, or of none where that batch has failed.
OneImportPerFile ==
    /\ \A b, d \in Imports : batches[b] \in Active /\ batches[d] \in Active /\ b # d
                              => tx[b].file # tx[d].file
    /\ \A i \in Imports : At(i, "already") =>
          LET others == {b \in Imports \ {i} : tx[b].file = tx[i].file /\ batches[b] # None}
          IN  IF tx[i].told = None THEN \E b \in others : batches[b] = "FAILED"
              ELSE tx[i].told \in others

\* A frozen snapshot is that of one file: each product once, with the quantity
\* the file gives it, none of them zero and none left out; and its cost is zero
\* only where it has neither price.
SnapshotOfOneFile ==
    \A c \in Campaigns : campaigns[c].frozen =>
        LET f == tx[campaigns[c].source].file
            items == campaigns[c].items
        IN  /\ \A s, t \in items : s.ref = t.ref => s = t
            /\ \A r \in Refs, q \in Amounts \ {0} :
                  (StockRows[f][r][q] # {}) <=> \E s \in items : s.ref = r /\ s.quantity = q
            /\ \A s \in items :
                  /\ s.quantity # 0
                  /\ s.cost = 0 <=> \A p \in {"cost", "consignment_cost"} :
                                        s.prices[p] = None \/ s.prices[p] <= 0

\* No import removes a product, or a price that it has: a file without the
\* column keeps what others wrote, also while they overlap.
NothingErased ==
    [][\A r \in Refs : rows[r] # None =>
          /\ rows'[r] # None
          /\ \A p \in Prices : rows[r][p] # None => rows'[r][p] # None]_vars

\* A batch does not stay PROCESSING unless its request died: run catches every
\* exception of the second transaction.
ImportsEnd ==
    \A i \in Imports :
        batches[i] = "PROCESSING" ~> batches[i] # "PROCESSING" \/ At(i, "dead")
=============================================================================
