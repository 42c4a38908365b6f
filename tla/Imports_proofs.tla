---------------------------- MODULE Imports_proofs ----------------------------
(***************************************************************************)
(* Theorems about Imports, for any files, any number of requests and       *)
(* campaigns: what the parsers and upsert_batch make of a file, what a     *)
(* batch leaves of it, and what a campaign freezes of that.                *)
(***************************************************************************)
EXTENDS Imports, ImportFiles_proofs

-----------------------------------------------------------------------------
(* The inductive invariant.                                                *)

\* The fields of a request, whatever their values.
Shaped(t) ==
    t = [pc |-> t.pc, file |-> t.file, next |-> t.next, base |-> t.base, mine |-> t.mine,
         added |-> t.added, missing |-> t.missing, told |-> t.told]

OnKeys(table) == table = [k \in Keys |-> table[k]]

RequestsTyped ==
    /\ tx = [i \in Imports |-> tx[i]]
    /\ \A i \in Imports : /\ Shaped(tx[i]) /\ OnKeys(tx[i].base) /\ OnKeys(tx[i].mine)
                          /\ tx[i].next \in Nat \ {0}

DatabaseTyped ==
    /\ OnKeys(rows)
    /\ batches \in [Imports -> Active \cup {"FAILED", None}]
    /\ stock = [i \in Imports |-> stock[i]] /\ moves = [i \in Imports |-> moves[i]]

\* A request has a file once it has begun, and a batch once it has made one;
\* whoever lost the race lost it to another batch of the file.
Begun ==
    \A i \in Imports :
        /\ tx[i].pc # "idle" => tx[i].file \in Files /\ Accepted(Content[tx[i].file])
        /\ tx[i].pc \in {"idle", "find", "create", "lost", "already"} => batches[i] = None
        /\ tx[i].pc \in {"persist", "commit"} => batches[i] = "PROCESSING"
        /\ tx[i].pc = "lost" => \E b \in Imports \ {i} :
              tx[b].pc # "idle" /\ tx[b].file = tx[i].file /\ batches[b] # None

ProductRow == {row \in [{"name"} \cup Prices -> Values] :
                  \A p \in Prices : row[p] \in Amounts \cup {None}}

\* A session has removed no price that it has read.
SessionKeeps ==
    /\ \A r \in Refs : rows[r] \in ProductRow \cup {None}
    /\ \A i \in Imports, r \in Refs :
          /\ tx[i].base[r] \in ProductRow \cup {None} /\ tx[i].mine[r] \in ProductRow \cup {None}
          /\ tx[i].base[r] # None => rows[r] # None
          /\ tx[i].mine[r] # None /\ tx[i].base[r] # None =>
                \A p \in Prices : tx[i].mine[r][p] = None => tx[i].base[r][p] = None

\* What a batch leaves is what the parser made of its file, or nothing.
WholeFile(b) ==
    /\ stock[b] = StockOf(Parsed[tx[b].file])
    /\ moves[b] = Parsed[tx[b].file].movements

WholeOrNothing ==
    \A b \in Imports :
        \/ stock[b] = <<>> /\ moves[b] = <<>> /\ batches[b] \notin Complete
        \/ WholeFile(b) /\ tx[b].pc \notin {"persist", "commit"} /\ batches[b] # None

ImportInv == RequestsTyped /\ DatabaseTyped /\ Begun /\ OneImportPerFile /\ SessionKeeps
                           /\ WholeOrNothing

USE NoneAssumption, BlankAssumption

-----------------------------------------------------------------------------
(* What the parsers make of the files.                                     *)

\* An accepted file is a sequence of rows, and few enough contacts.
LEMMA FileOf ==
    ASSUME NEW f \in Files, Accepted(Content[f])
    PROVE  /\ Lines(Content[f]) \in Nat
           /\ DOMAIN Content[f].rows = 1..Lines(Content[f])
           /\ Type(Content[f]) = "CONTACTS" => Lines(Content[f]) <= MaxContacts
           /\ Parsed[f] = ParsedData(Content[f])
BY FilesAssumption DEF Lines, Parsed

\* What is read of a row.
LEMMA CellTypes ==
    ASSUME NEW f \in Files, Accepted(Content[f]), NEW k \in 1..Lines(Content[f])
    PROVE  /\ Cell(Content[f], k, "internal_reference") \in Refs \cup {None}
           /\ \A c \in {"external_ref", "supplier_ref"} :
                 Cell(Content[f], k, c) \in Suppliers \cup {None}
           /\ \A c \in {"contact_name", "name", "movement"} :
                 Cell(Content[f], k, c) \in Names \cup {None}
           /\ \A c \in Prices \cup {"quantity", "movement_quantity"} :
                 Number(Content[f], k, c) \in Amounts \cup {None}
<1> DEFINE file == Content[f]
<1>1. ASSUME NEW c \in Columns(file) PROVE file.rows[k][c] \in CellsOf(c) \cup {None}
  BY <1>1, FileOf, FilesAssumption
<1>2. ASSUME NEW c PROVE Cell(file, k, c) \in CellsOf(c) \cup {None}
  BY <1>1 DEF Cell
<1> HIDE DEF file
<1>3. Cell(file, k, "internal_reference") \in Refs \cup {None}
  <2>1. CellsOf("internal_reference") = Refs BY DEF CellsOf, Prices
  <2> QED BY <1>2, <2>1
<1>4. \A c \in {"external_ref", "supplier_ref"} : Cell(file, k, c) \in Suppliers \cup {None}
  <2>1. \A c \in {"external_ref", "supplier_ref"} : CellsOf(c) = Suppliers
    BY DEF CellsOf, Prices
  <2> QED BY <1>2, <2>1
<1>5. \A c \in {"contact_name", "name", "movement"} : Cell(file, k, c) \in Names \cup {None}
  <2>1. \A c \in {"contact_name", "name", "movement"} : CellsOf(c) = Names
    BY DEF CellsOf, Prices
  <2> QED BY <1>2, <2>1
<1>6. \A c \in Prices \cup {"quantity", "movement_quantity"} :
         Number(file, k, c) \in Amounts \cup {None}
  <2>1. \A c \in Prices \cup {"quantity", "movement_quantity"} : CellsOf(c) = Amounts \cup {Bad}
    BY DEF CellsOf, Prices
  <2> QED BY <1>2, <2>1 DEF Number
<1> QED BY <1>3, <1>4, <1>5, <1>6 DEF file

\* The parsers make well-formed products of its rows, ...
LEMMA ProductTypes ==
    ASSUME NEW f \in Files, Accepted(Content[f])
    PROVE  /\ \A k \in ProductRows(Content[f], Lines(Content[f])) :
                 /\ ProductsOf(Content[f])[k] = ProductOf(Content[f], k)
                 /\ ProductsOf(Content[f])[k] \in Product
           /\ Parsed[f].products \in Seq(Product)
           /\ DOMAIN Parsed[f].products = 1..Len(Parsed[f].products)
           /\ Type(Content[f]) = "CONTACTS" => Parsed[f].products = <<>>
<1> DEFINE file == Content[f]
           S == ProductRows(file, Lines(file))
<1>1. S \in SUBSET (1..Lines(file)) BY DEF ProductRows
<1>2. ASSUME NEW k \in S PROVE ProductsOf(file)[k] = ProductOf(file, k)
                               /\ ProductsOf(file)[k] \in Product
  <2>1. k \in 1..Lines(file) /\ IsProduct(file, k) BY DEF ProductRows
  <2>2. ProductsOf(file)[k] = ProductOf(file, k) BY <2>1 DEF ProductsOf
  <2>3. /\ Cell(file, k, "internal_reference") \in Refs
        /\ Cell(file, k, "name") \in Values
        /\ Cell(file, k, "supplier_ref") \in Suppliers \cup {None}
        /\ Number(file, k, "quantity") \in Amounts \cup {None}
        /\ \A c \in Prices : Number(file, k, c) \in Amounts \cup {None}
    BY <2>1, CellTypes DEF IsProduct, Values
  <2> HIDE DEF file
  <2>4. ProductOf(file, k) \in Product BY <2>3 DEF ProductOf, Product
  <2> QED BY <2>2, <2>4
<1>3. Lines(file) \in Nat /\ Parsed[f] = ParsedData(file) BY FileOf
<1>4. Parsed[f].products = Picked(ProductsOf(file), S) BY <1>3, RowsAreKept
<1> HIDE DEF file, S
<1>5. /\ Picked(ProductsOf(file), S) \in Seq(Product)
      /\ Len(Picked(ProductsOf(file), S)) = Cardinality(S)
      /\ DOMAIN Picked(ProductsOf(file), S) = 1..Cardinality(S)
  BY <1>1, <1>2, <1>3, PickedType
<1>6. ASSUME Type(file) = "CONTACTS" PROVE Parsed[f].products = <<>>
  <2>1. S = {} BY <1>6, Kinds DEF S, ProductRows, file
  <2>2. Len(Parsed[f].products) = 0 BY <1>4, <1>5, <2>1, FS_EmptySet
  <2> QED BY <1>4, <1>5, <2>2
<1> QED BY <1>2, <1>4, <1>5, <1>6 DEF file, S

\* ... well-formed movements, ...
LEMMA MovementTypes ==
    ASSUME NEW f \in Files, Accepted(Content[f])
    PROVE  /\ \A k \in ChildRows(Content[f], Lines(Content[f])) :
                 MovementsOf(Content[f])[k] \in Movement
           /\ Parsed[f].movements \in Seq(Movement)
<1> DEFINE file == Content[f]
           S == ChildRows(file, Lines(file))
<1>1. S \in SUBSET (1..Lines(file)) BY DEF ChildRows
<1>3. Lines(file) \in Nat /\ Parsed[f] = ParsedData(file) BY FileOf
<1>2. ASSUME NEW k \in S PROVE MovementsOf(file)[k] \in Movement
  <2> DEFINE r == Reading(file)[k - 1].current
  <2>1. /\ k \in 1..Lines(file) /\ r # None
        /\ Type(file) = "MIXED_PRODUCT_EXPORT" /\ ~IsProduct(file, k) /\ IsMovement(file, k)
    BY DEF ChildRows
  <2>2. LastNamed(file, k, r) BY <1>3, <2>1, MovementsHaveParents
  <2>3. PICK j \in 1..k : Cell(file, j, "internal_reference") = r BY <2>2 DEF LastNamed
  <2>4. j \in 1..Lines(file) BY <1>3, <2>1
  <2>5. r \in Refs BY <2>1, <2>3, <2>4, CellTypes
  <2>6. /\ Cell(file, k, "movement") \in Values
        /\ Number(file, k, "movement_quantity") \in Amounts \cup {None}
    BY <2>1, CellTypes DEF Values
  <2>7. MovementsOf(file)[k] = MovementOf(file, k, r) BY <2>1 DEF MovementsOf
  <2> HIDE DEF file, r
  <2>8. MovementOf(file, k, r) \in Movement
    BY <2>5, <2>6, AmountsAssumption DEF MovementOf, Movement
  <2> QED BY <2>7, <2>8
<1>4. Parsed[f].movements = Picked(MovementsOf(file), S) BY <1>3, RowsAreKept
<1> HIDE DEF file, S
<1>5. Picked(MovementsOf(file), S) \in Seq(Movement) BY <1>1, <1>2, <1>3, PickedType
<1> QED BY <1>2, <1>4, <1>5 DEF file, S

\* ... and well-formed contacts, no more than there are ids for.
LEMMA ContactTypes ==
    ASSUME NEW f \in Files, Accepted(Content[f])
    PROVE  /\ Parsed[f].contacts \in Seq(Contact)
           /\ Len(Parsed[f].contacts) <= MaxContacts
<1> DEFINE file == Content[f]
           S == ContactRows(file, Lines(file))
<1>1. S \in SUBSET (1..Lines(file)) BY DEF ContactRows
<1>3. Lines(file) \in Nat /\ Parsed[f] = ParsedData(file) BY FileOf
<1>2. ASSUME NEW k \in S PROVE ContactsOf(file)[k] \in Contact
  <2>1. k \in 1..Lines(file) /\ Cell(file, k, "contact_name") # None BY DEF ContactRows
  <2>2. /\ Cell(file, k, "contact_name") \in Names
        /\ Cell(file, k, "external_ref") \in Suppliers \cup {None}
    BY <2>1, CellTypes
  <2>3. ContactsOf(file)[k] = ContactOf(file, k) BY <2>1 DEF ContactsOf
  <2> HIDE DEF file
  <2> QED BY <2>2, <2>3 DEF ContactOf, Contact
<1>4. Parsed[f].contacts = Picked(ContactsOf(file), S) BY <1>3, RowsAreKept
<1>5. Type(file) # "CONTACTS" => S = {} BY DEF ContactRows
<1>6. Type(file) = "CONTACTS" => Lines(file) <= MaxContacts BY FileOf
<1> HIDE DEF file, S
<1>7. /\ Picked(ContactsOf(file), S) \in Seq(Contact)
      /\ Len(Picked(ContactsOf(file), S)) = Cardinality(S)
  BY <1>1, <1>2, <1>3, PickedType
<1>8. Cardinality(S) <= Lines(file) /\ Cardinality(S) \in Nat
  <2>1. (1..Lines(file)) \in SUBSET (1..Lines(file)) OBVIOUS
  <2>2. Cardinality(1..Lines(file)) = Lines(file) BY <1>3, FS_Interval
  <2> QED BY <1>1, <1>3, <2>1, <2>2, PositionsFinite
<1>9. Cardinality(S) <= MaxContacts
  <2>1. S = {} => Cardinality(S) = 0 BY FS_EmptySet
  <2> QED BY <1>3, <1>5, <1>6, <1>8, <2>1, BoundAssumption
<1> QED BY <1>4, <1>7, <1>9

\* The stock of a file is of its products that have a quantity.
LEMMA StockTypes ==
    ASSUME NEW f \in Files, Accepted(Content[f])
    PROVE  LET products == Parsed[f].products
               given    == {n \in DOMAIN products : products[n].quantity # None}
               left     == StockOf(Parsed[f])
           IN  /\ given \in SUBSET (1..Len(products)) /\ Len(products) \in Nat
               /\ left \in Seq([ref: Refs, quantity: Amounts])
               /\ DOMAIN left = DOMAIN Picked(products, given)
               /\ \A n \in DOMAIN left :
                     /\ Picked(products, given)[n] \in Product
                     /\ \E m \in DOMAIN products : Picked(products, given)[n] = products[m]
                     /\ left[n] = [ref |-> Picked(products, given)[n].ref,
                                   quantity |-> Picked(products, given)[n].quantity]
<1> DEFINE products == Parsed[f].products
           S == {n \in DOMAIN products : products[n].quantity # None}
           given == Picked(products, S)
           T == {p \in Product : p.quantity # None /\ \E m \in DOMAIN products : p = products[m]}
<1>1. /\ products \in Seq(Product) /\ Len(products) \in Nat
      /\ DOMAIN products = 1..Len(products) /\ S \in SUBSET (1..Len(products))
  BY ProductTypes
<1>2. \A n \in S : products[n] \in T BY <1>1
<1>3. StockOf(Parsed[f]) = [n \in DOMAIN given |-> [ref |-> given[n].ref,
                                                   quantity |-> given[n].quantity]]
  BY DEF StockOf
<1>4. given \in Seq(T) /\ Len(given) \in Nat /\ DOMAIN given = 1..Len(given)
  <2> DEFINE N == Len(products)
  <2>1. N \in Nat /\ S \in SUBSET (1..N) BY <1>1
  <2> HIDE DEF S, T, products, N
  <2>2. given \in Seq(T) BY <1>2, <2>1, PickedType
  <2> HIDE DEF given
  <2> QED BY <2>2
<1> HIDE DEF given
<1>5. \A n \in DOMAIN given : given[n] \in T
  <2> HIDE DEF T
  <2> QED BY <1>4
<1>6. \A n \in DOMAIN given : /\ given[n].ref \in Refs /\ given[n].quantity \in Amounts
                              /\ given[n] \in Product
                              /\ \E m \in DOMAIN products : given[n] = products[m]
  BY <1>5 DEF Product
<1>7. StockOf(Parsed[f]) \in Seq([ref: Refs, quantity: Amounts])
  <2> DEFINE U == [ref: Refs, quantity: Amounts]
             N == Len(given)
  <2>1. \A n \in DOMAIN given : [ref |-> given[n].ref, quantity |-> given[n].quantity] \in U
    BY <1>6
  <2>2. N \in Nat /\ DOMAIN given = 1..N BY <1>4
  <2> HIDE DEF U, N
  <2>3. StockOf(Parsed[f]) \in [1..N -> U] BY <1>3, <2>1, <2>2
  <2>4. StockOf(Parsed[f]) \in Seq(U) BY <2>2, <2>3
  <2> QED BY <2>4 DEF U
<1>8. /\ DOMAIN StockOf(Parsed[f]) = DOMAIN given
      /\ \A n \in DOMAIN given :
            StockOf(Parsed[f])[n] = [ref |-> given[n].ref, quantity |-> given[n].quantity]
  BY <1>3
<1> QED BY <1>1, <1>6, <1>7, <1>8 DEF given

\* Each is of a product of the file.
LEMMA StockNames ==
    ASSUME NEW f \in Files, Accepted(Content[f]), NEW n \in DOMAIN StockOf(Parsed[f])
    PROVE  \E m \in DOMAIN Parsed[f].products :
              StockOf(Parsed[f])[n].ref = Parsed[f].products[m].ref
<1> DEFINE products == Parsed[f].products
           S == {m \in DOMAIN products : products[m].quantity # None}
           given == Picked(products, S)
           left == StockOf(Parsed[f])
<1>1. /\ \E m \in DOMAIN products : given[n] = products[m]
      /\ left[n] = [ref |-> given[n].ref, quantity |-> given[n].quantity]
  BY StockTypes
<1> HIDE DEF products, given, left
<1>2. left[n].ref = given[n].ref BY <1>1
<1> QED BY <1>1, <1>2 DEF left, products

\* The stock a file leaves holds each product and quantity as often as its rows do.
LEMMA StockCounts ==
    ASSUME NEW f \in Files, Accepted(Content[f]), NEW r \in Refs, NEW q \in Amounts
    PROVE  Cardinality({n \in DOMAIN StockOf(Parsed[f]) :
                          StockOf(Parsed[f])[n] = [ref |-> r, quantity |-> q]})
              = Cardinality(StockRows[f][r][q])
<1> DEFINE file == Content[f]
           products == Parsed[f].products
           S == {n \in DOMAIN products : products[n].quantity # None}
           given == Picked(products, S)
           R == ProductRows(file, Lines(file))
           V == {p \in Product : p.ref = r /\ p.quantity = q}
<1>1. /\ S \in SUBSET (1..Len(products)) /\ Len(products) \in Nat
      /\ DOMAIN StockOf(Parsed[f]) = DOMAIN given
      /\ \A n \in DOMAIN given :
            /\ given[n] \in Product
            /\ StockOf(Parsed[f])[n] = [ref |-> given[n].ref, quantity |-> given[n].quantity]
  BY StockTypes
<1>2. {n \in DOMAIN StockOf(Parsed[f]) : StockOf(Parsed[f])[n] = [ref |-> r, quantity |-> q]}
         = Having(given, DOMAIN given, V)
  <2> HIDE DEF given
  <2>1. ASSUME NEW n \in DOMAIN given
        PROVE  StockOf(Parsed[f])[n] = [ref |-> r, quantity |-> q] <=> given[n] \in V
    <3> DEFINE one == StockOf(Parsed[f])[n]
    <3>1. /\ given[n] \in Product
          /\ one = [ref |-> given[n].ref, quantity |-> given[n].quantity]
      BY <1>1
    <3> HIDE DEF one
    <3>2. one = [ref |-> r, quantity |-> q] <=> given[n].ref = r /\ given[n].quantity = q
      BY <3>1
    <3> QED BY <3>1, <3>2 DEF one
  <2> HIDE DEF V
  <2> QED BY <1>1, <2>1 DEF Having
<1>3. Cardinality(Having(given, DOMAIN given, V)) = Cardinality(Having(products, S, V))
  <2> DEFINE N == Len(products)
  <2>1. N \in Nat /\ S \in SUBSET (1..N) BY <1>1
  <2> HIDE DEF S, V, products, N
  <2> QED BY <2>1, PickedHaving
<1>4. /\ products \in Seq(Product) /\ DOMAIN products = 1..Len(products)
      /\ \A k \in R : /\ ProductsOf(file)[k] = ProductOf(file, k)
                       /\ ProductsOf(file)[k] \in Product
  BY ProductTypes
<1>5. Having(products, S, V) = Having(products, DOMAIN products, V)
  BY NoneAssumption DEF Having
<1>6. Lines(file) \in Nat /\ DOMAIN file.rows = 1..Lines(file) /\ Parsed[f] = ParsedData(file)
      /\ R \in SUBSET (1..Lines(file))
  BY FileOf DEF ProductRows
<1>7. products = Picked(ProductsOf(file), R) BY <1>6, RowsAreKept
<1>8. Cardinality(Having(products, DOMAIN products, V)) = Cardinality(Having(ProductsOf(file), R, V))
  <2> DEFINE N == Lines(file)
             seq == ProductsOf(file)
  <2>1. N \in Nat /\ R \in SUBSET (1..N) /\ products = Picked(seq, R) BY <1>6, <1>7
  <2> HIDE DEF R, V, products, file, N, seq
  <2>2. Cardinality(Having(products, DOMAIN products, V)) = Cardinality(Having(seq, R, V))
    BY <2>1, PickedHaving
  <2> QED BY <2>1, <2>2 DEF seq
<1>9. Having(ProductsOf(file), R, V) = StockRows[f][r][q]
  <2>1. StockRows[f][r][q] =
           {k \in DOMAIN file.rows : /\ IsProduct(file, k)
                                     /\ Cell(file, k, "internal_reference") = r
                                     /\ Number(file, k, "quantity") = q}
    BY DEF StockRows
  <2>2. \A k \in R : /\ ProductOf(file, k).ref = Cell(file, k, "internal_reference")
                     /\ ProductOf(file, k).quantity = Number(file, k, "quantity")
    BY DEF ProductOf
  <2>3. \A k : k \in R <=> k \in DOMAIN file.rows /\ IsProduct(file, k)
    BY <1>6 DEF ProductRows
  <2> HIDE DEF R, file
  <2> QED BY <1>4, <2>1, <2>2, <2>3 DEF Having
<1> QED BY <1>2, <1>3, <1>5, <1>8, <1>9

\* Its movements hold each product as often as it has movements below it.
LEMMA MovementCounts ==
    ASSUME NEW f \in Files, Accepted(Content[f]), NEW r \in Refs
    PROVE  Cardinality({n \in DOMAIN Parsed[f].movements : Parsed[f].movements[n].ref = r})
              = Cardinality(MovementRows[f][r])
<1> DEFINE file == Content[f]
           movements == Parsed[f].movements
           R == ChildRows(file, Lines(file))
           V == {m \in Movement : m.ref = r}
<1>1. /\ movements \in Seq(Movement)
      /\ \A k \in R : MovementsOf(file)[k] \in Movement
  BY MovementTypes
<1>2. Lines(file) \in Nat /\ DOMAIN file.rows = 1..Lines(file) /\ Parsed[f] = ParsedData(file)
      /\ R \in SUBSET (1..Lines(file))
  BY FileOf DEF ChildRows
<1>3. movements = Picked(MovementsOf(file), R) BY <1>2, RowsAreKept
<1>4. {n \in DOMAIN movements : movements[n].ref = r}
         = Having(movements, DOMAIN movements, V)
  BY <1>1 DEF Having
<1>5. Cardinality(Having(movements, DOMAIN movements, V)) = Cardinality(Having(MovementsOf(file), R, V))
  <2> DEFINE N == Lines(file)
             seq == MovementsOf(file)
  <2>1. N \in Nat /\ R \in SUBSET (1..N) /\ movements = Picked(seq, R) BY <1>2, <1>3
  <2> HIDE DEF R, V, movements, file, N, seq
  <2>2. Cardinality(Having(movements, DOMAIN movements, V)) = Cardinality(Having(seq, R, V))
    BY <2>1, PickedHaving
  <2> QED BY <2>1, <2>2 DEF seq
<1>6. Having(MovementsOf(file), R, V) = MovementRows[f][r]
  <2>1. MovementRows[f][r] =
           {k \in DOMAIN file.rows : /\ Type(file) = "MIXED_PRODUCT_EXPORT"
                                     /\ ~IsProduct(file, k) /\ IsMovement(file, k)
                                     /\ LastNamed(file, k, r)}
    BY DEF MovementRows, LastNamed
  <2>2. \A k \in R : MovementsOf(file)[k].ref = Reading(file)[k - 1].current
    BY DEF ChildRows, MovementsOf, MovementOf
  <2>3. r # None BY NoneAssumption
  <2>4. ASSUME NEW k \in 1..Lines(file), Type(file) = "MIXED_PRODUCT_EXPORT",
               ~IsProduct(file, k), IsMovement(file, k)
        PROVE  k \in R /\ MovementsOf(file)[k].ref = r <=> LastNamed(file, k, r)
    BY <1>2, <2>2, <2>3, <2>4, MovementsHaveParents
  <2>5. \A k \in R : /\ k \in 1..Lines(file) /\ Type(file) = "MIXED_PRODUCT_EXPORT"
                     /\ ~IsProduct(file, k) /\ IsMovement(file, k)
    BY DEF ChildRows
  <2> HIDE DEF R, file
  <2> QED BY <1>1, <1>2, <2>1, <2>4, <2>5 DEF Having
<1> QED BY <1>4, <1>5, <1>6

\* So a batch that leaves what the parser made of its file has all of it.
LEMMA WholeFileHoldsAll ==
    ASSUME NEW b, tx[b].file \in Files, Accepted(Content[tx[b].file]), WholeFile(b)
    PROVE  HoldsAllOf(b, tx[b].file)
BY StockCounts, MovementCounts DEF WholeFile, HoldsAllOf

-----------------------------------------------------------------------------
(* What upsert_batch makes of the contacts, one after the other.           *)

ContactRow == [{"name", "external_ref"} -> Values]

ContactsTyped == \A k \in ContactIds : rows[k] \in ContactRow \cup {None}

Start0(byRef, byName) == [mine |-> Contacted, byRef |-> byRef, byName |-> byName, next |-> 1]

\* After n contacts: the indexes lead to contacts that are there, and as many
\* are new at most.
Upserts(acc, n) ==
    /\ OnKeys(acc.mine) /\ \A r \in Refs : acc.mine[r] = None
    /\ acc.byRef \in [Suppliers -> ContactIds \cup {None}]
    /\ acc.byName \in [Names -> ContactIds \cup {None}]
    /\ acc.next \in 1..n + 1
    /\ ContactsTyped =>
          /\ \A k \in ContactIds : acc.mine[k] \in ContactRow \cup {None}
          /\ \A v \in Suppliers : acc.byRef[v] # None => acc.mine[acc.byRef[v]] # None
          /\ \A v \in Names : acc.byName[v] # None => acc.mine[acc.byName[v]] # None

\* The pass over the contacts is what its definition says: one after the other.
LEMMA UpsertingByContact ==
    ASSUME NEW i, NEW byRef, NEW byName, Len(Data(i).contacts) \in Nat
    PROVE  LET acc == Upserting(i, byRef, byName)
           IN  /\ acc[0] = Start0(byRef, byName)
               /\ \A n \in 1..Len(Data(i).contacts) :
                     acc[n] = UpsertContact(i, acc[n - 1], Data(i).contacts[n])
<1> DEFINE contacts == Data(i).contacts
           N == Len(contacts)
           first == Start0(byRef, byName)
           Pass(d, n) == d = [k \in 0..n |-> IF k = 0 THEN first
                                             ELSE UpsertContact(i, d[k - 1], contacts[k])]
           T == {n \in Nat : \E d : Pass(d, n)}
           acc == Upserting(i, byRef, byName)
<1>5. acc = CHOOSE d : Pass(d, N) BY DEF Upserting, Start0
<1> HIDE DEF contacts, first
<1>1. 0 \in T
  <2>1. Pass([k \in 0..0 |-> first], 0) OBVIOUS
  <2> QED BY <2>1
<1>2. ASSUME NEW n \in Nat, n \in T PROVE n + 1 \in T
  <2>1. PICK d : Pass(d, n) BY <1>2
  <2> DEFINE next == UpsertContact(i, d[n], contacts[n + 1])
             e == [k \in 0..n + 1 |-> IF k = n + 1 THEN next ELSE d[k]]
  <2> HIDE DEF next
  <2>3. \A k \in 0..n + 1 : e[k] = IF k = 0 THEN first
                                    ELSE UpsertContact(i, e[k - 1], contacts[k])
    <3> SUFFICES ASSUME NEW k \in 0..n + 1
                 PROVE  e[k] = IF k = 0 THEN first ELSE UpsertContact(i, e[k - 1], contacts[k])
      OBVIOUS
    <3>1. CASE k = n + 1
      <4>1. e[k - 1] = d[n] /\ e[k] = next /\ k # 0 BY <3>1
      <4> QED BY <3>1, <4>1 DEF next
    <3>2. CASE k # n + 1
      <4>1. k \in 0..n /\ e[k] = d[k] /\ (k # 0 => e[k - 1] = d[k - 1]) BY <3>2
      <4>2. d[k] = IF k = 0 THEN first ELSE UpsertContact(i, d[k - 1], contacts[k])
        <5>1. d = [j \in 0..n |-> IF j = 0 THEN first
                                  ELSE UpsertContact(i, d[j - 1], contacts[j])]
          BY <2>1
        <5> HIDE DEF e
        <5> QED BY <4>1, <5>1, Zenon
      <4> QED BY <4>1, <4>2
    <3> QED BY <3>1, <3>2
  <2>4. e = [k \in 0..n + 1 |-> e[k]] OBVIOUS
  <2> HIDE DEF e
  <2>5. Pass(e, n + 1) BY <2>3, <2>4, Zenon
  <2> QED BY <2>5
<1> HIDE DEF T, acc
<1>3. N \in Nat BY DEF contacts
<1> HIDE DEF N
<1>4. N \in T BY <1>1, <1>2, <1>3, InductionOnNat
<1>6. \E d : Pass(d, N) BY <1>4 DEF T
<1>7. acc = [k \in 0..N |-> IF k = 0 THEN first ELSE UpsertContact(i, acc[k - 1], contacts[k])]
  BY <1>5, <1>6
<1>8. \A k \in 0..N : acc[k] = IF k = 0 THEN first ELSE UpsertContact(i, acc[k - 1], contacts[k])
  BY <1>7, Zenon
<1>9. 0 \in 0..N /\ \A k \in 1..N : k \in 0..N /\ k # 0 BY <1>3
<1>10. acc[0] = first /\ \A k \in 1..N : acc[k] = UpsertContact(i, acc[k - 1], contacts[k])
  BY <1>8, <1>9, Zenon
<1> QED BY <1>10 DEF acc, first, N, contacts

\* An index that upsert_batch looks contacts up in names contacts that are there.
LEMMA IndexTypes ==
    ASSUME NEW values, NEW column, NEW index \in Indexes(column, values)
    PROVE  /\ index \in [values -> ContactIds \cup {None}]
           /\ \A v \in values : index[v] # None => Contacted[index[v]] # None
<1>1. index \in [values -> ContactIds \cup {None}] BY DEF Indexes
<1>2. ASSUME NEW v \in values, index[v] # None PROVE Contacted[index[v]] # None
  <2>1. index[v] \in {k \in ContactIds : rows[k] # None /\ rows[k][column] = v}
    BY <1>2 DEF Indexes
  <2>2. index[v] \in Keys BY <2>1 DEF Keys
  <2> QED BY <2>1, <2>2 DEF Contacted
<1> QED BY <1>1, <1>2

\* One contact more: one that is found is at a key that an index gives, a new
\* one at a key of this batch.
LEMMA UpsertsNext ==
    ASSUME NEW i \in Imports, NEW n \in Nat, n + 1 <= MaxContacts, NEW acc, Upserts(acc, n),
           NEW contact \in Contact
    PROVE  Upserts(UpsertContact(i, acc, contact), n + 1)
<1> DEFINE new == UpsertContact(i, acc, contact)
           byRef == IF contact.ref = None THEN None ELSE acc.byRef[contact.ref]
           found == IF byRef # None THEN byRef ELSE acc.byName[contact.name]
           key   == IF found = None THEN <<i, acc.next>> ELSE found
           indexed == IF contact.ref = None THEN acc.byRef
                      ELSE [acc.byRef EXCEPT ![contact.ref] = key]
           named == IF found = None THEN [acc.byName EXCEPT ![contact.name] = key]
                    ELSE acc.byName
           Field(c) == IF c = "name" THEN contact.name
                       ELSE IF found = None \/ contact.ref # None THEN contact.ref
                       ELSE acc.mine[key][c]
           row == [c \in {"name", "external_ref"} |-> Field(c)]
<1>1. /\ contact.ref \in Suppliers \cup {None} /\ contact.name \in Names
      /\ acc.next \in Nat /\ acc.next \in 1..n + 1
  BY DEF Contact, Upserts
<1>2. acc.byName[contact.name] \in ContactIds \cup {None} /\ byRef \in ContactIds \cup {None}
  BY <1>1 DEF Upserts
<1>3. key \in ContactIds
  <2>1. acc.next \in 1..MaxContacts BY <1>1, BoundAssumption
  <2>2. <<i, acc.next>> \in ContactIds BY <2>1 DEF ContactIds
  <2> HIDE DEF byRef
  <2> QED BY <1>2, <2>2
<1>4. key \in Keys /\ key \notin Refs BY <1>3, KeysAssumption DEF Keys
<1>5. /\ new.mine = [acc.mine EXCEPT ![key] = row] /\ new.byRef = indexed
      /\ new.byName = named /\ new.next = IF found = None THEN acc.next + 1 ELSE acc.next
  <2>1. new = IF found = None THEN NewContact(i, acc, contact)
              ELSE KnownContact(found, acc, contact)
    BY DEF UpsertContact
  <2> HIDE DEF new, byRef
  <2>2. CASE found = None
    <3>1. new = NewContact(i, acc, contact) /\ key = <<i, acc.next>> BY <2>1, <2>2
    <3>2. row = [c \in {"name", "external_ref"} |-> IF c = "name" THEN contact.name
                                                    ELSE contact.ref]
      BY <2>2
    <3>3. named = [acc.byName EXCEPT ![contact.name] = key] BY <2>2
    <3> HIDE DEF key, row, found, named
    <3> QED BY <2>2, <3>1, <3>2, <3>3 DEF NewContact
  <2>3. CASE found # None
    <3>1. new = KnownContact(key, acc, contact) BY <2>1, <2>3
    <3>2. row = [c \in {"name", "external_ref"} |->
                    IF c = "name" THEN contact.name
                    ELSE IF contact.ref # None THEN contact.ref ELSE acc.mine[key][c]]
      BY <2>3
    <3>3. named = acc.byName BY <2>3
    <3> HIDE DEF key, row, found, named
    <3> QED BY <2>3, <3>1, <3>2, <3>3 DEF KnownContact
  <2> QED BY <2>2, <2>3
<1>6. ASSUME ContactsTyped PROVE row \in ContactRow /\ row # None
  <2>1. contact.name \in Values /\ contact.ref \in Values BY <1>1 DEF Values
  <2>2. ASSUME found # None, contact.ref = None PROVE acc.mine[key]["external_ref"] \in Values
    <3>1. key = acc.byName[contact.name] /\ key # None BY <2>2
    <3>2. acc.mine[key] # None BY <1>1, <1>6, <3>1 DEF Upserts
    <3>3. acc.mine[key] \in ContactRow BY <1>3, <1>6, <3>2 DEF Upserts
    <3> QED BY <3>3 DEF ContactRow
  <2>3. \A c \in {"name", "external_ref"} : Field(c) \in Values BY <2>1, <2>2
  <2> HIDE DEF Field
  <2>4. row \in ContactRow BY <2>3 DEF ContactRow
  <2> QED BY <2>4 DEF ContactRow, Row
<1> HIDE DEF new, byRef, found, row
<1>7. \A k \in Keys : new.mine[k] = IF k = key THEN row ELSE acc.mine[k]
  <2>1. acc.mine = [k \in Keys |-> acc.mine[k]] BY DEF Upserts, OnKeys
  <2> HIDE DEF key
  <2> QED BY <1>4, <1>5, <2>1
<1>8. OnKeys(new.mine) /\ \A r \in Refs : new.mine[r] = None
  <2>1. OnKeys(new.mine)
    <3>1. acc.mine = [k \in Keys |-> acc.mine[k]] BY DEF Upserts, OnKeys
    <3> HIDE DEF key
    <3> QED BY <1>5, <3>1 DEF OnKeys
  <2>2. \A r \in Refs : r \in Keys /\ r # key BY <1>4 DEF Keys
  <2> HIDE DEF key
  <2> QED BY <1>7, <2>1, <2>2 DEF Upserts
<1>9. /\ indexed \in [Suppliers -> ContactIds \cup {None}]
      /\ \A v \in Suppliers : indexed[v] = key \/ indexed[v] = acc.byRef[v]
      /\ named \in [Names -> ContactIds \cup {None}]
      /\ \A v \in Names : named[v] = key \/ named[v] = acc.byName[v]
  <2> HIDE DEF key
  <2> QED BY <1>1, <1>3 DEF Upserts
<1>10. new.next \in 1..(n + 1) + 1 BY <1>1, <1>5
<1>11. ASSUME ContactsTyped
       PROVE  /\ \A k \in ContactIds : new.mine[k] \in ContactRow \cup {None}
              /\ \A v \in Suppliers : indexed[v] # None => new.mine[indexed[v]] # None
              /\ \A v \in Names : named[v] # None => new.mine[named[v]] # None
  <2>1. \A k \in ContactIds : k \in Keys BY DEF Keys
  <2>2. \A k \in ContactIds : acc.mine[k] # None => new.mine[k] # None
    BY <1>6, <1>7, <1>11, <2>1
  <2>3. new.mine[key] # None BY <1>4, <1>6, <1>7, <1>11
  <2>4. \A k \in ContactIds : new.mine[k] \in ContactRow \cup {None}
    BY <1>6, <1>7, <1>11, <2>1 DEF Upserts
  <2> HIDE DEF key, indexed, named
  <2>5. ASSUME NEW v \in Suppliers, indexed[v] # None PROVE new.mine[indexed[v]] # None
    <3>1. CASE indexed[v] = key BY <2>3, <3>1
    <3>2. CASE indexed[v] = acc.byRef[v]
      <4>1. acc.mine[acc.byRef[v]] # None /\ acc.byRef[v] \in ContactIds
        BY <1>9, <1>11, <2>5, <3>2 DEF Upserts
      <4> QED BY <2>2, <3>2, <4>1
    <3> QED BY <1>9, <3>1, <3>2
  <2>6. ASSUME NEW v \in Names, named[v] # None PROVE new.mine[named[v]] # None
    <3>1. CASE named[v] = key BY <2>3, <3>1
    <3>2. CASE named[v] = acc.byName[v]
      <4>1. acc.mine[acc.byName[v]] # None /\ acc.byName[v] \in ContactIds
        BY <1>9, <1>11, <2>6, <3>2 DEF Upserts
      <4> QED BY <2>2, <3>2, <4>1
    <3> QED BY <1>9, <3>1, <3>2
  <2> QED BY <2>4, <2>5, <2>6
<1> HIDE DEF indexed, named
<1> QED BY <1>5, <1>8, <1>9, <1>10, <1>11 DEF Upserts, new

\* So the session ends up with contacts alone.
LEMMA UpsertedTypes ==
    ASSUME NEW i \in Imports, tx[i].file \in Files, Accepted(Content[tx[i].file]),
           NEW byRef \in Indexes("external_ref", Suppliers), NEW byName \in Indexes("name", Names)
    PROVE  LET mine == Upserted(i, byRef, byName)
           IN  /\ OnKeys(mine) /\ \A r \in Refs : mine[r] = None
               /\ ContactsTyped => \A k \in ContactIds : mine[k] \in ContactRow \cup {None}
<1> DEFINE contacts == Data(i).contacts
           N == Len(contacts)
           acc == Upserting(i, byRef, byName)
           T == {n \in Nat : n <= N => Upserts(acc[n], n)}
<1>1. contacts \in Seq(Contact) /\ N \in Nat /\ N <= MaxContacts BY ContactTypes DEF Data
<1>2. /\ acc[0] = Start0(byRef, byName)
      /\ \A n \in 1..N : acc[n] = UpsertContact(i, acc[n - 1], contacts[n])
  BY <1>1, UpsertingByContact
<1>3. Upserts(acc[0], 0)
  <2>1. /\ acc[0].mine = Contacted /\ acc[0].byRef = byRef /\ acc[0].byName = byName
        /\ acc[0].next = 1
    BY <1>2 DEF Start0
  <2>2. /\ OnKeys(Contacted) /\ \A r \in Refs : Contacted[r] = None
        /\ ContactsTyped => \A k \in ContactIds : Contacted[k] \in ContactRow \cup {None}
    BY KeysAssumption DEF OnKeys, Contacted, Keys, ContactsTyped
  <2> HIDE DEF acc
  <2> QED BY <2>1, <2>2, IndexTypes DEF Upserts
<1>4. ASSUME NEW n \in Nat, n \in T PROVE n + 1 \in T
  <2> SUFFICES ASSUME n + 1 <= N PROVE Upserts(acc[n + 1], n + 1) OBVIOUS
  <2>1. Upserts(acc[n], n) BY <1>1, <1>4
  <2>2. n + 1 \in 1..N /\ (n + 1) - 1 = n /\ n + 1 <= MaxContacts BY <1>1, BoundAssumption
  <2>3. contacts[n + 1] \in Contact BY <1>1, <2>2
  <2>4. acc[n + 1] = UpsertContact(i, acc[n], contacts[n + 1]) BY <1>2, <2>2
  <2> HIDE DEF acc, contacts, N
  <2> QED BY <2>1, <2>2, <2>3, <2>4, UpsertsNext
<1>5. 0 \in T BY <1>3
<1> HIDE DEF T
<1>6. N \in T BY <1>1, <1>4, <1>5, InductionOnNat
<1>7. Upserts(acc[N], N) BY <1>1, <1>6 DEF T
<1>8. Upserted(i, byRef, byName) = acc[N].mine BY DEF Upserted
<1> HIDE DEF acc, N
<1> QED BY <1>7, <1>8 DEF Upserts

-----------------------------------------------------------------------------
(* What the steps do to the requests.                                      *)

Others(i) == \A j \in Imports : j # i => tx'[j] = tx[j]

\* The links to add and what it was told stay as they are.
SameEnd(i) == /\ tx'[i].added = tx[i].added /\ tx'[i].missing = tx[i].missing
              /\ tx'[i].told = tx[i].told

\* Some of its fields are.
LEMMA Recast ==
    ASSUME NEW t, Shaped(t), NEW a, NEW b, NEW c, NEW u,
           \/ u = [t EXCEPT !.pc = a, !.base = b, !.mine = c]
           \/ u = [t EXCEPT !.pc = a, !.added = b, !.missing = c]
           \/ u = [t EXCEPT !.next = a, !.base = b, !.mine = c]
           \/ u = [t EXCEPT !.pc = a, !.file = b]
    PROVE  Shaped(u)
<1>1. t \in [pc: {t.pc, a}, file: {t.file, b}, next: {t.next, a}, base: {t.base, b},
            mine: {t.mine, c}, added: {t.added, b}, missing: {t.missing, c}, told: {t.told}]
  BY DEF Shaped
<1>2. u \in [pc: {t.pc, a}, file: {t.file, b}, next: {t.next, a}, base: {t.base, b},
            mine: {t.mine, c}, added: {t.added, b}, missing: {t.missing, c}, told: {t.told}]
  <2>1. CASE u = [t EXCEPT !.pc = a, !.base = b, !.mine = c] BY <1>1, <2>1
  <2>2. CASE u = [t EXCEPT !.pc = a, !.added = b, !.missing = c] BY <1>1, <2>2
  <2>3. CASE u = [t EXCEPT !.next = a, !.base = b, !.mine = c] BY <1>1, <2>3
  <2>4. CASE u = [t EXCEPT !.pc = a, !.file = b] BY <1>1, <2>4
  <2> QED BY <2>1, <2>2, <2>3, <2>4
<1> QED BY <1>2 DEF Shaped

\* A request is replaced.
LEMMA SetRow ==
    ASSUME RequestsTyped, NEW i \in Imports, NEW row, tx' = [tx EXCEPT ![i] = row],
           Shaped(row), OnKeys(row.base), OnKeys(row.mine), row.next \in Nat \ {0}
    PROVE  RequestsTyped' /\ Others(i) /\ tx'[i] = row
<1>1. tx' = [j \in Imports |-> tx'[j]] /\ Others(i) /\ tx'[i] = row
  BY DEF RequestsTyped, Others
<1>2. \A j \in Imports : /\ Shaped(tx'[j]) /\ OnKeys(tx'[j].base) /\ OnKeys(tx'[j].mine)
                         /\ tx'[j].next \in Nat \ {0}
  BY <1>1 DEF RequestsTyped, Others
<1>3. RequestsTyped' BY <1>1, <1>2 DEF RequestsTyped, Shaped, OnKeys
<1> QED BY <1>1, <1>3

\* It moves, and nothing else.
LEMMA PcRow ==
    ASSUME RequestsTyped, NEW i \in Imports, NEW pc, tx' = [tx EXCEPT ![i].pc = pc]
    PROVE  /\ RequestsTyped' /\ Others(i)
           /\ tx'[i].pc = pc /\ tx'[i].file = tx[i].file
           /\ tx'[i].base = tx[i].base /\ tx'[i].mine = tx[i].mine
           /\ tx'[i].next = tx[i].next /\ SameEnd(i)
<1> DEFINE row == [tx[i] EXCEPT !.pc = pc]
<1>1. Shaped(tx[i]) /\ OnKeys(tx[i].base) /\ OnKeys(tx[i].mine) /\ tx[i].next \in Nat \ {0}
  BY DEF RequestsTyped
<1>2. /\ Shaped(row) /\ row.pc = pc /\ row.file = tx[i].file /\ row.base = tx[i].base
      /\ row.mine = tx[i].mine /\ row.next = tx[i].next /\ row.added = tx[i].added
      /\ row.missing = tx[i].missing /\ row.told = tx[i].told
  BY <1>1 DEF Shaped
<1>3. tx' = [tx EXCEPT ![i] = row] OBVIOUS
<1> HIDE DEF row
<1> QED BY <1>1, <1>2, <1>3, SetRow DEF SameEnd

\* It begins.
LEMMA BeginRow ==
    ASSUME RequestsTyped, NEW i \in Imports, NEW f \in Files, Begin(i, f)
    PROVE  /\ RequestsTyped' /\ Others(i)
           /\ tx'[i].pc = "find" /\ tx'[i].file = f
           /\ tx'[i].base = tx[i].base /\ tx'[i].mine = tx[i].mine
           /\ tx'[i].next = tx[i].next /\ SameEnd(i)
<1> DEFINE row == [tx[i] EXCEPT !.pc = "find", !.file = f]
<1>1. Shaped(tx[i]) /\ OnKeys(tx[i].base) /\ OnKeys(tx[i].mine) /\ tx[i].next \in Nat \ {0}
  BY DEF RequestsTyped
<1>2. Shaped(row) BY <1>1, Recast
<1>3. /\ row.pc = "find" /\ row.file = f /\ row.base = tx[i].base
      /\ row.mine = tx[i].mine /\ row.next = tx[i].next /\ row.added = tx[i].added
      /\ row.missing = tx[i].missing /\ row.told = tx[i].told
  BY <1>1 DEF Shaped
<1>4. tx' = [tx EXCEPT ![i] = row] BY DEF Begin
<1> HIDE DEF row
<1> QED BY <1>1, <1>2, <1>3, <1>4, SetRow DEF SameEnd

\* It is over.
LEMMA EndRow ==
    ASSUME RequestsTyped, NEW i \in Imports, NEW pc, NEW told, End(i, pc, told)
    PROVE  /\ RequestsTyped' /\ Others(i)
           /\ tx'[i].pc = pc /\ tx'[i].file = tx[i].file /\ tx'[i].told = told
           /\ tx'[i].base = Unread /\ tx'[i].mine = Unread
           /\ tx'[i].added = <<>> /\ tx'[i].missing = FALSE
<1> DEFINE row == EndAs(i, pc, told)
<1>1. row = [pc |-> pc, file |-> tx[i].file, next |-> 1, base |-> Unread, mine |-> Unread,
             added |-> <<>>, missing |-> FALSE, told |-> told]
  <2>1. Blank = [pc |-> "idle", file |-> None, next |-> 1, base |-> Unread, mine |-> Unread,
                 added |-> <<>>, missing |-> FALSE, told |-> None]
    BY DEF Blank
  <2>2. row = [Blank EXCEPT !.pc = pc, !.file = tx[i].file, !.told = told] BY DEF EndAs
  <2> HIDE DEF row
  <2> QED BY <2>1, <2>2
<1>2. tx' = [tx EXCEPT ![i] = row] BY DEF End
<1> HIDE DEF row
<1>3. Shaped(row) BY <1>1 DEF Shaped
<1>4. /\ row.pc = pc /\ row.file = tx[i].file /\ row.told = told
      /\ row.base = Unread /\ row.mine = Unread /\ row.next \in Nat \ {0}
      /\ row.added = <<>> /\ row.missing = FALSE
  BY <1>1
<1>5. OnKeys(row.base) /\ OnKeys(row.mine) BY <1>4 DEF OnKeys, Unread
<1> QED BY <1>2, <1>3, <1>4, <1>5, SetRow

\* The steps of a session: it ends up in "persist" or "commit", and none of the
\* rows of products it had read loses a price.
LEMMA ProductUpserted ==
    ASSUME RequestsTyped, Begun, NEW i \in Imports, UpsertProduct(i)
    PROVE  LET p    == Data(i).products[tx[i].next]
               seen == tx[i].mine[p.ref] # None
               row  == IF seen THEN tx[i].mine[p.ref] ELSE rows[p.ref]
           IN  /\ RequestsTyped' /\ Others(i)
               /\ tx'[i].pc = tx[i].pc /\ tx'[i].file = tx[i].file
               /\ tx'[i].next = tx[i].next + 1 /\ SameEnd(i)
               /\ \A k \in ContactIds : tx'[i].base[k] = tx[i].base[k]
                                        /\ tx'[i].mine[k] = tx[i].mine[k]
               /\ \A r \in Refs :
                     /\ tx'[i].base[r] = IF r = p.ref /\ ~seen THEN row ELSE tx[i].base[r]
                     /\ tx'[i].mine[r] = IF r # p.ref THEN tx[i].mine[r]
                                         ELSE IF row = None THEN Created(p) ELSE Updated(row, p)
<1> DEFINE p    == Data(i).products[tx[i].next]
           seen == tx[i].mine[p.ref] # None
           row  == IF seen THEN tx[i].mine[p.ref] ELSE rows[p.ref]
           base == [tx[i].base EXCEPT ![p.ref] = IF seen THEN @ ELSE row]
           mine == [tx[i].mine EXCEPT ![p.ref] = IF row = None THEN Created(p)
                                                 ELSE Updated(row, p)]
           new  == [tx[i] EXCEPT !.next = tx[i].next + 1, !.base = base, !.mine = mine]
<1>1. Shaped(tx[i]) /\ OnKeys(tx[i].base) /\ OnKeys(tx[i].mine) /\ tx[i].next \in Nat \ {0}
  BY DEF RequestsTyped
<1>2. tx' = [tx EXCEPT ![i] = new] BY DEF UpsertProduct
<1>9. \A k \in ContactIds : k # p.ref
  <2>1. Data(i).products \in Seq(Product) /\ tx[i].next <= Len(Data(i).products)
    BY ProductTypes DEF UpsertProduct, At, Begun, Data
  <2>2. p \in Product BY <1>1, <2>1
  <2> QED BY <2>2, KeysAssumption DEF Product
<1> HIDE DEF p, seen, row
<1>10. \A k \in ContactIds : base[k] = tx[i].base[k] /\ mine[k] = tx[i].mine[k]
  BY <1>1, <1>9 DEF OnKeys, Keys
<1>3. OnKeys(base) /\ OnKeys(mine) BY <1>1 DEF OnKeys
<1>4. \A r \in Refs :
         /\ base[r] = IF r = p.ref /\ ~seen THEN row ELSE tx[i].base[r]
         /\ mine[r] = IF r # p.ref THEN tx[i].mine[r]
                      ELSE IF row = None THEN Created(p) ELSE Updated(row, p)
  BY <1>1 DEF OnKeys, Keys
<1> HIDE DEF base, mine
<1>5. Shaped(new) BY <1>1, Recast
<1>6. /\ new.pc = tx[i].pc /\ new.file = tx[i].file
      /\ new.base = base /\ new.mine = mine /\ new.next = tx[i].next + 1
      /\ new.added = tx[i].added /\ new.missing = tx[i].missing /\ new.told = tx[i].told
  BY <1>1 DEF Shaped
<1>8. new.next \in Nat \ {0} BY <1>1, <1>6
<1> HIDE DEF new
<1>7. RequestsTyped' /\ Others(i) /\ tx'[i] = new
  BY <1>2, <1>3, <1>5, <1>6, <1>8, SetRow
<1> QED BY <1>4, <1>6, <1>7, <1>10 DEF p, seen, row, SameEnd

\* After it the request is at its commit, with contacts where it had them.
LEMMA ContactsUpserted ==
    ASSUME RequestsTyped, Begun, NEW i \in Imports, UpsertContacts(i)
    PROVE  /\ RequestsTyped' /\ Others(i)
           /\ tx'[i].pc = "commit" /\ tx'[i].file = tx[i].file
           /\ tx'[i].next = tx[i].next /\ SameEnd(i)
           /\ \A r \in Refs : tx'[i].base[r] = None /\ tx'[i].mine[r] = None
           /\ \A k \in ContactIds : tx'[i].base[k] = rows[k]
           /\ ContactsTyped => \A k \in ContactIds : tx'[i].mine[k] \in ContactRow \cup {None}
<1>1. PICK byRef \in Indexes("external_ref", Suppliers), byName \in Indexes("name", Names) :
         tx' = [tx EXCEPT ![i] = [tx[i] EXCEPT !.pc = "commit", !.base = Contacted,
                                              !.mine = Upserted(i, byRef, byName)]]
  BY DEF UpsertContacts
<1> DEFINE mine == Upserted(i, byRef, byName)
           row == [tx[i] EXCEPT !.pc = "commit", !.base = Contacted, !.mine = mine]
<1>2. /\ OnKeys(mine) /\ \A r \in Refs : mine[r] = None
      /\ ContactsTyped => \A k \in ContactIds : mine[k] \in ContactRow \cup {None}
  BY UpsertedTypes DEF UpsertContacts, At, Begun
<1>3. /\ OnKeys(Contacted) /\ \A r \in Refs : Contacted[r] = None
      /\ \A k \in ContactIds : Contacted[k] = rows[k]
  BY KeysAssumption DEF Contacted, OnKeys, Keys
<1> HIDE DEF mine
<1>4. Shaped(tx[i]) /\ tx[i].next \in Nat \ {0} BY DEF RequestsTyped
<1>5. /\ row.pc = "commit" /\ row.file = tx[i].file /\ row.base = Contacted
      /\ row.mine = mine /\ row.next = tx[i].next /\ row.added = tx[i].added
      /\ row.missing = tx[i].missing /\ row.told = tx[i].told
  BY <1>4 DEF Shaped
<1>6. Shaped(row) BY <1>4, Recast
<1>7. tx' = [tx EXCEPT ![i] = row] BY <1>1 DEF mine
<1> HIDE DEF row
<1>8. OnKeys(row.base) /\ OnKeys(row.mine) /\ row.next \in Nat \ {0} BY <1>2, <1>3, <1>4, <1>5
<1>9. RequestsTyped' /\ Others(i) /\ tx'[i] = row BY <1>6, <1>7, <1>8, SetRow
<1> QED BY <1>2, <1>3, <1>5, <1>9 DEF SameEnd

LinksOf(products, contact, S) ==
    LET new == Picked(products, S)
    IN  [n \in DOMAIN new |-> [ref |-> new[n].ref, supplier |-> new[n].supplier,
                               contact |-> contact[new[n].supplier]]]

\* The links to add are of products of the file and contacts that are there.
LEMMA LinksTyped ==
    ASSUME NEW products \in Seq(Product),
           NEW refs, refs = {products[n].supplier : n \in DOMAIN products} \ {None},
           NEW contact \in [refs -> ContactIds \cup {None}], NEW S \in SUBSET DOMAIN products,
           \A n \in S : products[n].supplier # None /\ contact[products[n].supplier] # None
    PROVE  LinksOf(products, contact, S) \in Seq(Link)
<1> DEFINE T == {p \in Product : /\ p.supplier \in refs /\ p.supplier \in Suppliers
                                 /\ contact[p.supplier] \in ContactIds}
           N == Len(products)
           new == Picked(products, S)
<1>1. N \in Nat /\ S \in SUBSET (1..N) OBVIOUS
<1>2. \A n \in S : products[n] \in T
  <2> SUFFICES ASSUME NEW n \in S PROVE products[n] \in T OBVIOUS
  <2>1. products[n] \in Product /\ products[n].supplier \in refs OBVIOUS
  <2>2. products[n].supplier \in Suppliers BY <2>1 DEF Product
  <2> QED BY <2>1, <2>2
<1> HIDE DEF T, N
<1>3. new \in Seq(T) BY <1>1, <1>2, PickedType
<1> HIDE DEF new
<1> DEFINE M == Len(new)
<1>4. M \in Nat /\ DOMAIN new = 1..M BY <1>3
<1>5. \A n \in DOMAIN new : new[n] \in T BY <1>3
<1>6. \A p \in T : [ref |-> p.ref, supplier |-> p.supplier, contact |-> contact[p.supplier]]
                      \in Link
  BY DEF T, Product, Link
<1> HIDE DEF M
<1>7. \A n \in DOMAIN new : [ref |-> new[n].ref, supplier |-> new[n].supplier,
                            contact |-> contact[new[n].supplier]] \in Link
  BY <1>5, <1>6
<1> DEFINE U == Link
<1> HIDE DEF U
<1>8. [n \in DOMAIN new |-> [ref |-> new[n].ref, supplier |-> new[n].supplier,
                            contact |-> contact[new[n].supplier]]] \in [1..M -> U]
  BY <1>4, <1>7 DEF U
<1>9. [n \in DOMAIN new |-> [ref |-> new[n].ref, supplier |-> new[n].supplier,
                            contact |-> contact[new[n].supplier]]] \in Seq(U)
  BY <1>4, <1>8
<1> QED BY <1>9 DEF U, new, LinksOf

\* Linking suppliers leaves the session as it is, with links to add.
LEMMA LinkRows ==
    ASSUME RequestsTyped, Begun, NEW i \in Imports, LinkSuppliers(i)
    PROVE  /\ RequestsTyped' /\ Others(i)
           /\ tx'[i].pc = "commit" /\ tx'[i].file = tx[i].file
           /\ tx'[i].base = tx[i].base /\ tx'[i].mine = tx[i].mine
           /\ tx'[i].next = tx[i].next /\ tx'[i].told = tx[i].told
           /\ tx'[i].added \in Seq(Link) /\ tx'[i].missing \in BOOLEAN
<1> DEFINE products == Data(i).products
           refs == {products[n].supplier : n \in DOMAIN products} \ {None}
<1>1. PICK contact \in Indexes("external_ref", refs) :
         LET New(p) == /\ p.supplier # None
                       /\ contact[p.supplier] # None
                       /\ ~\E l \in links : l.ref = p.ref /\ l.contact = contact[p.supplier]
             new == Picked(products, {n \in DOMAIN products : New(products[n])})
         IN  tx' = [tx EXCEPT ![i] = [tx[i] EXCEPT
                      !.pc = "commit",
                      !.added = [n \in DOMAIN new |->
                                    [ref |-> new[n].ref, supplier |-> new[n].supplier,
                                     contact |-> contact[new[n].supplier]]],
                      !.missing = \E s \in refs : contact[s] = None]]
  BY DEF LinkSuppliers
<1> DEFINE S == {n \in DOMAIN products :
                    /\ products[n].supplier # None /\ contact[products[n].supplier] # None
                    /\ ~\E l \in links : /\ l.ref = products[n].ref
                                         /\ l.contact = contact[products[n].supplier]}
           missing == \E s \in refs : contact[s] = None
           added == LinksOf(products, contact, S)
           row == [tx[i] EXCEPT !.pc = "commit", !.added = added, !.missing = missing]
<1>2. tx' = [tx EXCEPT ![i] = row] BY <1>1 DEF LinksOf
<1>3. added \in Seq(Link)
  <2>1. products \in Seq(Product) BY ProductTypes DEF LinkSuppliers, At, Begun, Data
  <2>2. contact \in [refs -> ContactIds \cup {None}] BY IndexTypes
  <2>3. \A n \in S : products[n].supplier # None /\ contact[products[n].supplier] # None OBVIOUS
  <2>4. S \in SUBSET DOMAIN products OBVIOUS
  <2>5. refs = {products[n].supplier : n \in DOMAIN products} \ {None} OBVIOUS
  <2> HIDE DEF products, refs, S
  <2> QED BY <2>1, <2>2, <2>3, <2>4, <2>5, LinksTyped
<1>4. missing \in BOOLEAN OBVIOUS
<1> HIDE DEF added, missing
<1>5. Shaped(tx[i]) /\ OnKeys(tx[i].base) /\ OnKeys(tx[i].mine) /\ tx[i].next \in Nat \ {0}
  BY DEF RequestsTyped
<1>6. Shaped(row) BY <1>5, Recast
<1>7. /\ row.pc = "commit" /\ row.file = tx[i].file /\ row.base = tx[i].base
      /\ row.mine = tx[i].mine /\ row.next = tx[i].next /\ row.told = tx[i].told
      /\ row.added = added /\ row.missing = missing
  BY <1>5 DEF Shaped
<1> HIDE DEF row
<1> QED BY <1>2, <1>3, <1>4, <1>5, <1>6, <1>7, SetRow

\* Bringing the session up to date touches no other request, nor the file.
LEMMA UpsertRows ==
    ASSUME RequestsTyped, Begun, NEW i \in Imports,
           UpsertProduct(i) \/ UpsertContacts(i) \/ LinkSuppliers(i)
    PROVE  /\ RequestsTyped' /\ Others(i)
           /\ tx'[i].pc \in {"persist", "commit"} /\ tx'[i].file = tx[i].file
BY ProductUpserted, ContactsUpserted, LinkRows DEF UpsertProduct, At

-----------------------------------------------------------------------------
(* Batches.                                                                *)

OneActive ==
    \A b, d \in Imports : batches[b] \in Active /\ batches[d] \in Active /\ b # d
                          => tx[b].file # tx[d].file

ToldOfAnother(i) ==
    \E b \in Imports \ {i} :
        /\ tx[b].file = tx[i].file /\ batches[b] # None
        /\ IF tx[i].told = None THEN batches[b] = "FAILED" ELSE tx[i].told = b

\* The two halves of the property.
LEMMA Halves ==
    OneImportPerFile <=> OneActive /\ \A i \in Imports : At(i, "already") => ToldOfAnother(i)
BY DEF OneImportPerFile, OneActive, ToldOfAnother

BatchInv == Begun /\ OneImportPerFile /\ WholeOrNothing

\* A step that leaves the batches and what they hold alone.
LEMMA BatchFrame ==
    ASSUME BatchInv, UNCHANGED <<batches, stock, moves>>, NEW i \in Imports, Others(i),
           tx'[i].file = tx[i].file, tx[i].pc # "idle", tx'[i].pc # "idle",
           tx'[i].pc \in {"find", "create", "lost", "already"} => batches[i] = None,
           tx'[i].pc \in {"persist", "commit"} => tx[i].pc \in {"persist", "commit"},
           tx'[i].pc = "lost" => \E b \in Imports \ {i} :
               tx[b].pc # "idle" /\ tx[b].file = tx[i].file /\ batches[b] # None,
           tx'[i].pc = "already" => ToldOfAnother(i)'
    PROVE  BatchInv'
<1> USE DEF BatchInv
<1>1. \A j \in Imports : tx'[j].file = tx[j].file BY DEF Others
<1>2. \A j \in Imports : tx[j].pc # "idle" <=> tx'[j].pc # "idle" BY DEF Others
<1>3. Begun'
  <2> SUFFICES ASSUME NEW j \in Imports
               PROVE  /\ tx'[j].pc # "idle" => tx'[j].file \in Files
                                               /\ Accepted(Content[tx'[j].file])
                      /\ tx'[j].pc \in {"idle", "find", "create", "lost", "already"} =>
                            batches[j] = None
                      /\ tx'[j].pc \in {"persist", "commit"} => batches[j] = "PROCESSING"
                      /\ tx'[j].pc = "lost" => \E b \in Imports \ {j} :
                            tx'[b].pc # "idle" /\ tx'[b].file = tx'[j].file /\ batches[b] # None
    BY DEF Begun
  <2>1. CASE j = i BY <1>1, <1>2, <2>1 DEF Begun
  <2>2. CASE j # i BY <1>1, <1>2, <2>2 DEF Begun, Others
  <2> QED BY <2>1, <2>2
<1>4. OneImportPerFile'
  <2>1. OneActive' BY <1>1, Halves DEF OneActive
  <2>2. ASSUME NEW j \in Imports, At(j, "already")' PROVE ToldOfAnother(j)'
    <3>1. CASE j = i BY <2>2, <3>1 DEF At
    <3>2. CASE j # i
      <4>1. tx'[j] = tx[j] BY <3>2 DEF Others
      <4>2. ToldOfAnother(j) BY <2>2, <4>1, Halves DEF At
      <4> QED BY <1>1, <4>1, <4>2 DEF ToldOfAnother
    <3> QED BY <3>1, <3>2
  <2> QED BY <2>1, <2>2 DEF OneImportPerFile, OneActive, ToldOfAnother
<1>5. WholeOrNothing'
  <2> SUFFICES ASSUME NEW b \in Imports
               PROVE  \/ stock[b] = <<>> /\ moves[b] = <<>> /\ batches[b] \notin Complete
                      \/ WholeFile(b)' /\ tx'[b].pc \notin {"persist", "commit"}
                                       /\ batches[b] # None
    BY DEF WholeOrNothing
  <2>1. WholeFile(b)' <=> WholeFile(b) BY <1>1 DEF WholeFile
  <2> QED BY <2>1 DEF WholeOrNothing, Others
<1> QED BY <1>3, <1>4, <1>5

\* The steps that do.
LEMMA QuietBatches ==
    ASSUME RequestsTyped, DatabaseTyped, BatchInv, NEW i \in Imports,
           \/ FindActive(i) \/ FindNone(i) \/ CreateRefused(i) \/ FindWinner(i)
           \/ UpsertProduct(i) \/ UpsertContacts(i) \/ LinkSuppliers(i) \/ Fail(i) \/ Die(i)
    PROVE  BatchInv'
<1> USE DEF BatchInv
<1>1. CASE FindActive(i)
  <2>1. PICK b \in ActiveBatches(tx[i].file) : End(i, "already", b) BY <1>1 DEF FindActive
  <2>2. Others(i) /\ tx'[i].pc = "already" /\ tx'[i].told = b /\ tx'[i].file = tx[i].file
    BY <2>1, EndRow
  <2>3. tx[i].pc = "find" /\ UNCHANGED <<batches, stock, moves>>
    BY <1>1 DEF FindActive, At, database
  <2>4. batches[i] = None BY <2>3 DEF Begun
  <2>5. b \in Imports \ {i} /\ batches[b] # None /\ tx[b].file = tx[i].file
    BY <2>4 DEF ActiveBatches
  <2>6. ToldOfAnother(i)' BY <2>2, <2>3, <2>5 DEF ToldOfAnother, Others
  <2> QED BY <2>2, <2>3, <2>4, <2>6, BatchFrame
<1>2. CASE FindNone(i)
  <2>1. tx' = [tx EXCEPT ![i].pc = "create"] BY <1>2 DEF FindNone
  <2>2. Others(i) /\ tx'[i].pc = "create" /\ tx'[i].file = tx[i].file BY <2>1, PcRow
  <2>3. tx[i].pc = "find" /\ UNCHANGED <<batches, stock, moves>>
    BY <1>2 DEF FindNone, At, database
  <2>4. batches[i] = None BY <2>3 DEF Begun
  <2> QED BY <2>2, <2>3, <2>4, BatchFrame
<1>3. CASE CreateRefused(i)
  <2>1. tx' = [tx EXCEPT ![i].pc = "lost"] BY <1>3 DEF CreateRefused
  <2>2. Others(i) /\ tx'[i].pc = "lost" /\ tx'[i].file = tx[i].file BY <2>1, PcRow
  <2>3. tx[i].pc = "create" /\ UNCHANGED <<batches, stock, moves>>
    BY <1>3 DEF CreateRefused, At, database
  <2>4. batches[i] = None BY <2>3 DEF Begun
  <2>5. PICK b \in Imports : batches[b] \in Active /\ tx[b].file = tx[i].file
    BY <1>3 DEF CreateRefused, ActiveBatches
  <2>6. b # i /\ tx[b].pc # "idle" /\ batches[b] # None BY <2>4, <2>5 DEF Begun
  <2> QED BY <2>2, <2>3, <2>4, <2>5, <2>6, BatchFrame
<1>4. CASE FindWinner(i)
  <2>1. PICK b \in ActiveBatches(tx[i].file) \cup {None} :
           (b = None <=> ActiveBatches(tx[i].file) = {}) /\ End(i, "already", b)
    BY <1>4 DEF FindWinner
  <2>2. Others(i) /\ tx'[i].pc = "already" /\ tx'[i].told = b /\ tx'[i].file = tx[i].file
    BY <2>1, EndRow
  <2>3. tx[i].pc = "lost" /\ UNCHANGED <<batches, stock, moves>>
    BY <1>4 DEF FindWinner, At, database
  <2>4. batches[i] = None BY <2>3 DEF Begun
  <2>5. PICK d \in Imports \ {i} : tx[d].file = tx[i].file /\ batches[d] # None
    BY <2>3 DEF Begun
  <2>6. ASSUME b = None PROVE ToldOfAnother(i)'
    <3>1. batches[d] \notin Active BY <2>1, <2>5, <2>6 DEF ActiveBatches
    <3>2. batches[d] = "FAILED" BY <2>5, <3>1 DEF DatabaseTyped
    <3>3. tx'[i].told = None /\ tx'[d].file = tx'[i].file /\ batches'[d] = "FAILED"
      BY <2>2, <2>3, <2>5, <2>6, <3>2 DEF Others
    <3> QED BY <2>5, <3>3 DEF ToldOfAnother
  <2>7. ASSUME b # None PROVE ToldOfAnother(i)'
    <3>1. b \in Imports \ {i} /\ batches[b] # None /\ tx[b].file = tx[i].file
      BY <2>1, <2>4, <2>7 DEF ActiveBatches
    <3>2. tx'[i].told = b /\ tx'[b].file = tx'[i].file /\ batches'[b] # None
      BY <2>2, <2>3, <3>1 DEF Others
    <3> QED BY <2>7, <3>1, <3>2 DEF ToldOfAnother
  <2>8. ToldOfAnother(i)'
    BY <2>6, <2>7
  <2> QED BY <2>2, <2>3, <2>4, <2>8, BatchFrame
<1>5. CASE UpsertProduct(i) \/ UpsertContacts(i) \/ LinkSuppliers(i)
  <2>1. Others(i) /\ tx'[i].pc \in {"persist", "commit"} /\ tx'[i].file = tx[i].file
    BY <1>5, UpsertRows
  <2>2. tx[i].pc = "persist" /\ UNCHANGED <<batches, stock, moves>>
    BY <1>5 DEF UpsertProduct, UpsertContacts, LinkSuppliers, At, database
  <2> QED BY <2>1, <2>2, BatchFrame
<1>6. CASE Fail(i) \/ Die(i)
  <2>1. PICK pc \in {"failing", "dead"} : End(i, pc, None) BY <1>6 DEF Fail, Die
  <2>2. Others(i) /\ tx'[i].pc = pc /\ tx'[i].file = tx[i].file BY <2>1, EndRow
  <2>3. tx[i].pc # "idle" /\ UNCHANGED <<batches, stock, moves>>
    BY <1>6 DEF Fail, Die, Running, database
  <2> QED BY <2>2, <2>3, BatchFrame
<1> QED BY <1>1, <1>2, <1>3, <1>4, <1>5, <1>6

\* Who was told of no batch has a failed one to show for it, also when i has
\* this status.
FailureStays(i, status) ==
    \A j \in Imports : j # i /\ At(j, "already") /\ tx[j].told = None =>
        \E b \in Imports \ {j} : /\ tx[b].file = tx[j].file
                                 /\ batches[b] = "FAILED" /\ (b = i => status = "FAILED")

\* A step that gives a batch its next status: it is the request's own, which
\* was not counted or stays the only one of its file.
LEMMA BatchStep ==
    ASSUME RequestsTyped, DatabaseTyped, BatchInv, NEW i \in Imports, Others(i),
           NEW status, batches' = [batches EXCEPT ![i] = status], status # None,
           tx'[i].file = tx[i].file, tx[i].pc # "idle",
           tx'[i].pc \notin {"idle", "find", "create", "lost", "already"},
           tx'[i].pc \in {"persist", "commit"} => status = "PROCESSING",
           status \in Active => \A b \in Imports \ {i} :
               batches[b] \in Active => tx[b].file # tx[i].file,
           \A b \in Imports \ {i} : stock'[b] = stock[b] /\ moves'[b] = moves[b],
           \/ stock'[i] = <<>> /\ moves'[i] = <<>> /\ status \notin Complete
           \/ WholeFile(i)' /\ tx'[i].pc \notin {"persist", "commit"},
           FailureStays(i, status)
    PROVE  BatchInv'
<1> USE DEF BatchInv
<1>1. /\ batches'[i] = status
      /\ \A j \in Imports \ {i} : batches'[j] = batches[j] /\ tx'[j] = tx[j]
  BY DEF DatabaseTyped, Others
<1>2. \A j \in Imports : /\ tx'[j].file = tx[j].file
                         /\ tx[j].pc # "idle" => tx'[j].pc # "idle"
                         /\ batches[j] # None => batches'[j] # None
  BY <1>1
<1>3. Begun'
  <2> SUFFICES ASSUME NEW j \in Imports
               PROVE  /\ tx'[j].pc # "idle" => tx'[j].file \in Files
                                               /\ Accepted(Content[tx'[j].file])
                      /\ tx'[j].pc \in {"idle", "find", "create", "lost", "already"} =>
                            batches'[j] = None
                      /\ tx'[j].pc \in {"persist", "commit"} => batches'[j] = "PROCESSING"
                      /\ tx'[j].pc = "lost" => \E b \in Imports \ {j} :
                            tx'[b].pc # "idle" /\ tx'[b].file = tx'[j].file /\ batches'[b] # None
    BY DEF Begun
  <2>1. CASE j = i BY <1>1, <1>2, <2>1 DEF Begun
  <2>2. CASE j # i
    <3>1. tx'[j] = tx[j] /\ batches'[j] = batches[j] BY <1>1, <2>2
    <3>2. ASSUME tx[j].pc = "lost"
          PROVE  \E b \in Imports \ {j} :
                     tx'[b].pc # "idle" /\ tx'[b].file = tx'[j].file /\ batches'[b] # None
      BY <1>2, <3>2 DEF Begun
    <3> QED BY <3>1, <3>2 DEF Begun
  <2> QED BY <2>1, <2>2
<1>4. OneActive'
  <2> SUFFICES ASSUME NEW b \in Imports, NEW d \in Imports, b # d,
                      batches'[b] \in Active, batches'[d] \in Active
               PROVE  tx[b].file # tx[d].file
    BY <1>2 DEF OneActive
  <2>1. CASE b # i /\ d # i BY <1>1, <2>1, Halves DEF OneActive
  <2>2. CASE b = i BY <1>1, <2>2
  <2>3. CASE d = i BY <1>1, <2>3
  <2> QED BY <2>1, <2>2, <2>3
<1>5. ASSUME NEW j \in Imports, At(j, "already")' PROVE ToldOfAnother(j)'
  <2>1. j # i BY <1>5 DEF At
  <2>2. tx'[j] = tx[j] /\ At(j, "already") BY <1>1, <1>5, <2>1 DEF At
  <2>3. PICK b \in Imports \ {j} :
           /\ tx[b].file = tx[j].file /\ batches[b] # None
           /\ IF tx[j].told = None THEN batches[b] = "FAILED" /\ (b = i => status = "FAILED")
              ELSE tx[j].told = b
    <3>1. CASE tx[j].told = None BY <2>1, <2>2, <3>1 DEF FailureStays
    <3>2. CASE tx[j].told # None BY <2>2, <3>2, Halves DEF ToldOfAnother
    <3> QED BY <3>1, <3>2
  <2>4. tx'[b].file = tx'[j].file /\ batches'[b] # None BY <1>2, <2>3
  <2>5. tx'[j].told = None => batches'[b] = "FAILED" BY <1>1, <2>2, <2>3
  <2> QED BY <2>2, <2>3, <2>4, <2>5 DEF ToldOfAnother
<1>6. OneImportPerFile' BY <1>4, <1>5 DEF OneImportPerFile, OneActive, ToldOfAnother
<1>7. WholeOrNothing'
  <2> SUFFICES ASSUME NEW b \in Imports
               PROVE  \/ stock'[b] = <<>> /\ moves'[b] = <<>> /\ batches'[b] \notin Complete
                      \/ WholeFile(b)' /\ tx'[b].pc \notin {"persist", "commit"}
                                       /\ batches'[b] # None
    BY DEF WholeOrNothing
  <2>1. CASE b = i BY <1>1, <2>1
  <2>2. CASE b # i
    <3>1. WholeFile(b)' <=> WholeFile(b) BY <1>2, <2>2 DEF WholeFile
    <3> QED BY <1>1, <2>2, <3>1 DEF WholeOrNothing
  <2> QED BY <2>1, <2>2
<1> QED BY <1>3, <1>6, <1>7

\* Of the batches that Create, Commit and RecordFailure touch.
LEMMA LoudBatches ==
    ASSUME RequestsTyped, DatabaseTyped, BatchInv, NEW i \in Imports,
           Create(i) \/ (\E answered \in BOOLEAN : Commit(i, answered)) \/ RecordFailure(i)
    PROVE  BatchInv'
<1> USE DEF BatchInv
<1>1. ASSUME NEW j \in Imports, At(j, "already"), tx[j].told = None
      PROVE  \E b \in Imports \ {j} : tx[b].file = tx[j].file /\ batches[b] = "FAILED"
  BY <1>1, Halves DEF ToldOfAnother
<1>2. CASE Create(i)
  <2>1. /\ tx' = [tx EXCEPT ![i].pc = "persist"] /\ batches' = [batches EXCEPT ![i] = "PROCESSING"]
        /\ stock' = stock /\ moves' = moves /\ tx[i].pc = "create"
    BY <1>2 DEF Create, At
  <2>2. Others(i) /\ tx'[i].pc = "persist" /\ tx'[i].file = tx[i].file BY <2>1, PcRow
  <2>3. batches[i] = None BY <2>1 DEF Begun
  <2>4. stock[i] = <<>> /\ moves[i] = <<>> BY <2>3 DEF WholeOrNothing
  <2>5. \A b \in Imports \ {i} : batches[b] \in Active => tx[b].file # tx[i].file
    BY <1>2 DEF Create, ActiveBatches
  <2>6. FailureStays(i, "PROCESSING") BY <1>1, <2>3 DEF FailureStays
  <2>7. "PROCESSING" # None /\ "PROCESSING" \notin Complete BY DEF Active, Complete
  <2>8. \A b \in Imports \ {i} : stock'[b] = stock[b] /\ moves'[b] = moves[b] BY <2>1
  <2>9. stock'[i] = <<>> /\ moves'[i] = <<>> BY <2>1, <2>4
  <2> QED BY <2>1, <2>2, <2>5, <2>6, <2>7, <2>8, <2>9, BatchStep
<1>3. ASSUME NEW answered \in BOOLEAN, Commit(i, answered) PROVE BatchInv'
  <2>1. PICK status \in Complete : batches' = [batches EXCEPT ![i] = status]
    BY <1>3 DEF Commit, Complete
  <2>2. PICK pc, told : pc \in {"done", "failing"} /\ End(i, pc, told) BY <1>3 DEF Commit
  <2>3. Others(i) /\ tx'[i].pc = pc /\ tx'[i].file = tx[i].file BY <2>2, EndRow
  <2>4. tx[i].pc = "commit" /\ batches[i] = "PROCESSING" BY <1>3 DEF Commit, At, Begun
  <2>5. /\ stock'[i] = StockOf(Data(i)) /\ moves'[i] = Data(i).movements
        /\ \A b \in Imports \ {i} : stock'[b] = stock[b] /\ moves'[b] = moves[b]
    BY <1>3 DEF Commit, DatabaseTyped
  <2>6. WholeFile(i)' BY <2>3, <2>5 DEF WholeFile, Data
  <2>7. \A b \in Imports \ {i} : batches[b] \in Active => tx[b].file # tx[i].file
    BY <2>4, Halves DEF OneActive, Active
  <2>8. FailureStays(i, status) BY <1>1, <2>4 DEF FailureStays
  <2>9. status # None BY DEF Active, Complete
  <2>10. /\ tx'[i].pc \notin {"idle", "find", "create", "lost", "already", "persist", "commit"}
         /\ tx'[i].file = tx[i].file /\ tx[i].pc # "idle"
    BY <2>2, <2>3, <2>4
  <2>11. \A b \in Imports \ {i} : stock'[b] = stock[b] /\ moves'[b] = moves[b] BY <2>5
  <2> QED BY <2>1, <2>3, <2>6, <2>7, <2>8, <2>9, <2>10, <2>11, BatchStep
<1>4. CASE RecordFailure(i)
  <2>1. /\ End(i, "failed", None) /\ batches' = [batches EXCEPT ![i] = "FAILED"]
        /\ stock' = stock /\ moves' = moves /\ tx[i].pc = "failing"
    BY <1>4 DEF RecordFailure, At
  <2>2. Others(i) /\ tx'[i].pc = "failed" /\ tx'[i].file = tx[i].file BY <2>1, EndRow
  <2>3. FailureStays(i, "FAILED") BY <1>1 DEF FailureStays
  <2>4. "FAILED" # None /\ "FAILED" \notin Complete /\ "FAILED" \notin Active
    BY DEF Active, Complete
  <2>5. \/ stock'[i] = <<>> /\ moves'[i] = <<>>
        \/ WholeFile(i)'
    BY <2>1, <2>2 DEF WholeOrNothing, WholeFile
  <2> QED BY <2>1, <2>2, <2>3, <2>4, <2>5, BatchStep
<1> QED BY <1>2, <1>3, <1>4

\* A request begins, and has no batch yet.
LEMMA BeginBatches ==
    ASSUME RequestsTyped, DatabaseTyped, BatchInv, NEW i \in Imports, NEW f \in Files, Begin(i, f)
    PROVE  BatchInv'
<1> USE DEF BatchInv
<1>1. tx[i].pc = "idle" /\ Accepted(Content[f]) /\ UNCHANGED <<batches, stock, moves>>
  BY DEF Begin, At, database
<1>2. Others(i) /\ tx'[i].pc = "find" /\ tx'[i].file = f BY BeginRow
<1>3. batches[i] = None BY <1>1 DEF Begun
<1>4. /\ \A j \in Imports \ {i} : tx'[j] = tx[j]
      /\ \A b \in Imports : batches[b] # None => tx'[b] = tx[b]
      /\ \A b \in Imports : batches'[b] = batches[b]
  BY <1>1, <1>2, <1>3 DEF Others
<1>5. Begun'
  <2> SUFFICES ASSUME NEW j \in Imports
               PROVE  /\ tx'[j].pc # "idle" => tx'[j].file \in Files
                                               /\ Accepted(Content[tx'[j].file])
                      /\ tx'[j].pc \in {"idle", "find", "create", "lost", "already"} =>
                            batches[j] = None
                      /\ tx'[j].pc \in {"persist", "commit"} => batches[j] = "PROCESSING"
                      /\ tx'[j].pc = "lost" => \E b \in Imports \ {j} :
                            tx'[b].pc # "idle" /\ tx'[b].file = tx'[j].file /\ batches[b] # None
    BY <1>1 DEF Begun
  <2>1. CASE j = i BY <1>1, <1>2, <1>3, <2>1
  <2>2. CASE j # i BY <1>4, <2>2 DEF Begun
  <2> QED BY <2>1, <2>2
<1>6. OneActive'
  <2>1. \A b \in Imports : batches[b] \in Active => tx'[b] = tx[b] /\ batches[b] # None
    BY <1>4 DEF Active
  <2> QED BY <1>4, <2>1, Halves DEF OneActive
<1>7. ASSUME NEW j \in Imports, At(j, "already")' PROVE ToldOfAnother(j)'
  <2>1. j # i BY <1>2, <1>7 DEF At
  <2>2. tx'[j] = tx[j] /\ ToldOfAnother(j) BY <1>4, <1>7, <2>1, Halves DEF At
  <2> QED BY <1>4, <2>2 DEF ToldOfAnother
<1>8. OneImportPerFile' BY <1>6, <1>7 DEF OneImportPerFile, OneActive, ToldOfAnother
<1>9. WholeOrNothing'
  <2> SUFFICES ASSUME NEW b \in Imports
               PROVE  \/ stock[b] = <<>> /\ moves[b] = <<>> /\ batches[b] \notin Complete
                      \/ WholeFile(b)' /\ tx'[b].pc \notin {"persist", "commit"}
                                       /\ batches[b] # None
    BY <1>1 DEF WholeOrNothing
  <2>1. CASE b = i BY <1>3, <2>1 DEF WholeOrNothing
  <2>2. CASE b # i BY <1>1, <1>4, <2>2 DEF WholeOrNothing, WholeFile
  <2> QED BY <2>1, <2>2
<1> QED BY <1>5, <1>8, <1>9

-----------------------------------------------------------------------------
(* Types.                                                                  *)

\* Every step keeps the shape of the requests, ...
LEMMA RequestsStayTyped ==
    ASSUME RequestsTyped, Begun, [Next]_vars
    PROVE  RequestsTyped'
<1>1. ASSUME NEW i \in Imports, NEW f \in Files, Begin(i, f) PROVE RequestsTyped'
  BY <1>1, BeginRow
<1>2. ASSUME NEW i \in Imports, FindNone(i) \/ Create(i) \/ CreateRefused(i) PROVE RequestsTyped'
  BY <1>2, PcRow DEF FindNone, Create, CreateRefused
<1>3. ASSUME NEW i \in Imports,
             \/ FindActive(i) \/ FindWinner(i) \/ (\E answered \in BOOLEAN : Commit(i, answered))
             \/ Fail(i) \/ RecordFailure(i) \/ Die(i)
      PROVE  RequestsTyped'
  <2>1. PICK pc, told : End(i, pc, told)
    BY <1>3 DEF FindActive, FindWinner, Commit, Fail, RecordFailure, Die
  <2> QED BY <2>1, EndRow
<1>4. ASSUME NEW i \in Imports, UpsertProduct(i) \/ UpsertContacts(i) \/ LinkSuppliers(i)
      PROVE  RequestsTyped'
  BY <1>4, UpsertRows
<1>5. ASSUME UNCHANGED tx PROVE RequestsTyped'
  BY <1>5 DEF RequestsTyped, Shaped, OnKeys
<1>6. ASSUME NEW c \in Campaigns, (\E b \in Imports : SelectSource(c, b)) \/ Start(c)
      PROVE  RequestsTyped'
  BY <1>5, <1>6 DEF SelectSource, Start
<1> QED BY <1>1, <1>2, <1>3, <1>4, <1>5, <1>6 DEF Next, Proceed, vars

\* What a step does to the database.
LEMMA DatabaseStep ==
    ASSUME [Next]_vars
    PROVE  \/ UNCHANGED database
           \/ \E i \in Imports : \/ Create(i) \/ RecordFailure(i)
                                 \/ \E answered \in BOOLEAN : Commit(i, answered)
BY DEF Next, Proceed, vars, Begin, FindActive, FindNone, CreateRefused, FindWinner, UpsertProduct,
       UpsertContacts, LinkSuppliers, Fail, Die, SelectSource, Start

\* ... and that of the database.
LEMMA DatabaseStaysTyped ==
    ASSUME DatabaseTyped, [Next]_vars
    PROVE  DatabaseTyped'
<1>1. CASE UNCHANGED database BY <1>1 DEF database, DatabaseTyped, OnKeys
<1>2. ASSUME NEW i \in Imports, Create(i) \/ RecordFailure(i) PROVE DatabaseTyped'
  <2>1. /\ rows' = rows /\ stock' = stock /\ moves' = moves
        /\ \E status \in Active \cup {"FAILED"} : batches' = [batches EXCEPT ![i] = status]
    BY <1>2 DEF Create, RecordFailure, Active
  <2> QED BY <2>1 DEF DatabaseTyped, OnKeys
<1>3. ASSUME NEW i \in Imports, NEW answered \in BOOLEAN, Commit(i, answered)
      PROVE  DatabaseTyped'
  <2>1. OnKeys(rows)' BY <1>3 DEF Commit, OnKeys
  <2>2. \E status \in Active : batches' = [batches EXCEPT ![i] = status]
    BY <1>3 DEF Commit, Active
  <2>3. batches' \in [Imports -> Active \cup {"FAILED", None}] BY <2>2 DEF DatabaseTyped
  <2>4. /\ stock' = [b \in Imports |-> stock'[b]]
        /\ moves' = [b \in Imports |-> moves'[b]]
    BY <1>3 DEF Commit, DatabaseTyped
  <2> QED BY <2>1, <2>3, <2>4 DEF DatabaseTyped
<1> QED BY <1>1, <1>2, <1>3, DatabaseStep

\* Every step keeps batches whole or empty, and one import of a file.
LEMMA BatchesStep ==
    ASSUME RequestsTyped, DatabaseTyped, BatchInv, [Next]_vars
    PROVE  BatchInv'
<1>1. ASSUME NEW i \in Imports, NEW f \in Files, Begin(i, f) PROVE BatchInv'
  BY <1>1, BeginBatches
<1>2. ASSUME NEW i \in Imports, Proceed(i) \/ Die(i) PROVE BatchInv'
  BY <1>2, QuietBatches, LoudBatches DEF Proceed
<1>3. ASSUME UNCHANGED <<database, tx>> PROVE BatchInv'
  BY <1>3 DEF BatchInv, Begun, OneImportPerFile, At, WholeOrNothing, WholeFile, database
<1>4. ASSUME NEW c \in Campaigns, (\E b \in Imports : SelectSource(c, b)) \/ Start(c)
      PROVE  BatchInv'
  BY <1>3, <1>4 DEF SelectSource, Start
<1> QED BY <1>1, <1>2, <1>3, <1>4 DEF Next, vars

-----------------------------------------------------------------------------
(* Sessions.                                                               *)

\* The session of a request stays as it is, or is over.
KeptOrGone(i) ==
    \A r \in Refs : \/ tx'[i].base[r] = tx[i].base[r] /\ tx'[i].mine[r] = tx[i].mine[r]
                    \/ tx'[i].base[r] = None /\ tx'[i].mine[r] = None

\* A request that keeps its rows, or lets go of them, disturbs no session while no row changes.
LEMMA SessionFrame ==
    ASSUME SessionKeeps, UNCHANGED rows, NEW i \in Imports, Others(i), KeptOrGone(i)
    PROVE  SessionKeeps'
<1> SUFFICES ASSUME NEW j \in Imports, NEW r \in Refs
             PROVE  /\ tx'[j].base[r] \in ProductRow \cup {None}
                    /\ tx'[j].mine[r] \in ProductRow \cup {None}
                    /\ tx'[j].base[r] # None => rows[r] # None
                    /\ tx'[j].mine[r] # None /\ tx'[j].base[r] # None =>
                          \A p \in Prices : tx'[j].mine[r][p] = None => tx'[j].base[r][p] = None
  BY DEF SessionKeeps
<1>1. \/ tx'[j].base[r] = tx[j].base[r] /\ tx'[j].mine[r] = tx[j].mine[r]
      \/ tx'[j].base[r] = None /\ tx'[j].mine[r] = None
  BY DEF Others, KeptOrGone
<1> QED BY <1>1 DEF SessionKeeps

\* The columns of a product are its name and its prices.
LEMMA NameIsNoPrice == "name" \notin Prices
BY DEF Prices

\* A row with a name and readable prices is a product.
LEMMA IsProductRow ==
    ASSUME NEW row, row = [c \in {"name"} \cup Prices |-> row[c]],
           row["name"] \in Values, \A p \in Prices : row[p] \in Amounts \cup {None}
    PROVE  row \in ProductRow /\ row # None
<1>1. \A p \in Prices : row[p] \in Values BY DEF Values
<1>2. row \in [{"name"} \cup Prices -> Values] BY <1>1
<1> QED BY <1>2 DEF ProductRow, Row

\* A row made from what the file gives.
LEMMA ProductRowMade ==
    ASSUME NEW p \in Product
    PROVE  /\ Created(p) \in ProductRow /\ Created(p) # None
           /\ \A row \in ProductRow :
                 /\ Updated(row, p) \in ProductRow
                 /\ \A c \in Prices : Updated(row, p)[c] = None => row[c] = None
<1>1. p.name \in Values /\ \A c \in Prices : p.prices[c] \in Amounts \cup {None}
  BY DEF Product
<1>2. Created(p) \in ProductRow /\ Created(p) # None
  <2>1. /\ Created(p) = [c \in {"name"} \cup Prices |-> Created(p)[c]]
        /\ Created(p)["name"] = p.name /\ \A c \in Prices : Created(p)[c] = p.prices[c]
    BY NameIsNoPrice DEF Created
  <2> QED BY <1>1, <2>1, IsProductRow
<1>3. ASSUME NEW row \in ProductRow
      PROVE  /\ Updated(row, p) \in ProductRow
             /\ \A c \in Prices : Updated(row, p)[c] = None => row[c] = None
  <2>1. /\ Updated(row, p) = [c \in {"name"} \cup Prices |-> Updated(row, p)[c]]
        /\ Updated(row, p)["name"] = p.name
        /\ \A c \in Prices : Updated(row, p)[c] = IF p.prices[c] # None THEN p.prices[c]
                                                  ELSE row[c]
    BY NameIsNoPrice DEF Updated
  <2>2. \A c \in Prices : row[c] \in Amounts \cup {None} BY DEF ProductRow
  <2>3. \A c \in Prices : Updated(row, p)[c] \in Amounts \cup {None} BY <1>1, <2>1, <2>2
  <2> QED BY <1>1, <2>1, <2>3, IsProductRow
<1> QED BY <1>2, <1>3

\* Bringing a product up to date removes no price.
LEMMA UpsertKeeps ==
    ASSUME RequestsTyped, Begun, SessionKeeps, NEW i \in Imports, UpsertProduct(i)
    PROVE  SessionKeeps'
<1> DEFINE p    == Data(i).products[tx[i].next]
           seen == tx[i].mine[p.ref] # None
           row  == IF seen THEN tx[i].mine[p.ref] ELSE rows[p.ref]
<1>1. /\ Others(i)
      /\ \A r \in Refs :
            /\ tx'[i].base[r] = IF r = p.ref /\ ~seen THEN row ELSE tx[i].base[r]
            /\ tx'[i].mine[r] = IF r # p.ref THEN tx[i].mine[r]
                                ELSE IF row = None THEN Created(p) ELSE Updated(row, p)
  BY ProductUpserted
<1>2. p \in Product /\ rows' = rows
  <2>1. tx[i].pc = "persist" /\ tx[i].next <= Len(Data(i).products) /\ rows' = rows
    BY DEF UpsertProduct, At, database
  <2>2. Data(i).products \in Seq(Product) BY <2>1, ProductTypes DEF Begun, Data
  <2>3. tx[i].next \in Nat \ {0} BY DEF RequestsTyped
  <2> QED BY <2>1, <2>2, <2>3
<1>3. p.ref \in Refs BY <1>2 DEF Product
<1>4. /\ Created(p) \in ProductRow /\ Created(p) # None
      /\ \A x \in ProductRow : /\ Updated(x, p) \in ProductRow
                               /\ \A c \in Prices : Updated(x, p)[c] = None => x[c] = None
  BY <1>2, ProductRowMade
<1>5. row \in ProductRow \cup {None} BY <1>3 DEF SessionKeeps
<1>6. ~seen => row = rows[p.ref] OBVIOUS
<1>7. seen => row = tx[i].mine[p.ref] /\ row # None OBVIOUS
<1> HIDE DEF p, row, seen
<1> SUFFICES ASSUME NEW j \in Imports, NEW r \in Refs
             PROVE  /\ tx'[j].base[r] \in ProductRow \cup {None}
                    /\ tx'[j].mine[r] \in ProductRow \cup {None}
                    /\ tx'[j].base[r] # None => rows[r] # None
                    /\ tx'[j].mine[r] # None /\ tx'[j].base[r] # None =>
                          \A c \in Prices : tx'[j].mine[r][c] = None => tx'[j].base[r][c] = None
  BY <1>2 DEF SessionKeeps
<1>8. CASE j # i \/ r # p.ref
  <2>1. tx'[j].base[r] = tx[j].base[r] /\ tx'[j].mine[r] = tx[j].mine[r]
    BY <1>1, <1>8 DEF Others
  <2> QED BY <2>1 DEF SessionKeeps
<1>9. CASE j = i /\ r = p.ref
  <2>1. CASE row = None
    <3>1. tx'[i].base[r] = None /\ tx'[i].mine[r] = Created(p) BY <1>1, <1>7, <1>9, <2>1
    <3> QED BY <1>4, <1>9, <3>1
  <2>2. CASE row # None /\ seen
    <3>1. tx'[i].base[r] = tx[i].base[r] /\ tx'[i].mine[r] = Updated(row, p) BY <1>1, <1>9, <2>2
    <3>2. row \in ProductRow /\ row = tx[i].mine[r] BY <1>5, <1>7, <1>9, <2>2
    <3> QED BY <1>4, <1>9, <2>2, <3>1, <3>2 DEF SessionKeeps
  <2>3. CASE row # None /\ ~seen
    <3>1. tx'[i].base[r] = row /\ tx'[i].mine[r] = Updated(row, p) BY <1>1, <1>9, <2>3
    <3>2. row \in ProductRow /\ row = rows[r] BY <1>5, <1>6, <1>9, <2>3
    <3> QED BY <1>4, <1>9, <2>3, <3>1, <3>2
  <2> QED BY <2>1, <2>2, <2>3
<1> QED BY <1>8, <1>9

\* A commit leaves products there, and the prices they have.
LEMMA CommitKeeps ==
    ASSUME SessionKeeps, NEW i \in Imports, NEW answered \in BOOLEAN, Commit(i, answered),
           NEW r \in Refs
    PROVE  /\ rows'[r] \in ProductRow \cup {None}
           /\ tx[i].mine[r] # None => rows'[r] # None
           /\ rows[r] # None =>
                 /\ rows'[r] # None
                 /\ \A p \in Prices : rows[r][p] # None => rows'[r][p] # None
<1> DEFINE base == tx[i].base[r]
           mine == tx[i].mine[r]
<1>1. rows'[r] = IF mine = None THEN rows[r] ELSE Written(base, mine, rows[r])
  BY DEF Commit, Keys
<1>2. /\ base \in ProductRow \cup {None} /\ mine \in ProductRow \cup {None}
      /\ rows[r] \in ProductRow \cup {None} /\ (base # None => rows[r] # None)
      /\ mine # None /\ base # None => \A p \in Prices : mine[p] = None => base[p] = None
  BY DEF SessionKeeps
<1>3. mine # None /\ base = None => rows[r] = None BY DEF Commit, Conflict
<1> HIDE DEF base, mine
<1>4. CASE mine = None BY <1>1, <1>2, <1>4 DEF mine
<1>5. CASE mine # None /\ base = None
  <2>1. mine \in ProductRow BY <1>2, <1>5
  <2>2. /\ mine = [c \in {"name"} \cup Prices |-> mine[c]]
        /\ mine["name"] \in Values /\ \A p \in Prices : mine[p] \in Amounts \cup {None}
    BY <2>1 DEF ProductRow
  <2>3. rows'[r] = [c \in DOMAIN mine |-> mine[c]] BY <1>1, <1>5 DEF Written
  <2>4. rows'[r] = mine BY <2>2, <2>3
  <2> QED BY <1>3, <1>5, <2>1, <2>4
<1>6. CASE mine # None /\ base # None
  <2>1. /\ mine \in ProductRow /\ base \in ProductRow /\ rows[r] \in ProductRow
    BY <1>2, <1>6
  <2>2. rows'[r] = [c \in {"name"} \cup Prices |-> IF mine[c] = base[c] THEN rows[r][c] ELSE mine[c]]
    BY <1>1, <1>6, <2>1 DEF Written, ProductRow
  <2>3. /\ rows'[r] = [c \in {"name"} \cup Prices |-> rows'[r][c]]
        /\ rows'[r]["name"] = IF mine["name"] = base["name"] THEN rows[r]["name"] ELSE mine["name"]
        /\ \A p \in Prices : rows'[r][p] = IF mine[p] = base[p] THEN rows[r][p] ELSE mine[p]
    BY <2>2
  <2>6. /\ mine["name"] \in Values /\ rows[r]["name"] \in Values
        /\ \A p \in Prices : mine[p] \in Amounts \cup {None} /\ rows[r][p] \in Amounts \cup {None}
    BY <2>1 DEF ProductRow
  <2>7. rows'[r]["name"] \in Values /\ \A p \in Prices : rows'[r][p] \in Amounts \cup {None}
    BY <2>3, <2>6
  <2>4. rows'[r] \in ProductRow /\ rows'[r] # None BY <2>3, <2>7, IsProductRow
  <2>5. ASSUME NEW p \in Prices, rows[r][p] # None PROVE rows'[r][p] # None
    BY <1>2, <1>6, <2>2, <2>5
  <2> QED BY <2>4, <2>5
<1> QED BY <1>4, <1>5, <1>6 DEF mine

\* No step makes a session remove a price that it has read.
LEMMA SessionsStep ==
    ASSUME RequestsTyped, Begun, SessionKeeps, [Next]_vars
    PROVE  SessionKeeps'
<1>1. ASSUME NEW i \in Imports, NEW f \in Files, Begin(i, f) PROVE SessionKeeps'
  <2>1. rows' = rows BY <1>1 DEF Begin, database
  <2>2. Others(i) /\ tx'[i].base = tx[i].base /\ tx'[i].mine = tx[i].mine BY <1>1, BeginRow
  <2>3. \A r \in Refs : tx'[i].base[r] = tx[i].base[r] /\ tx'[i].mine[r] = tx[i].mine[r]
    BY <2>2
  <2>4. KeptOrGone(i) BY <2>3 DEF KeptOrGone
  <2> QED BY <2>1, <2>2, <2>4, SessionFrame
<1>2. ASSUME NEW i \in Imports, FindNone(i) \/ Create(i) \/ CreateRefused(i) PROVE SessionKeeps'
  <2>1. rows' = rows /\ \E pc : tx' = [tx EXCEPT ![i].pc = pc]
    BY <1>2 DEF FindNone, Create, CreateRefused, database
  <2>2. Others(i) /\ tx'[i].base = tx[i].base /\ tx'[i].mine = tx[i].mine BY <2>1, PcRow
  <2>3. \A r \in Refs : tx'[i].base[r] = tx[i].base[r] /\ tx'[i].mine[r] = tx[i].mine[r]
    BY <2>2
  <2>4. KeptOrGone(i) BY <2>3 DEF KeptOrGone
  <2> QED BY <2>1, <2>2, <2>4, SessionFrame
<1>3. ASSUME NEW i \in Imports,
             FindActive(i) \/ FindWinner(i) \/ Fail(i) \/ RecordFailure(i) \/ Die(i)
      PROVE  SessionKeeps'
  <2>1. rows' = rows /\ \E pc, told : End(i, pc, told)
    BY <1>3 DEF FindActive, FindWinner, Fail, RecordFailure, Die, database
  <2>2. Others(i) /\ tx'[i].base = Unread /\ tx'[i].mine = Unread BY <2>1, EndRow
  <2>3. KeptOrGone(i) BY <2>2 DEF KeptOrGone, Unread, Keys
  <2> QED BY <2>1, <2>2, <2>3, SessionFrame
<1>4. ASSUME NEW i \in Imports, UpsertProduct(i) PROVE SessionKeeps'
  BY <1>4, UpsertKeeps
<1>5. ASSUME NEW i \in Imports, UpsertContacts(i) \/ LinkSuppliers(i) PROVE SessionKeeps'
  <2>1. rows' = rows BY <1>5 DEF UpsertContacts, LinkSuppliers, database
  <2>2. Others(i) BY <1>5, ContactsUpserted, LinkRows
  <2>3. KeptOrGone(i)
    <3>1. CASE UpsertContacts(i) BY <3>1, ContactsUpserted DEF KeptOrGone
    <3>2. CASE LinkSuppliers(i)
      <4>1. tx'[i].base = tx[i].base /\ tx'[i].mine = tx[i].mine BY <3>2, LinkRows
      <4>2. \A r \in Refs : tx'[i].base[r] = tx[i].base[r] /\ tx'[i].mine[r] = tx[i].mine[r]
        BY <4>1
      <4> QED BY <4>2 DEF KeptOrGone
    <3> QED BY <1>5, <3>1, <3>2
  <2> QED BY <2>1, <2>2, <2>3, SessionFrame
<1>6. ASSUME NEW i \in Imports, NEW answered \in BOOLEAN, Commit(i, answered)
      PROVE  SessionKeeps'
  <2>1. PICK pc, told : End(i, pc, told) BY <1>6 DEF Commit
  <2>2. Others(i) /\ tx'[i].base = Unread /\ tx'[i].mine = Unread BY <2>1, EndRow
  <2>3. \A r \in Refs : /\ rows'[r] \in ProductRow \cup {None}
                        /\ rows[r] # None => rows'[r] # None
    BY <1>6, CommitKeeps
  <2> SUFFICES ASSUME NEW j \in Imports, NEW r \in Refs
               PROVE  /\ tx'[j].base[r] \in ProductRow \cup {None}
                      /\ tx'[j].mine[r] \in ProductRow \cup {None}
                      /\ tx'[j].base[r] # None => rows'[r] # None
                      /\ tx'[j].mine[r] # None /\ tx'[j].base[r] # None =>
                            \A p \in Prices : tx'[j].mine[r][p] = None => tx'[j].base[r][p] = None
    BY <2>3 DEF SessionKeeps
  <2>4. CASE j = i BY <2>2, <2>4 DEF Unread, Keys
  <2>5. CASE j # i
    <3>1. tx'[j] = tx[j] BY <2>2, <2>5 DEF Others
    <3> QED BY <2>3, <3>1 DEF SessionKeeps
  <2> QED BY <2>4, <2>5
<1>7. ASSUME UNCHANGED <<database, tx>> PROVE SessionKeeps' BY <1>7 DEF SessionKeeps, database
<1>8. ASSUME NEW c \in Campaigns, (\E b \in Imports : SelectSource(c, b)) \/ Start(c)
      PROVE  SessionKeeps'
  BY <1>7, <1>8 DEF SelectSource, Start
<1> QED BY <1>1, <1>2, <1>3, <1>4, <1>5, <1>6, <1>7, <1>8 DEF Next, Proceed, vars

-----------------------------------------------------------------------------
(* The second invariant: what the fields and the contacts hold, which of   *)
(* its products a session has, and what a frozen snapshot says.            *)

FieldsTyped ==
    \A i \in Imports :
        /\ tx[i].pc \in Running \cup Ended \cup {"idle"} /\ tx[i].file \in Files \cup {None}
        /\ tx[i].added \in Seq(Link) /\ tx[i].missing \in BOOLEAN
        /\ tx[i].told \in Imports \cup {None}

ContactsKept ==
    /\ ContactsTyped
    /\ \A i \in Imports, k \in ContactIds :
          /\ tx[i].base[k] \in ContactRow \cup {None} /\ tx[i].mine[k] \in ContactRow \cup {None}
          /\ tx[i].base[k] # None => rows[k] # None

\* A session has the products below the next one, and at its commit all of them.
AllUpserted ==
    \A i \in Imports :
        /\ tx[i].pc \in {"idle", "find", "create"} => tx[i].next = 1
        /\ tx[i].pc \in {"persist", "commit"} =>
              \A n \in DOMAIN Data(i).products :
                  n < tx[i].next => tx[i].mine[Data(i).products[n].ref] # None
        /\ tx[i].pc = "commit" => tx[i].next > Len(Data(i).products)

\* So there is no stock of a product that is not there.
StockKnown == \A b \in Imports : \A n \in DOMAIN stock[b] : rows[stock[b][n].ref] # None

CampaignsTyped ==
    campaigns \in [Campaigns -> [source: Imports \cup {None}, frozen: BOOLEAN,
                                 items: SUBSET Item]]

OfOneFile(f, items) ==
    /\ \A s, t \in items : s.ref = t.ref => s = t
    /\ \A r \in Refs, q \in Amounts \ {0} :
          (StockRows[f][r][q] # {}) <=> \E s \in items : s.ref = r /\ s.quantity = q
    /\ \A s \in items :
          /\ s.quantity # 0
          /\ s.cost = 0 <=> \A p \in {"cost", "consignment_cost"} :
                                s.prices[p] = None \/ s.prices[p] <= 0

FrozenOfOneFile ==
    \A c \in Campaigns : campaigns[c].frozen =>
        /\ campaigns[c].source \in Imports /\ tx[campaigns[c].source].pc # "idle"
        /\ OfOneFile(tx[campaigns[c].source].file, campaigns[c].items)

TableInv == FieldsTyped /\ ContactsKept /\ links \in SUBSET Link /\ AllUpserted /\ StockKnown
                        /\ CampaignsTyped /\ FrozenOfOneFile

-----------------------------------------------------------------------------
(* The fields of the requests.                                             *)

\* A step of one request keeps the types of the others.
LEMMA FieldsFrame ==
    ASSUME FieldsTyped, NEW i \in Imports, Others(i),
           tx'[i].pc \in Running \cup Ended \cup {"idle"}, tx'[i].file \in Files \cup {None},
           tx'[i].added \in Seq(Link), tx'[i].missing \in BOOLEAN,
           tx'[i].told \in Imports \cup {None}
    PROVE  FieldsTyped'
<1> SUFFICES ASSUME NEW j \in Imports
             PROVE  /\ tx'[j].pc \in Running \cup Ended \cup {"idle"}
                    /\ tx'[j].file \in Files \cup {None}
                    /\ tx'[j].added \in Seq(Link) /\ tx'[j].missing \in BOOLEAN
                    /\ tx'[j].told \in Imports \cup {None}
  BY DEF FieldsTyped
<1>1. CASE j = i BY <1>1
<1>2. CASE j # i
  <2>1. tx'[j] = tx[j] BY <1>2 DEF Others
  <2> QED BY <2>1 DEF FieldsTyped
<1> QED BY <1>1, <1>2

\* Every step keeps the types of what requests know.
LEMMA FieldsStep ==
    ASSUME RequestsTyped, Begun, FieldsTyped, [Next]_vars
    PROVE  FieldsTyped'
<1> USE DEF Running, Ended
<1>1. ASSUME NEW i \in Imports, NEW f \in Files, Begin(i, f) PROVE FieldsTyped'
  <2>1. Others(i) /\ tx'[i].pc = "find" /\ tx'[i].file = f /\ SameEnd(i) BY <1>1, BeginRow
  <2> QED BY <2>1, FieldsFrame DEF FieldsTyped, SameEnd
<1>2. ASSUME NEW i \in Imports, FindNone(i) \/ Create(i) \/ CreateRefused(i) PROVE FieldsTyped'
  <2>1. PICK pc \in {"create", "persist", "lost"} : tx' = [tx EXCEPT ![i].pc = pc]
    BY <1>2 DEF FindNone, Create, CreateRefused
  <2>2. Others(i) /\ tx'[i].pc = pc /\ tx'[i].file = tx[i].file /\ SameEnd(i) BY <2>1, PcRow
  <2> QED BY <2>2, FieldsFrame DEF FieldsTyped, SameEnd
<1>3. ASSUME NEW i \in Imports,
             \/ FindActive(i) \/ FindWinner(i) \/ (\E answered \in BOOLEAN : Commit(i, answered))
             \/ Fail(i) \/ RecordFailure(i) \/ Die(i)
      PROVE  FieldsTyped'
  <2>1. PICK pc \in Running \cup Ended, told \in Imports \cup {None} : End(i, pc, told)
    BY <1>3 DEF FindActive, FindWinner, Commit, Fail, RecordFailure, Die, ActiveBatches
  <2>2. /\ Others(i) /\ tx'[i].pc = pc /\ tx'[i].file = tx[i].file /\ tx'[i].told = told
        /\ tx'[i].added = <<>> /\ tx'[i].missing = FALSE
    BY <2>1, EndRow
  <2>3. tx'[i].added \in Seq(Link) BY <2>2
  <2> QED BY <2>2, <2>3, FieldsFrame DEF FieldsTyped
<1>4. ASSUME NEW i \in Imports, UpsertProduct(i) PROVE FieldsTyped'
  <2>1. Others(i) /\ tx'[i].pc = tx[i].pc /\ tx'[i].file = tx[i].file /\ SameEnd(i)
    BY <1>4, ProductUpserted
  <2> QED BY <2>1, FieldsFrame DEF FieldsTyped, SameEnd
<1>5. ASSUME NEW i \in Imports, UpsertContacts(i) PROVE FieldsTyped'
  <2>1. Others(i) /\ tx'[i].pc = "commit" /\ tx'[i].file = tx[i].file /\ SameEnd(i)
    BY <1>5, ContactsUpserted
  <2> QED BY <2>1, FieldsFrame DEF FieldsTyped, SameEnd
<1>6. ASSUME NEW i \in Imports, LinkSuppliers(i) PROVE FieldsTyped'
  <2>1. /\ Others(i) /\ tx'[i].pc = "commit" /\ tx'[i].file = tx[i].file
        /\ tx'[i].told = tx[i].told
        /\ tx'[i].added \in Seq(Link) /\ tx'[i].missing \in BOOLEAN
    BY <1>6, LinkRows
  <2> QED BY <2>1, FieldsFrame DEF FieldsTyped
<1>7. ASSUME UNCHANGED tx PROVE FieldsTyped' BY <1>7 DEF FieldsTyped
<1>8. ASSUME NEW c \in Campaigns, (\E b \in Imports : SelectSource(c, b)) \/ Start(c)
      PROVE  FieldsTyped'
  BY <1>7, <1>8 DEF SelectSource, Start
<1> QED BY <1>1, <1>2, <1>3, <1>4, <1>5, <1>6, <1>7, <1>8 DEF Next, Proceed, vars

-----------------------------------------------------------------------------
(* Contacts and links.                                                     *)

\* The contacts of a session stay as they are, or it is over.
SameContacts(i) ==
    \A k \in ContactIds : \/ tx'[i].base[k] = tx[i].base[k] /\ tx'[i].mine[k] = tx[i].mine[k]
                          \/ tx'[i].base[k] = None /\ tx'[i].mine[k] = None

\* A step of one request disturbs no contact of the others.
LEMMA ContactsFrame ==
    ASSUME ContactsKept, NEW i \in Imports, Others(i), SameContacts(i),
           \A k \in ContactIds : /\ rows'[k] \in ContactRow \cup {None}
                                 /\ rows[k] # None => rows'[k] # None
    PROVE  ContactsKept'
<1> SUFFICES ASSUME NEW j \in Imports, NEW k \in ContactIds
             PROVE  /\ tx'[j].base[k] \in ContactRow \cup {None}
                    /\ tx'[j].mine[k] \in ContactRow \cup {None}
                    /\ tx'[j].base[k] # None => rows'[k] # None
  BY DEF ContactsKept, ContactsTyped
<1>1. \/ tx'[j].base[k] = tx[j].base[k] /\ tx'[j].mine[k] = tx[j].mine[k]
      \/ tx'[j].base[k] = None /\ tx'[j].mine[k] = None
  BY DEF Others, SameContacts
<1> QED BY <1>1 DEF ContactsKept

\* The columns that a session changed are written over what is there.
LEMMA CommitContacts ==
    ASSUME ContactsKept, NEW i \in Imports, NEW answered \in BOOLEAN, Commit(i, answered),
           NEW k \in ContactIds
    PROVE  rows'[k] \in ContactRow \cup {None} /\ (rows[k] # None => rows'[k] # None)
<1> DEFINE base == tx[i].base[k]
           mine == tx[i].mine[k]
<1>1. rows'[k] = IF mine = None THEN rows[k] ELSE Written(base, mine, rows[k])
  BY DEF Commit, Keys
<1>2. /\ base \in ContactRow \cup {None} /\ mine \in ContactRow \cup {None}
      /\ rows[k] \in ContactRow \cup {None} /\ (base # None => rows[k] # None)
  BY DEF ContactsKept, ContactsTyped
<1> HIDE DEF base, mine
<1>3. CASE mine = None BY <1>1, <1>2, <1>3
<1>4. CASE mine # None
  <2>1. mine \in ContactRow /\ (base # None => rows[k] \in ContactRow) BY <1>2, <1>4
  <2>2. /\ DOMAIN mine = {"name", "external_ref"}
        /\ \A c \in {"name", "external_ref"} : mine[c] \in Values
        /\ base # None => \A c \in {"name", "external_ref"} : rows[k][c] \in Values
    BY <2>1 DEF ContactRow
  <2>3. rows'[k] = [c \in {"name", "external_ref"} |->
                       IF base # None /\ mine[c] = base[c] THEN rows[k][c] ELSE mine[c]]
    BY <1>1, <1>4, <2>2 DEF Written
  <2>4. rows'[k] \in ContactRow BY <2>2, <2>3 DEF ContactRow
  <2>5. rows'[k] # None BY <2>4 DEF ContactRow, Row
  <2> QED BY <2>4, <2>5
<1> QED BY <1>3, <1>4

\* No step removes a contact, or takes one from a session.
LEMMA ContactsStep ==
    ASSUME RequestsTyped, Begun, ContactsKept, [Next]_vars
    PROVE  ContactsKept'
<1>0. ASSUME NEW i \in Imports, Others(i), SameContacts(i), rows' = rows PROVE ContactsKept'
  BY <1>0, ContactsFrame DEF ContactsKept, ContactsTyped
<1>1. ASSUME NEW i \in Imports, NEW f \in Files, Begin(i, f) PROVE ContactsKept'
  <2>1. rows' = rows BY <1>1 DEF Begin, database
  <2>2. Others(i) /\ tx'[i].base = tx[i].base /\ tx'[i].mine = tx[i].mine BY <1>1, BeginRow
  <2>3. SameContacts(i) BY <2>2 DEF SameContacts
  <2> QED BY <1>0, <2>1, <2>2, <2>3
<1>2. ASSUME NEW i \in Imports, FindNone(i) \/ Create(i) \/ CreateRefused(i) PROVE ContactsKept'
  <2>1. rows' = rows /\ \E pc : tx' = [tx EXCEPT ![i].pc = pc]
    BY <1>2 DEF FindNone, Create, CreateRefused, database
  <2>2. Others(i) /\ tx'[i].base = tx[i].base /\ tx'[i].mine = tx[i].mine BY <2>1, PcRow
  <2>3. SameContacts(i) BY <2>2 DEF SameContacts
  <2> QED BY <1>0, <2>1, <2>2, <2>3
<1>3. ASSUME NEW i \in Imports, NEW pc, NEW told, End(i, pc, told)
      PROVE  Others(i) /\ SameContacts(i)
  <2>1. Others(i) /\ tx'[i].base = Unread /\ tx'[i].mine = Unread BY <1>3, EndRow
  <2> QED BY <2>1 DEF SameContacts, Unread, Keys
<1>4. ASSUME NEW i \in Imports,
             FindActive(i) \/ FindWinner(i) \/ Fail(i) \/ RecordFailure(i) \/ Die(i)
      PROVE  ContactsKept'
  <2>1. rows' = rows /\ \E pc, told : End(i, pc, told)
    BY <1>4 DEF FindActive, FindWinner, Fail, RecordFailure, Die, database
  <2> QED BY <1>0, <1>3, <2>1
<1>5. ASSUME NEW i \in Imports, UpsertProduct(i) \/ LinkSuppliers(i) PROVE ContactsKept'
  <2>1. rows' = rows BY <1>5 DEF UpsertProduct, LinkSuppliers, database
  <2>2. Others(i) /\ SameContacts(i)
    <3>1. CASE UpsertProduct(i) BY <3>1, ProductUpserted DEF SameContacts
    <3>2. CASE LinkSuppliers(i)
      <4>1. Others(i) /\ tx'[i].base = tx[i].base /\ tx'[i].mine = tx[i].mine
        BY <3>2, LinkRows
      <4> QED BY <4>1 DEF SameContacts
    <3> QED BY <1>5, <3>1, <3>2
  <2> QED BY <1>0, <2>1, <2>2
<1>6. ASSUME NEW i \in Imports, UpsertContacts(i) PROVE ContactsKept'
  <2>1. rows' = rows BY <1>6 DEF UpsertContacts, database
  <2>2. /\ Others(i)
        /\ \A k \in ContactIds : tx'[i].base[k] = rows[k]
        /\ ContactsTyped => \A k \in ContactIds : tx'[i].mine[k] \in ContactRow \cup {None}
    BY <1>6, ContactsUpserted
  <2> SUFFICES ASSUME NEW j \in Imports, NEW k \in ContactIds
               PROVE  /\ tx'[j].base[k] \in ContactRow \cup {None}
                      /\ tx'[j].mine[k] \in ContactRow \cup {None}
                      /\ tx'[j].base[k] # None => rows'[k] # None
    BY <2>1 DEF ContactsKept, ContactsTyped
  <2>3. CASE j = i BY <2>1, <2>2, <2>3 DEF ContactsKept, ContactsTyped
  <2>4. CASE j # i
    <3>1. tx'[j] = tx[j] BY <2>2, <2>4 DEF Others
    <3> QED BY <2>1, <3>1 DEF ContactsKept
  <2> QED BY <2>3, <2>4
<1>7. ASSUME NEW i \in Imports, NEW answered \in BOOLEAN, Commit(i, answered) PROVE ContactsKept'
  <2>1. PICK pc, told : End(i, pc, told) BY <1>7 DEF Commit
  <2>2. Others(i) /\ SameContacts(i) BY <1>3, <2>1
  <2>3. \A k \in ContactIds : rows'[k] \in ContactRow \cup {None} /\ (rows[k] # None => rows'[k] # None)
    BY <1>7, CommitContacts
  <2> QED BY <2>2, <2>3, ContactsFrame
<1>8. ASSUME UNCHANGED <<database, tx>> PROVE ContactsKept'
  BY <1>8 DEF ContactsKept, ContactsTyped, database
<1>9. ASSUME NEW c \in Campaigns, (\E b \in Imports : SelectSource(c, b)) \/ Start(c)
      PROVE  ContactsKept'
  BY <1>8, <1>9 DEF SelectSource, Start
<1> QED BY <1>1, <1>2, <1>4, <1>5, <1>6, <1>7, <1>8, <1>9 DEF Next, Proceed, vars

\* Links stay links of products with contacts.
LEMMA LinksStep ==
    ASSUME FieldsTyped, links \in SUBSET Link, [Next]_vars
    PROVE  links' \in SUBSET Link
<1>1. CASE links' = links BY <1>1
<1>2. ASSUME NEW i \in Imports, NEW answered \in BOOLEAN, Commit(i, answered)
      PROVE  links' \in SUBSET Link
  <2>1. links' = links \cup {tx[i].added[n] : n \in DOMAIN tx[i].added} BY <1>2 DEF Commit
  <2>2. \A n \in DOMAIN tx[i].added : tx[i].added[n] \in Link
    <3> DEFINE added == tx[i].added
               L == Link
    <3>1. added \in Seq(L) BY DEF FieldsTyped
    <3> HIDE DEF added, L
    <3>2. \A n \in DOMAIN added : added[n] \in L BY <3>1
    <3> QED BY <3>2 DEF added, L
  <2> QED BY <2>1, <2>2
<1> QED BY <1>1, <1>2, DatabaseStep DEF database, Create, RecordFailure

-----------------------------------------------------------------------------
(* The products of a session, and the stock that is left of them.          *)

\* What a session has of its products, at one request.
HasUpserted(i) ==
    /\ tx[i].pc \in {"idle", "find", "create"} => tx[i].next = 1
    /\ tx[i].pc \in {"persist", "commit"} =>
          \A n \in DOMAIN Data(i).products :
              n < tx[i].next => tx[i].mine[Data(i).products[n].ref] # None
    /\ tx[i].pc = "commit" => tx[i].next > Len(Data(i).products)

\* A step of one request leaves what the others have brought up to date.
LEMMA UpsertedFrame ==
    ASSUME AllUpserted, NEW i \in Imports, Others(i), HasUpserted(i)'
    PROVE  AllUpserted'
<1> SUFFICES ASSUME NEW j \in Imports PROVE HasUpserted(j)' BY DEF AllUpserted, HasUpserted
<1>1. CASE j = i BY <1>1
<1>2. CASE j # i
  <2>1. tx'[j] = tx[j] BY <1>2 DEF Others
  <2> QED BY <2>1 DEF AllUpserted, HasUpserted, Data
<1> QED BY <1>1, <1>2

\* The products of its file, while a session is at work.
LEMMA SessionProducts ==
    ASSUME Begun, NEW i \in Imports, tx[i].pc # "idle"
    PROVE  /\ Data(i).products \in Seq(Product) /\ Len(Data(i).products) \in Nat
           /\ DOMAIN Data(i).products = 1..Len(Data(i).products)
           /\ \A n \in DOMAIN Data(i).products : Data(i).products[n].ref \in Refs
           /\ Type(Content[tx[i].file]) = "CONTACTS" => Data(i).products = <<>>
<1> DEFINE products == Data(i).products
<1>1. /\ products \in Seq(Product) /\ DOMAIN products = 1..Len(products)
      /\ Type(Content[tx[i].file]) = "CONTACTS" => products = <<>>
  BY ProductTypes DEF Begun, Data
<1> HIDE DEF products
<1>2. \A n \in DOMAIN products : products[n] \in Product BY <1>1
<1>3. \A n \in DOMAIN products : products[n].ref \in Refs BY <1>2 DEF Product
<1> QED BY <1>1, <1>3 DEF products

\* A request at its commit has every product of its file in its session.
LEMMA UpsertedStep ==
    ASSUME RequestsTyped, Begun, SessionKeeps, AllUpserted, [Next]_vars
    PROVE  AllUpserted'
<1>1. ASSUME NEW i \in Imports, NEW f \in Files, Begin(i, f) PROVE AllUpserted'
  <2>1. Others(i) /\ tx'[i].pc = "find" /\ tx'[i].next = tx[i].next /\ tx[i].pc = "idle"
    BY <1>1, BeginRow DEF Begin, At
  <2>2. tx[i].next = 1 BY <2>1 DEF AllUpserted
  <2>3. HasUpserted(i)' BY <2>1, <2>2 DEF HasUpserted
  <2> QED BY <2>1, <2>3, UpsertedFrame
<1>2. ASSUME NEW i \in Imports, FindNone(i) \/ Create(i) \/ CreateRefused(i) PROVE AllUpserted'
  <2>1. PICK pc \in {"create", "persist", "lost"} : tx' = [tx EXCEPT ![i].pc = pc]
    BY <1>2 DEF FindNone, Create, CreateRefused
  <2>2. Others(i) /\ tx'[i].pc = pc /\ tx'[i].next = tx[i].next /\ tx'[i].file = tx[i].file
    BY <2>1, PcRow
  <2>3. tx[i].pc \in {"find", "create"} BY <1>2 DEF FindNone, Create, CreateRefused, At
  <2>4. tx[i].next = 1 BY <2>3 DEF AllUpserted
  <2>5. DOMAIN Data(i).products = 1..Len(Data(i).products) /\ Len(Data(i).products) \in Nat
    BY <2>3, SessionProducts
  <2>6. Data(i)' = Data(i) BY <2>2 DEF Data
  <2>7. \A n \in DOMAIN Data(i).products : ~(n < 1) BY <2>5
  <2>8. HasUpserted(i)' BY <2>2, <2>4, <2>6, <2>7 DEF HasUpserted
  <2> QED BY <2>2, <2>8, UpsertedFrame
<1>3. ASSUME NEW i \in Imports,
             \/ FindActive(i) \/ FindWinner(i) \/ (\E answered \in BOOLEAN : Commit(i, answered))
             \/ Fail(i) \/ RecordFailure(i) \/ Die(i)
      PROVE  AllUpserted'
  <2>1. PICK pc, told : pc \in Ended \cup {"failing"} /\ End(i, pc, told)
    BY <1>3 DEF FindActive, FindWinner, Commit, Fail, RecordFailure, Die, Ended
  <2>2. Others(i) /\ tx'[i].pc = pc BY <2>1, EndRow
  <2>3. HasUpserted(i)' BY <2>1, <2>2 DEF HasUpserted, Ended
  <2> QED BY <2>2, <2>3, UpsertedFrame
<1>4. ASSUME NEW i \in Imports, UpsertProduct(i) PROVE AllUpserted'
  <2> DEFINE products == Data(i).products
             p == products[tx[i].next]
             seen == tx[i].mine[p.ref] # None
             row == IF seen THEN tx[i].mine[p.ref] ELSE rows[p.ref]
  <2>1. /\ Others(i) /\ tx'[i].pc = tx[i].pc /\ tx'[i].file = tx[i].file
        /\ tx'[i].next = tx[i].next + 1
        /\ \A r \in Refs : tx'[i].mine[r] = IF r # p.ref THEN tx[i].mine[r]
                                            ELSE IF row = None THEN Created(p)
                                            ELSE Updated(row, p)
    BY <1>4, ProductUpserted
  <2>2. /\ tx[i].pc = "persist" /\ tx[i].next <= Len(products) /\ tx[i].next \in Nat \ {0}
    BY <1>4 DEF UpsertProduct, At, RequestsTyped
  <2>3. /\ products \in Seq(Product) /\ Len(products) \in Nat
        /\ DOMAIN products = 1..Len(products) /\ \A n \in DOMAIN products : products[n].ref \in Refs
    BY <2>2, SessionProducts
  <2>4. p \in Product /\ p.ref \in Refs
    <3>1. tx[i].next \in DOMAIN products BY <2>2, <2>3
    <3>2. p.ref \in Refs BY <2>3, <3>1
    <3> HIDE DEF products
    <3>3. p \in Product BY <2>3, <3>1
    <3> QED BY <3>2, <3>3
  <2>5. row \in ProductRow \cup {None} BY <2>4 DEF SessionKeeps
  <2>6. Created(p) # None /\ \A x \in ProductRow : Updated(x, p) # None
    <3>1. Created(p) # None /\ \A x \in ProductRow : Updated(x, p) \in ProductRow
      BY <2>4, ProductRowMade
    <3> QED BY <3>1 DEF ProductRow, Row
  <2>7. Data(i)'.products = products BY <2>1 DEF Data
  <2>8. \A n \in DOMAIN products : n < tx[i].next => tx[i].mine[products[n].ref] # None
    BY <2>2 DEF AllUpserted
  <2> HIDE DEF products, p, seen, row
  <2>9. tx'[i].mine[p.ref] # None BY <2>1, <2>4, <2>5, <2>6
  <2>10. ASSUME NEW n \in DOMAIN products, n < tx[i].next + 1
         PROVE  tx'[i].mine[products[n].ref] # None
    <3>1. CASE products[n].ref = p.ref BY <2>9, <3>1
    <3>2. CASE products[n].ref # p.ref
      <4>1. n # tx[i].next BY <3>2 DEF p
      <4>2. n < tx[i].next BY <2>2, <2>3, <2>10, <4>1
      <4> QED BY <2>1, <2>3, <2>8, <3>2, <4>2
    <3> QED BY <3>1, <3>2
  <2>11. HasUpserted(i)' BY <2>1, <2>2, <2>7, <2>10 DEF HasUpserted
  <2> QED BY <2>1, <2>11, UpsertedFrame
<1>5. ASSUME NEW i \in Imports, UpsertContacts(i) PROVE AllUpserted'
  <2>1. Others(i) /\ tx'[i].pc = "commit" /\ tx'[i].file = tx[i].file /\ tx'[i].next = tx[i].next
    BY <1>5, ContactsUpserted
  <2>2. tx[i].pc = "persist" /\ Type(Content[tx[i].file]) = "CONTACTS"
    BY <1>5 DEF UpsertContacts, At
  <2>3. Data(i).products = <<>> BY <2>2, SessionProducts
  <2>4. Data(i)'.products = <<>> BY <2>1, <2>3 DEF Data
  <2>5. tx[i].next \in Nat \ {0} BY DEF RequestsTyped
  <2>6. HasUpserted(i)' BY <2>1, <2>4, <2>5 DEF HasUpserted
  <2> QED BY <2>1, <2>6, UpsertedFrame
<1>6. ASSUME NEW i \in Imports, LinkSuppliers(i) PROVE AllUpserted'
  <2>1. /\ Others(i) /\ tx'[i].pc = "commit" /\ tx'[i].file = tx[i].file
        /\ tx'[i].next = tx[i].next /\ tx'[i].mine = tx[i].mine
    BY <1>6, LinkRows
  <2>2. tx[i].pc = "persist" /\ tx[i].next > Len(Data(i).products)
    BY <1>6 DEF LinkSuppliers, At
  <2>3. Data(i)' = Data(i) BY <2>1 DEF Data
  <2>4. HasUpserted(i)' BY <2>1, <2>2, <2>3 DEF HasUpserted, AllUpserted
  <2> QED BY <2>1, <2>4, UpsertedFrame
<1>7. ASSUME UNCHANGED tx PROVE AllUpserted' BY <1>7 DEF AllUpserted, Data
<1>8. ASSUME NEW c \in Campaigns, (\E b \in Imports : SelectSource(c, b)) \/ Start(c)
      PROVE  AllUpserted'
  BY <1>7, <1>8 DEF SelectSource, Start
<1> QED BY <1>1, <1>2, <1>3, <1>4, <1>5, <1>6, <1>7, <1>8 DEF Next, Proceed, vars

\* What a batch leaves is of products, with a quantity.
LEMMA StockTyped ==
    ASSUME Begun, WholeOrNothing, NEW b \in Imports
    PROVE  stock[b] \in Seq([ref: Refs, quantity: Amounts]) /\ moves[b] \in Seq(Movement)
<1>1. CASE stock[b] = <<>> /\ moves[b] = <<>> BY <1>1
<1>2. CASE WholeFile(b) /\ batches[b] # None
  <2>1. tx[b].file \in Files /\ Accepted(Content[tx[b].file]) BY <1>2 DEF Begun
  <2> QED BY <1>2, <2>1, StockTypes, MovementTypes DEF WholeFile
<1> QED BY <1>1, <1>2 DEF WholeOrNothing

\* What a batch left is of products, in quantities.
LEMMA StockRefs ==
    ASSUME Begun, WholeOrNothing, NEW b \in Imports, NEW n \in DOMAIN stock[b]
    PROVE  stock[b][n].ref \in Refs /\ stock[b][n].quantity \in Amounts
<1> DEFINE left == stock[b]
           U == [ref: Refs, quantity: Amounts]
<1>1. left \in Seq(U) /\ n \in DOMAIN left BY StockTyped
<1> HIDE DEF left, U
<1>2. left[n] \in U BY <1>1
<1> QED BY <1>2 DEF left, U

\* Products in stock are there: they were committed with it and nothing removes them.
LEMMA StockKnownStep ==
    ASSUME RequestsTyped, DatabaseTyped, Begun, SessionKeeps, AllUpserted, StockKnown,
           WholeOrNothing, [Next]_vars
    PROVE  StockKnown'
<1>1. ASSUME stock' = stock, rows' = rows PROVE StockKnown' BY <1>1 DEF StockKnown
<1>2. ASSUME NEW i \in Imports, NEW answered \in BOOLEAN, Commit(i, answered) PROVE StockKnown'
  <2>1. /\ tx[i].pc = "commit" /\ stock'[i] = StockOf(Data(i))
        /\ \A b \in Imports \ {i} : stock'[b] = stock[b]
    BY <1>2 DEF Commit, At, DatabaseTyped
  <2>2. \A r \in Refs : /\ rows[r] # None => rows'[r] # None
                        /\ tx[i].mine[r] # None => rows'[r] # None
    BY <1>2, CommitKeeps
  <2>3. tx[i].file \in Files /\ Accepted(Content[tx[i].file]) /\ Data(i) = Parsed[tx[i].file]
    BY <2>1 DEF Begun, Data
  <2> SUFFICES ASSUME NEW b \in Imports, NEW n \in DOMAIN stock'[b]
               PROVE  rows'[stock'[b][n].ref] # None
    BY DEF StockKnown
  <2>4. CASE b = i
    <3> DEFINE products == Data(i).products
               left == StockOf(Data(i))
    <3>1. n \in DOMAIN left /\ stock'[b] = left BY <2>1, <2>4
    <3>2. \E m \in DOMAIN products : left[n].ref = products[m].ref
      BY <2>3, <3>1, StockNames
    <3>3. PICK m \in DOMAIN products : left[n].ref = products[m].ref BY <3>2
    <3>4. /\ DOMAIN products = 1..Len(products) /\ Len(products) \in Nat
          /\ products[m].ref \in Refs
      BY <2>1, <3>3, SessionProducts
    <3>5. tx[i].next > Len(products) /\ tx[i].next \in Nat BY <2>1 DEF AllUpserted, RequestsTyped
    <3>6. m < tx[i].next BY <3>4, <3>5
    <3>7. tx[i].mine[products[m].ref] # None BY <2>1, <3>6 DEF AllUpserted
    <3> QED BY <2>2, <3>1, <3>3, <3>4, <3>7
  <2>5. CASE b # i
    <3>1. stock'[b] = stock[b] BY <2>1, <2>5
    <3>2. rows[stock[b][n].ref] # None BY <3>1 DEF StockKnown
    <3>3. stock[b][n].ref \in Refs BY <3>1, StockRefs
    <3> QED BY <2>2, <3>1, <3>2, <3>3
  <2> QED BY <2>4, <2>5
<1> QED BY <1>1, <1>2, DatabaseStep DEF database, Create, RecordFailure

-----------------------------------------------------------------------------
(* Campaigns and what they have frozen.                                    *)

\* A request that has begun stays so, and with its file.
FilesStay ==
    \A i \in Imports : tx[i].pc # "idle" => tx'[i].pc # "idle" /\ tx'[i].file = tx[i].file

\* A request that has begun keeps its file.
LEMMA FilesFrame ==
    ASSUME NEW i \in Imports, Others(i),
           tx[i].pc # "idle" => tx'[i].pc # "idle" /\ tx'[i].file = tx[i].file
    PROVE  FilesStay
BY DEF Others, FilesStay

\* So does every step.
LEMMA StepsKeepFiles ==
    ASSUME RequestsTyped, Begun, [Next]_vars
    PROVE  FilesStay
<1>1. ASSUME NEW i \in Imports, NEW f \in Files, Begin(i, f) PROVE FilesStay
  <2>1. Others(i) /\ tx[i].pc = "idle" BY <1>1, BeginRow DEF Begin, At
  <2> QED BY <2>1, FilesFrame
<1>2. ASSUME NEW i \in Imports, FindNone(i) \/ Create(i) \/ CreateRefused(i) PROVE FilesStay
  <2>1. PICK pc \in {"create", "persist", "lost"} : tx' = [tx EXCEPT ![i].pc = pc]
    BY <1>2 DEF FindNone, Create, CreateRefused
  <2>2. Others(i) /\ tx'[i].pc = pc /\ tx'[i].file = tx[i].file BY <2>1, PcRow
  <2> QED BY <2>2, FilesFrame
<1>3. ASSUME NEW i \in Imports,
             \/ FindActive(i) \/ FindWinner(i) \/ (\E answered \in BOOLEAN : Commit(i, answered))
             \/ Fail(i) \/ RecordFailure(i) \/ Die(i)
      PROVE  FilesStay
  <2>1. PICK pc, told : pc \in Ended \cup {"failing"} /\ End(i, pc, told)
    BY <1>3 DEF FindActive, FindWinner, Commit, Fail, RecordFailure, Die, Ended
  <2>2. Others(i) /\ tx'[i].pc = pc /\ tx'[i].file = tx[i].file BY <2>1, EndRow
  <2>3. pc # "idle" BY <2>1 DEF Ended
  <2> QED BY <2>2, <2>3, FilesFrame
<1>4. ASSUME NEW i \in Imports, UpsertProduct(i) \/ UpsertContacts(i) \/ LinkSuppliers(i)
      PROVE  FilesStay
  <2>1. Others(i) /\ tx'[i].pc \in {"persist", "commit"} /\ tx'[i].file = tx[i].file
    BY <1>4, UpsertRows
  <2> QED BY <2>1, FilesFrame
<1>5. ASSUME UNCHANGED tx PROVE FilesStay BY <1>5 DEF FilesStay
<1>6. ASSUME NEW c \in Campaigns, (\E b \in Imports : SelectSource(c, b)) \/ Start(c)
      PROVE  FilesStay
  BY <1>5, <1>6 DEF SelectSource, Start
<1> QED BY <1>1, <1>2, <1>3, <1>4, <1>5, <1>6 DEF Next, Proceed, vars

\* A cost is zero where there is no price above it.
LEMMA CostOf ==
    ASSUME NEW cost \in Amounts \cup {None}, NEW consignment \in Amounts \cup {None}
    PROVE  /\ EffectiveCost(cost, consignment).amount \in Amounts
           /\ EffectiveCost(cost, consignment).amount = 0 <=>
                 (cost = None \/ cost <= 0) /\ (consignment = None \/ consignment <= 0)
<1>1. CASE cost # None /\ cost > 0
  <2>1. EffectiveCost(cost, consignment).amount = cost BY <1>1 DEF EffectiveCost
  <2> QED BY <1>1, <2>1, AmountsAssumption
<1>2. CASE ~(cost # None /\ cost > 0) /\ consignment # None /\ consignment > 0
  <2>1. EffectiveCost(cost, consignment).amount = consignment BY <1>2 DEF EffectiveCost
  <2> QED BY <1>2, <2>1, AmountsAssumption
<1>3. CASE ~(cost # None /\ cost > 0) /\ ~(consignment # None /\ consignment > 0)
  <2>1. EffectiveCost(cost, consignment).amount = 0 BY <1>3 DEF EffectiveCost
  <2> QED BY <1>3, <2>1, AmountsAssumption
<1> QED BY <1>1, <1>2, <1>3

\* What is frozen of a row of stock.
ItemOf(s) ==
    [ref |-> s.ref, quantity |-> s.quantity, name |-> rows[s.ref]["name"],
     prices |-> [p \in Prices |-> rows[s.ref][p]],
     cost |-> EffectiveCost(rows[s.ref]["cost"], rows[s.ref]["consignment_cost"]).amount]

\* The items of a snapshot are the stock that is not zero.
LEMMA SnapshotItems ==
    ASSUME NEW b, NEW x
    PROVE  x \in Snapshot(b) <=> \E n \in DOMAIN stock[b] : /\ stock[b][n].quantity # 0
                                                            /\ x = ItemOf(stock[b][n])
BY DEF Snapshot, ItemOf

\* An item takes its quantity from the stock, and costs nothing where no price is positive.
LEMMA ItemTyped ==
    ASSUME Begun, WholeOrNothing, SessionKeeps, StockKnown,
           NEW b \in Imports, NEW n \in DOMAIN stock[b]
    PROVE  LET s == stock[b][n]
           IN  /\ ItemOf(s) \in Item /\ ItemOf(s).ref = s.ref /\ ItemOf(s).quantity = s.quantity
               /\ ItemOf(s).cost = 0 <=> \A p \in {"cost", "consignment_cost"} :
                                     ItemOf(s).prices[p] = None \/ ItemOf(s).prices[p] <= 0
<1> DEFINE s == stock[b][n]
           row == rows[s.ref]
           amount == EffectiveCost(row["cost"], row["consignment_cost"]).amount
<1>1. s.ref \in Refs /\ s.quantity \in Amounts BY StockRefs
<1>2. row \in ProductRow BY <1>1 DEF SessionKeeps, StockKnown
<1>3. ItemOf(s) = [ref |-> s.ref, quantity |-> s.quantity, name |-> row["name"],
                   prices |-> [p \in Prices |-> row[p]], cost |-> amount]
  BY DEF ItemOf
<1> HIDE DEF s, row, amount
<1>4. row["name"] \in Values /\ \A p \in Prices : row[p] \in Values /\ row[p] \in Amounts \cup {None}
  BY <1>2 DEF ProductRow
<1>5. "cost" \in Prices /\ "consignment_cost" \in Prices BY DEF Prices
<1>6. /\ amount \in Amounts
      /\ amount = 0 <=> /\ row["cost"] = None \/ row["cost"] <= 0
                        /\ row["consignment_cost"] = None \/ row["consignment_cost"] <= 0
  BY <1>4, <1>5, CostOf DEF amount
<1>7. [p \in Prices |-> row[p]] \in [Prices -> Values] BY <1>4
<1>8. ItemOf(s) \in Item BY <1>1, <1>3, <1>4, <1>6, <1>7 DEF Item
<1>9. /\ ItemOf(s).ref = s.ref /\ ItemOf(s).quantity = s.quantity /\ ItemOf(s).cost = amount
      /\ \A p \in Prices : ItemOf(s).prices[p] = row[p]
  BY <1>3
<1> QED BY <1>5, <1>6, <1>8, <1>9 DEF s

\* A snapshot consists of items.
LEMMA SnapshotTyped ==
    ASSUME Begun, WholeOrNothing, SessionKeeps, StockKnown, NEW b \in Imports
    PROVE  Snapshot(b) \in SUBSET Item
BY SnapshotItems, ItemTyped

\* The snapshot of a batch that has stock, no product of which has two rows.
LEMMA SnapshotIsOfFile ==
    ASSUME Begun, WholeOrNothing, SessionKeeps, StockKnown,
           NEW b \in Imports, Eligible(b), Consistent(b)
    PROVE  tx[b].pc # "idle" /\ OfOneFile(tx[b].file, Snapshot(b))
<1> DEFINE f == tx[b].file
           left == stock[b]
<1>1. batches[b] # None BY DEF Eligible, Complete, Active
<1>2. tx[b].pc # "idle" /\ f \in Files /\ Accepted(Content[f]) BY <1>1 DEF Begun
<1>3. left = StockOf(Parsed[f]) BY DEF WholeOrNothing, WholeFile, Eligible
<1>4. \A x \in Snapshot(b) : \E n \in DOMAIN left :
         left[n].quantity # 0 /\ x = ItemOf(left[n])
  BY SnapshotItems
<1>5. \A n \in DOMAIN left :
         /\ left[n].quantity # 0 => ItemOf(left[n]) \in Snapshot(b)
         /\ ItemOf(left[n]).ref = left[n].ref /\ ItemOf(left[n]).quantity = left[n].quantity
         /\ ItemOf(left[n]).cost = 0 <=> \A p \in {"cost", "consignment_cost"} :
                       ItemOf(left[n]).prices[p] = None \/ ItemOf(left[n]).prices[p] <= 0
  BY SnapshotItems, ItemTyped
<1>6. \A m, n \in DOMAIN left : left[m].ref = left[n].ref => m = n BY DEF Consistent
<1>7. left \in Seq([ref: Refs, quantity: Amounts]) /\ Len(left) \in Nat
      /\ DOMAIN left = 1..Len(left)
  <2> DEFINE U == [ref: Refs, quantity: Amounts]
  <2>1. left \in Seq(U) BY StockTyped
  <2> HIDE DEF U, left
  <2>2. Len(left) \in Nat /\ DOMAIN left = 1..Len(left) BY <2>1
  <2> QED BY <2>1, <2>2 DEF U
<1> HIDE DEF left
<1>8. ASSUME NEW x \in Snapshot(b), NEW y \in Snapshot(b), x.ref = y.ref PROVE x = y
  BY <1>4, <1>5, <1>6, <1>8
<1>9. ASSUME NEW r \in Refs, NEW q \in Amounts \ {0}
      PROVE  (StockRows[f][r][q] # {}) <=> \E x \in Snapshot(b) : x.ref = r /\ x.quantity = q
  <2> DEFINE A == {n \in DOMAIN left : left[n] = [ref |-> r, quantity |-> q]}
             B == StockRows[f][r][q]
  <2>1. Cardinality(A) = Cardinality(B) BY <1>2, <1>3, StockCounts
  <2>2. IsFiniteSet(A) /\ IsFiniteSet(B)
    <3>1. Lines(Content[f]) \in Nat /\ DOMAIN Content[f].rows = 1..Lines(Content[f])
      BY <1>2, FileOf
    <3>2. B \subseteq 1..Lines(Content[f]) BY <1>2, <3>1 DEF StockRows
    <3>3. A \subseteq 1..Len(left) BY <1>7
    <3>4. IsFiniteSet(1..Lines(Content[f])) /\ IsFiniteSet(1..Len(left))
      BY <1>7, <3>1, FS_Interval
    <3> HIDE DEF A, B
    <3> QED BY <3>2, <3>3, <3>4, FS_Subset
  <2>3. B # {} <=> A # {}
    <3> HIDE DEF A, B
    <3> QED BY <2>1, <2>2, FS_EmptySet
  <2>4. ASSUME NEW n \in A PROVE \E x \in Snapshot(b) : x.ref = r /\ x.quantity = q
    <3>1. n \in DOMAIN left /\ left[n].ref = r /\ left[n].quantity = q BY <2>4
    <3> QED BY <1>5, <3>1
  <2>5. ASSUME NEW x \in Snapshot(b), x.ref = r, x.quantity = q PROVE A # {}
    <3>1. PICK n \in DOMAIN left : x = ItemOf(left[n]) BY <1>4
    <3>2. left[n].ref = r /\ left[n].quantity = q BY <1>5, <2>5, <3>1
    <3>3. left[n] \in [ref: Refs, quantity: Amounts]
      <4> DEFINE U == [ref: Refs, quantity: Amounts]
      <4>1. left \in Seq(U) BY <1>7
      <4> HIDE DEF U
      <4>2. left[n] \in U BY <3>1, <4>1
      <4> QED BY <4>2 DEF U
    <3>4. left[n] = [ref |-> r, quantity |-> q] BY <3>2, <3>3
    <3>5. n \in A BY <3>1, <3>4
    <3> QED BY <3>5
  <2> QED BY <2>3, <2>4, <2>5
<1>10. ASSUME NEW x \in Snapshot(b)
       PROVE  /\ x.quantity # 0
              /\ x.cost = 0 <=> \A p \in {"cost", "consignment_cost"} :
                                    x.prices[p] = None \/ x.prices[p] <= 0
  <2>1. PICK n \in DOMAIN left : left[n].quantity # 0 /\ x = ItemOf(left[n]) BY <1>4
  <2> QED BY <1>5, <2>1
<1> QED BY <1>2, <1>8, <1>9, <1>10 DEF OfOneFile

\* A frozen snapshot was taken of one file, and stays.
LEMMA CampaignsStep ==
    ASSUME ImportInv, StockKnown, CampaignsTyped, FrozenOfOneFile, [Next]_vars
    PROVE  CampaignsTyped' /\ FrozenOfOneFile'
<1> USE DEF ImportInv
<1>1. FilesStay BY StepsKeepFiles
<1>2. ASSUME NEW c \in Campaigns, campaigns[c].frozen
      PROVE  /\ campaigns[c].source \in Imports /\ tx'[campaigns[c].source].pc # "idle"
             /\ OfOneFile(tx'[campaigns[c].source].file, campaigns[c].items)
  BY <1>1, <1>2 DEF FrozenOfOneFile, FilesStay
<1>3. CASE UNCHANGED campaigns
  <2>1. CampaignsTyped' BY <1>3 DEF CampaignsTyped
  <2>2. FrozenOfOneFile' BY <1>2, <1>3 DEF FrozenOfOneFile, OfOneFile
  <2> QED BY <2>1, <2>2
<1>4. ASSUME NEW c \in Campaigns, NEW b \in Imports, SelectSource(c, b)
      PROVE  CampaignsTyped' /\ FrozenOfOneFile'
  <2>1. /\ ~campaigns[c].frozen /\ campaigns' = [campaigns EXCEPT ![c].source = b]
    BY <1>4 DEF SelectSource
  <2>2. CampaignsTyped' BY <2>1 DEF CampaignsTyped
  <2>3. \A d \in Campaigns : campaigns'[d].frozen => campaigns'[d] = campaigns[d]
    <3> SUFFICES ASSUME NEW d \in Campaigns, campaigns'[d].frozen
                 PROVE  campaigns'[d] = campaigns[d]
      OBVIOUS
    <3>1. CASE d = c
      <4>1. campaigns'[c] = [campaigns[c] EXCEPT !.source = b] BY <2>1 DEF CampaignsTyped
      <4>2. campaigns[c] \in [source: Imports \cup {None}, frozen: BOOLEAN, items: SUBSET Item]
        BY DEF CampaignsTyped
      <4>3. campaigns'[c].frozen = campaigns[c].frozen BY <4>1, <4>2
      <4> QED BY <2>1, <3>1, <4>3
    <3>2. CASE d # c BY <2>1, <3>2 DEF CampaignsTyped
    <3> QED BY <3>1, <3>2
  <2>4. \A d \in Campaigns : campaigns'[d].frozen => campaigns[d].frozen BY <2>3
  <2>5. FrozenOfOneFile'
    <3> SUFFICES ASSUME NEW d \in Campaigns, campaigns'[d].frozen
                 PROVE  /\ campaigns'[d].source \in Imports
                        /\ tx'[campaigns'[d].source].pc # "idle"
                        /\ OfOneFile(tx'[campaigns'[d].source].file, campaigns'[d].items)
      BY DEF FrozenOfOneFile, OfOneFile
    <3> QED BY <1>2, <2>3, <2>4
  <2> QED BY <2>2, <2>5
<1>5. ASSUME NEW c \in Campaigns, Start(c) PROVE CampaignsTyped' /\ FrozenOfOneFile'
  <2> DEFINE b == campaigns[c].source
             items == Snapshot(b)
  <2>1. /\ b # None /\ Eligible(b) /\ Consistent(b) /\ UNCHANGED <<database, tx>>
        /\ campaigns' = [campaigns EXCEPT ![c] = [campaigns[c] EXCEPT !.frozen = TRUE,
                                                                     !.items = items]]
    BY <1>5 DEF Start
  <2>2. b \in Imports BY <2>1 DEF CampaignsTyped
  <2>3. items \in SUBSET Item BY <2>2, SnapshotTyped
  <2>4. tx[b].pc # "idle" /\ OfOneFile(tx[b].file, items) BY <2>1, <2>2, SnapshotIsOfFile
  <2> HIDE DEF b, items
  <2>5. campaigns[c] \in [source: Imports \cup {None}, frozen: BOOLEAN, items: SUBSET Item]
    BY DEF CampaignsTyped
  <2>6. CampaignsTyped' BY <2>1, <2>3 DEF CampaignsTyped
  <2>7. /\ campaigns'[c].source = b /\ campaigns'[c].items = items
        /\ \A d \in Campaigns : d # c => campaigns'[d] = campaigns[d]
    BY <2>1, <2>5 DEF CampaignsTyped, b
  <2>8. FrozenOfOneFile'
    <3> SUFFICES ASSUME NEW d \in Campaigns, campaigns'[d].frozen
                 PROVE  /\ campaigns'[d].source \in Imports
                        /\ tx'[campaigns'[d].source].pc # "idle"
                        /\ OfOneFile(tx'[campaigns'[d].source].file, campaigns'[d].items)
      BY DEF FrozenOfOneFile, OfOneFile
    <3>1. CASE d = c BY <2>1, <2>2, <2>4, <2>7, <3>1
    <3>2. CASE d # c BY <1>2, <2>7, <3>2
    <3> QED BY <3>1, <3>2
  <2> QED BY <2>6, <2>8
<1> QED BY <1>3, <1>4, <1>5
    DEF Next, Proceed, vars, Begin, FindActive, FindNone, Create, CreateRefused, FindWinner,
        UpsertProduct, UpsertContacts, LinkSuppliers, Commit, Fail, RecordFailure, Die

-----------------------------------------------------------------------------
(* How far a request is from its end.                                      *)

\* Who is at a batch goes on with it, and no further than its products go.
AtWork ==
    \A i \in Imports :
        /\ batches[i] = "PROCESSING" => tx[i].pc \in {"persist", "commit", "failing", "dead"}
        /\ tx[i].pc = "persist" => tx[i].next <= Len(Data(i).products) + 1

\* The most steps its thread can take, whatever happens to it.
StepsLeft(i) ==
    LET products == Len(Data(i).products)
    IN  CASE tx[i].pc = "find" -> products + 6
          [] tx[i].pc = "create" -> products + 5
          [] tx[i].pc = "persist" -> products + 4 - tx[i].next
          [] tx[i].pc = "commit" -> 2
          [] tx[i].pc \in {"lost", "failing"} -> 1
          [] OTHER -> 0

\* A step of one request leaves the others at their work.
LEMMA AtWorkFrame ==
    ASSUME AtWork, NEW i \in Imports, Others(i),
           \A b \in Imports \ {i} : batches'[b] = batches[b],
           batches'[i] = "PROCESSING" => tx'[i].pc \in {"persist", "commit", "failing", "dead"},
           tx'[i].pc = "persist" => tx'[i].next <= Len(Data(i)'.products) + 1
    PROVE  AtWork'
<1> SUFFICES ASSUME NEW j \in Imports
             PROVE  /\ batches'[j] = "PROCESSING" =>
                          tx'[j].pc \in {"persist", "commit", "failing", "dead"}
                    /\ tx'[j].pc = "persist" => tx'[j].next <= Len(Data(j)'.products) + 1
  BY DEF AtWork
<1>1. CASE j = i BY <1>1
<1>2. CASE j # i
  <2>1. tx'[j] = tx[j] /\ batches'[j] = batches[j] BY <1>2 DEF Others
  <2>2. Data(j)' = Data(j) BY <2>1 DEF Data
  <2> QED BY <2>1, <2>2 DEF AtWork
<1> QED BY <1>1, <1>2

\* No step leaves a batch in PROCESSING without its request.
LEMMA AtWorkStep ==
    ASSUME ImportInv, TableInv, AtWork, [Next]_vars
    PROVE  AtWork'
<1> USE DEF ImportInv
<1>1. ASSUME NEW i \in Imports, NEW f \in Files, Begin(i, f) PROVE AtWork'
  <2>1. Others(i) /\ tx'[i].pc = "find" /\ batches' = batches /\ batches[i] = None
    BY <1>1, BeginRow DEF Begin, At, Begun, database
  <2> QED BY <2>1, AtWorkFrame DEF Active
<1>2. ASSUME NEW i \in Imports, FindNone(i) \/ CreateRefused(i) PROVE AtWork'
  <2>1. PICK pc \in {"create", "lost"} : tx' = [tx EXCEPT ![i].pc = pc]
    BY <1>2 DEF FindNone, CreateRefused
  <2>2. Others(i) /\ tx'[i].pc = pc BY <2>1, PcRow
  <2>3. batches' = batches /\ batches[i] = None
    BY <1>2 DEF FindNone, CreateRefused, At, Begun, database
  <2> QED BY <2>2, <2>3, AtWorkFrame DEF Active
<1>3. ASSUME NEW i \in Imports, Create(i) PROVE AtWork'
  <2>1. tx' = [tx EXCEPT ![i].pc = "persist"] /\ tx[i].pc = "create" BY <1>3 DEF Create, At
  <2>2. Others(i) /\ tx'[i].pc = "persist" /\ tx'[i].next = tx[i].next /\ tx'[i].file = tx[i].file
    BY <2>1, PcRow
  <2>3. tx[i].next = 1 BY <2>1 DEF TableInv, AllUpserted
  <2>4. Data(i)' = Data(i) /\ Len(Data(i).products) \in Nat
    BY <2>1, <2>2, SessionProducts DEF Data
  <2>5. \A b \in Imports \ {i} : batches'[b] = batches[b] BY <1>3 DEF Create, DatabaseTyped
  <2>6. 1 <= Len(Data(i).products) + 1 BY <2>4
  <2>7. tx'[i].next <= Len(Data(i)'.products) + 1 BY <2>2, <2>3, <2>4, <2>6
  <2> QED BY <2>2, <2>5, <2>7, AtWorkFrame
<1>4. ASSUME NEW i \in Imports, FindActive(i) \/ FindWinner(i) \/ Fail(i) \/ Die(i) PROVE AtWork'
  <2>1. PICK pc, told : pc \in {"already", "failing", "dead"} /\ End(i, pc, told)
    BY <1>4 DEF FindActive, FindWinner, Fail, Die
  <2>2. Others(i) /\ tx'[i].pc = pc /\ batches' = batches
    BY <1>4, <2>1, EndRow DEF FindActive, FindWinner, Fail, Die, database
  <2>3. pc = "already" => batches[i] = None
    <3>1. CASE FindActive(i) \/ FindWinner(i)
      BY <3>1 DEF FindActive, FindWinner, At, Begun
    <3>2. CASE Fail(i) \/ Die(i)
      <4>1. \E q, t : q \in {"failing", "dead"} /\ End(i, q, t) BY <3>2 DEF Fail, Die
      <4>2. tx'[i].pc \in {"failing", "dead"} BY <4>1, EndRow
      <4> QED BY <2>2, <4>2
    <3> QED BY <1>4, <3>1, <3>2
  <2>4. batches[i] = "PROCESSING" => pc \in {"failing", "dead"} BY <2>1, <2>3 DEF Active
  <2> QED BY <2>1, <2>2, <2>4, AtWorkFrame
<1>5. ASSUME NEW i \in Imports, UpsertProduct(i) PROVE AtWork'
  <2>1. /\ Others(i) /\ tx'[i].pc = tx[i].pc /\ tx'[i].file = tx[i].file
        /\ tx'[i].next = tx[i].next + 1
    BY <1>5, ProductUpserted
  <2>2. /\ tx[i].pc = "persist" /\ tx[i].next <= Len(Data(i).products) /\ tx[i].next \in Nat
        /\ batches' = batches
    BY <1>5 DEF UpsertProduct, At, RequestsTyped, database
  <2>3. Data(i)' = Data(i) /\ Len(Data(i).products) \in Nat
    BY <2>1, <2>2, SessionProducts DEF Data
  <2>4. tx'[i].next <= Len(Data(i)'.products) + 1 BY <2>1, <2>2, <2>3
  <2> QED BY <2>1, <2>2, <2>4, AtWorkFrame
<1>6. ASSUME NEW i \in Imports, UpsertContacts(i) \/ LinkSuppliers(i) PROVE AtWork'
  <2>1. Others(i) /\ tx'[i].pc = "commit" BY <1>6, ContactsUpserted, LinkRows
  <2>2. batches' = batches BY <1>6 DEF UpsertContacts, LinkSuppliers, database
  <2> QED BY <2>1, <2>2, AtWorkFrame
<1>7. ASSUME NEW i \in Imports, RecordFailure(i) \/ \E answered \in BOOLEAN : Commit(i, answered)
      PROVE  AtWork'
  <2>1. PICK pc, told : pc \in {"done", "failing", "failed"} /\ End(i, pc, told)
    BY <1>7 DEF RecordFailure, Commit
  <2>2. Others(i) /\ tx'[i].pc = pc BY <2>1, EndRow
  <2>3. /\ batches'[i] # "PROCESSING"
        /\ \A b \in Imports \ {i} : batches'[b] = batches[b]
    BY <1>7 DEF RecordFailure, Commit, DatabaseTyped
  <2> QED BY <2>1, <2>2, <2>3, AtWorkFrame
<1>8. ASSUME UNCHANGED <<database, tx>> PROVE AtWork' BY <1>8 DEF AtWork, Data, database
<1>9. ASSUME NEW c \in Campaigns, (\E b \in Imports : SelectSource(c, b)) \/ Start(c)
      PROVE  AtWork'
  BY <1>8, <1>9 DEF SelectSource, Start
<1> QED BY <1>1, <1>2, <1>3, <1>4, <1>5, <1>6, <1>7, <1>8, <1>9 DEF Next, Proceed, vars

\* It ends up with fewer of them after each of its steps.
LEMMA StepsCounted ==
    ASSUME ImportInv, AtWork, NEW i \in Imports
    PROVE  StepsLeft(i) \in Nat
<1> DEFINE products == Len(Data(i).products)
<1>1. CASE tx[i].pc = "idle" BY <1>1 DEF StepsLeft
<1>2. CASE tx[i].pc # "idle"
  <2>1. products \in Nat /\ tx[i].next \in Nat
    BY <1>2, SessionProducts DEF ImportInv, RequestsTyped
  <2>2. tx[i].pc = "persist" => tx[i].next <= products + 1 BY DEF AtWork
  <2> HIDE DEF products
  <2>3. tx[i].pc = "persist" => products + 4 - tx[i].next \in Nat BY <2>1, <2>2
  <2> QED BY <2>1, <2>3 DEF StepsLeft, products
<1> QED BY <1>1, <1>2

\* Every step of its own leaves a request with fewer of them, and the others alone.
LEMMA StepsDrop ==
    ASSUME ImportInv, TableInv, AtWork, NEW i \in Imports, Proceed(i)
    PROVE  Others(i) /\ StepsLeft(i)' \in Int /\ StepsLeft(i)' < StepsLeft(i)
<1> USE DEF ImportInv
<1> DEFINE products == Len(Data(i).products)
<1>1. tx[i].pc # "idle"
  BY DEF Proceed, FindActive, FindNone, Create, CreateRefused, FindWinner, UpsertProduct,
         UpsertContacts, LinkSuppliers, Commit, Fail, RecordFailure, At
<1>2. products \in Nat /\ tx[i].next \in Nat BY <1>1, SessionProducts DEF RequestsTyped
<1>3. tx[i].pc = "persist" => tx[i].next <= products + 1 BY DEF AtWork
<1>4. ASSUME tx'[i].file = tx[i].file PROVE Data(i)' = Data(i) BY <1>4 DEF Data
<1>5. CASE FindNone(i) \/ CreateRefused(i)
  <2>1. PICK pc \in {"create", "lost"} :
           /\ tx' = [tx EXCEPT ![i].pc = pc]
           /\ tx[i].pc = IF pc = "create" THEN "find" ELSE "create"
    <3>1. CASE FindNone(i) BY <3>1 DEF FindNone, At
    <3>2. CASE CreateRefused(i) BY <3>2 DEF CreateRefused, At
    <3> QED BY <1>5, <3>1, <3>2
  <2>2. Others(i) /\ tx'[i].pc = pc /\ tx'[i].file = tx[i].file BY <2>1, PcRow
  <2> HIDE DEF products
  <2>3. StepsLeft(i) = IF tx[i].pc = "find" THEN products + 6 ELSE products + 5
    BY <2>1 DEF StepsLeft, products
  <2>4. StepsLeft(i)' = IF pc = "create" THEN products + 5 ELSE 1
    BY <1>4, <2>1, <2>2 DEF StepsLeft, products
  <2>5. StepsLeft(i)' \in Int /\ StepsLeft(i)' < StepsLeft(i) BY <1>2, <2>1, <2>3, <2>4
  <2> QED BY <2>2, <2>5
<1>6. CASE Create(i)
  <2>1. tx' = [tx EXCEPT ![i].pc = "persist"] /\ tx[i].pc = "create" BY <1>6 DEF Create, At
  <2>2. Others(i) /\ tx'[i].pc = "persist" /\ tx'[i].file = tx[i].file /\ tx'[i].next = tx[i].next
    BY <2>1, PcRow
  <2>3. tx[i].next = 1 BY <2>1 DEF TableInv, AllUpserted
  <2> HIDE DEF products
  <2>4. StepsLeft(i) = products + 5 /\ StepsLeft(i)' = products + 4 - 1
    BY <1>4, <2>1, <2>2, <2>3 DEF StepsLeft, products
  <2>5. StepsLeft(i)' \in Int /\ StepsLeft(i)' < StepsLeft(i) BY <1>2, <2>4
  <2> QED BY <2>2, <2>5
<1>7. CASE FindActive(i) \/ FindWinner(i) \/ RecordFailure(i)
  <2>1. /\ \E pc, told : pc \in {"already", "failed"} /\ End(i, pc, told)
        /\ tx[i].pc \in {"find", "lost", "failing"}
    BY <1>7 DEF FindActive, FindWinner, RecordFailure, At
  <2>2. Others(i) /\ tx'[i].pc \in {"already", "failed"} BY <2>1, EndRow
  <2> HIDE DEF products
  <2>3. StepsLeft(i) = IF tx[i].pc = "find" THEN products + 6 ELSE 1
    BY <2>1 DEF StepsLeft, products
  <2>4. StepsLeft(i)' = 0 BY <2>2 DEF StepsLeft
  <2>5. StepsLeft(i)' \in Int /\ StepsLeft(i)' < StepsLeft(i) BY <1>2, <2>3, <2>4
  <2> QED BY <2>2, <2>5
<1>8. CASE UpsertProduct(i)
  <2>1. /\ Others(i) /\ tx'[i].pc = tx[i].pc /\ tx'[i].file = tx[i].file
        /\ tx'[i].next = tx[i].next + 1
    BY <1>8, ProductUpserted
  <2>2. tx[i].pc = "persist" BY <1>8 DEF UpsertProduct, At
  <2> HIDE DEF products
  <2>3. StepsLeft(i) = products + 4 - tx[i].next /\ StepsLeft(i)' = products + 4 - (tx[i].next + 1)
    BY <1>4, <2>1, <2>2 DEF StepsLeft, products
  <2>4. StepsLeft(i)' \in Int /\ StepsLeft(i)' < StepsLeft(i) BY <1>2, <2>3
  <2> QED BY <2>1, <2>4
<1>9. CASE UpsertContacts(i) \/ LinkSuppliers(i)
  <2>1. Others(i) /\ tx'[i].pc = "commit" BY <1>9, ContactsUpserted, LinkRows
  <2>2. tx[i].pc = "persist" BY <1>9 DEF UpsertContacts, LinkSuppliers, At
  <2> HIDE DEF products
  <2>3. StepsLeft(i) = products + 4 - tx[i].next /\ StepsLeft(i)' = 2
    BY <2>1, <2>2 DEF StepsLeft, products
  <2>4. StepsLeft(i)' \in Int /\ StepsLeft(i)' < StepsLeft(i) BY <1>2, <1>3, <2>2, <2>3
  <2> QED BY <2>1, <2>4
<1>10. CASE (\E answered \in BOOLEAN : Commit(i, answered)) \/ Fail(i)
  <2>1. /\ \E pc, told : pc \in {"done", "failing"} /\ End(i, pc, told)
        /\ tx[i].pc \in {"persist", "commit"}
    BY <1>10 DEF Commit, Fail, At
  <2>2. Others(i) /\ tx'[i].pc \in {"done", "failing"} BY <2>1, EndRow
  <2> HIDE DEF products
  <2>3. StepsLeft(i) = IF tx[i].pc = "persist" THEN products + 4 - tx[i].next ELSE 2
    BY <2>1 DEF StepsLeft, products
  <2>4. StepsLeft(i)' \in {0, 1} BY <2>2 DEF StepsLeft
  <2>5. StepsLeft(i)' \in Int /\ StepsLeft(i)' < StepsLeft(i) BY <1>2, <1>3, <2>1, <2>3, <2>4
  <2> QED BY <2>2, <2>5
<1> QED BY <1>5, <1>6, <1>7, <1>8, <1>9, <1>10 DEF Proceed

-----------------------------------------------------------------------------
(* The theorems.                                                           *)

\* Before the first request.
LEMMA Initially == Init => ImportInv
<1> SUFFICES ASSUME Init PROVE ImportInv OBVIOUS
<1>1. \A i \in Imports : /\ tx[i] = Blank /\ batches[i] = None
                         /\ stock[i] = <<>> /\ moves[i] = <<>>
  BY DEF Init
<1>2. /\ Shaped(Blank) /\ OnKeys(Blank.base) /\ OnKeys(Blank.mine) /\ Blank.next = 1
      /\ Blank.pc = "idle" /\ Blank.base = Unread /\ Blank.mine = Unread
  BY DEF Blank, Shaped, OnKeys, Unread
<1>3. RequestsTyped
  <2>1. tx = [i \in Imports |-> tx[i]] BY DEF Init
  <2> QED BY <1>1, <1>2, <2>1 DEF RequestsTyped
<1>4. DatabaseTyped BY DEF Init, DatabaseTyped, OnKeys, Unread
<1>5. Begun BY <1>1, <1>2 DEF Begun
<1>6. OneImportPerFile
  <2>1. \A i \in Imports : batches[i] \notin Active /\ ~At(i, "already")
    BY <1>1, <1>2 DEF At, Active
  <2> QED BY <2>1 DEF OneImportPerFile
<1>7. SessionKeeps
  <2>1. \A r \in Refs : Unread[r] = None BY DEF Unread, Keys
  <2> QED BY <1>1, <1>2, <2>1 DEF Init, SessionKeeps
<1>8. WholeOrNothing BY <1>1 DEF WholeOrNothing, Complete, Active
<1> QED BY <1>3, <1>4, <1>5, <1>6, <1>7, <1>8 DEF ImportInv

\* The tables before the first request.
LEMMA TablesInitially == Init => TableInv
<1> SUFFICES ASSUME Init PROVE TableInv OBVIOUS
<1>1. \A i \in Imports : tx[i] = Blank /\ stock[i] = <<>> BY DEF Init
<1>2. /\ Blank.pc = "idle" /\ Blank.file = None /\ Blank.next = 1 /\ Blank.base = Unread
      /\ Blank.mine = Unread /\ Blank.added = <<>> /\ Blank.missing = FALSE /\ Blank.told = None
  BY DEF Blank
<1>3. FieldsTyped
  <2>1. <<>> \in Seq(Link) OBVIOUS
  <2> QED BY <1>1, <1>2, <2>1 DEF FieldsTyped
<1>4. ContactsKept
  <2>1. \A k \in ContactIds : Unread[k] = None BY DEF Unread, Keys
  <2> QED BY <1>1, <1>2, <2>1 DEF Init, ContactsKept, ContactsTyped
<1>5. links \in SUBSET Link BY DEF Init
<1>6. AllUpserted BY <1>1, <1>2 DEF AllUpserted
<1>7. StockKnown BY <1>1 DEF StockKnown
<1>8. CampaignsTyped /\ FrozenOfOneFile BY DEF Init, CampaignsTyped, FrozenOfOneFile
<1> QED BY <1>3, <1>4, <1>5, <1>6, <1>7, <1>8 DEF TableInv

\* Every step keeps the invariant, ...
LEMMA Inductive == ImportInv /\ [Next]_vars => ImportInv'
<1> SUFFICES ASSUME ImportInv, [Next]_vars PROVE ImportInv' OBVIOUS
<1>1. RequestsTyped' BY RequestsStayTyped DEF ImportInv
<1>2. DatabaseTyped' BY DatabaseStaysTyped DEF ImportInv
<1>3. BatchInv' BY BatchesStep DEF ImportInv, BatchInv
<1>4. SessionKeeps' BY SessionsStep DEF ImportInv
<1> QED BY <1>1, <1>2, <1>3, <1>4 DEF ImportInv, BatchInv

\* ... and with it that of the tables.
LEMMA TablesInductive == ImportInv /\ TableInv /\ [Next]_vars => TableInv'
<1> SUFFICES ASSUME ImportInv, TableInv, [Next]_vars PROVE TableInv' OBVIOUS
<1>1. FieldsTyped' BY FieldsStep DEF ImportInv, TableInv
<1>2. ContactsKept' BY ContactsStep DEF ImportInv, TableInv
<1>3. links' \in SUBSET Link BY LinksStep DEF TableInv
<1>4. AllUpserted' BY UpsertedStep DEF ImportInv, TableInv
<1>5. StockKnown' BY StockKnownStep DEF ImportInv, TableInv
<1>6. CampaignsTyped' /\ FrozenOfOneFile' BY CampaignsStep DEF TableInv
<1> QED BY <1>1, <1>2, <1>3, <1>4, <1>5, <1>6 DEF TableInv

\* The invariant holds always, ...
LEMMA Invariance == Spec => []ImportInv
<1>1. Init => ImportInv BY Initially
<1>2. ImportInv /\ [Next]_vars => ImportInv' BY Inductive
<1> QED BY <1>1, <1>2, PTL DEF Spec

\* ... and that of the tables with it.
LEMMA TableInvariance == Spec => []TableInv
<1>1. Init => TableInv BY TablesInitially
<1>2. ImportInv /\ TableInv /\ [Next]_vars => TableInv' BY TablesInductive
<1> QED BY <1>1, <1>2, Invariance, PTL DEF Spec

\* Every table, and all that a request knows, holds what it may, with any files
\* whose cells do.
THEOREM Typed == Spec => []TypeOK
<1>1. ImportInv /\ TableInv => TypeOK
  <2> SUFFICES ASSUME ImportInv, TableInv PROVE TypeOK OBVIOUS
  <2> USE DEF ImportInv, TableInv
  <2>1. ProductRow \subseteq Row /\ ContactRow \subseteq Row BY DEF ProductRow, ContactRow, Row
  <2>2. ASSUME NEW table, OnKeys(table),
               \A r \in Refs : table[r] \in ProductRow \cup {None},
               \A k \in ContactIds : table[k] \in ContactRow \cup {None}
        PROVE  table \in Table
    <3> DEFINE R == Row \cup {None}
    <3>1. \A k \in Keys : table[k] \in R BY <2>1, <2>2 DEF Keys
    <3> HIDE DEF R
    <3>2. table \in [Keys -> R] BY <2>2, <3>1 DEF OnKeys
    <3> QED BY <3>2 DEF Table, R
  <2>3. rows \in Table
    BY <2>2 DEF DatabaseTyped, SessionKeeps, ContactsKept, ContactsTyped
  <2>4. stock \in [Imports -> Seq([ref: Refs, quantity: Amounts])]
        /\ moves \in [Imports -> Seq(Movement)]
    <3> DEFINE U == Seq([ref: Refs, quantity: Amounts])
               V == Seq(Movement)
    <3>1. \A b \in Imports : stock[b] \in U /\ moves[b] \in V BY StockTyped
    <3>2. /\ stock = [b \in Imports |-> stock[b]] /\ moves = [b \in Imports |-> moves[b]]
      BY DEF DatabaseTyped
    <3> HIDE DEF U, V
    <3>3. stock \in [Imports -> U] /\ moves \in [Imports -> V] BY <3>1, <3>2
    <3> QED BY <3>3 DEF U, V
  <2>5. tx \in [Imports -> Request]
    <3>1. ASSUME NEW i \in Imports PROVE tx[i] \in Request
      <4>1. tx[i].base \in Table /\ tx[i].mine \in Table
        BY <2>2 DEF RequestsTyped, SessionKeeps, ContactsKept
      <4>2. /\ tx[i].pc \in Running \cup Ended \cup {"idle"} /\ tx[i].file \in Files \cup {None}
            /\ tx[i].added \in Seq(Link) /\ tx[i].missing \in BOOLEAN
            /\ tx[i].told \in Imports \cup {None}
        BY DEF FieldsTyped
      <4>3. Shaped(tx[i]) /\ tx[i].next \in Nat BY DEF RequestsTyped
      <4> DEFINE t == tx[i]
                 P == Running \cup Ended \cup {"idle"}
                 L == Seq(Link)
      <4> HIDE DEF t, P, L
      <4>4. t \in [pc: P, file: Files \cup {None}, next: Nat, base: Table, mine: Table,
                   added: L, missing: BOOLEAN, told: Imports \cup {None}]
        BY <4>1, <4>2, <4>3 DEF Shaped, t, P, L
      <4> QED BY <4>4 DEF Request, t, P, L
    <3>2. tx = [i \in Imports |-> tx[i]] BY DEF RequestsTyped
    <3> DEFINE U == Request
    <3> HIDE DEF U
    <3>3. tx \in [Imports -> U] BY <3>1, <3>2 DEF U
    <3> QED BY <3>3 DEF U
  <2>6. batches \in [Imports -> Active \cup {"FAILED", None}] BY DEF DatabaseTyped
  <2> QED BY <2>3, <2>4, <2>5, <2>6 DEF TypeOK, CampaignsTyped
<1> QED BY <1>1, Invariance, TableInvariance, PTL

\* A batch has every row of stock and every movement of its file, each movement
\* with the last product above it, or it has none and is not completed: wherever
\* its request failed or died.
THEOREM AllOrNothingHolds == Spec => []AllOrNothing
<1>1. ImportInv => AllOrNothing
  <2> SUFFICES ASSUME ImportInv, NEW b \in Imports
               PROVE  /\ batches[b] = None => stock[b] = <<>> /\ moves[b] = <<>>
                      /\ batches[b] # None =>
                            \/ HoldsAllOf(b, tx[b].file)
                            \/ batches[b] \notin Complete /\ stock[b] = <<>> /\ moves[b] = <<>>
    BY DEF AllOrNothing
  <2>1. CASE stock[b] = <<>> /\ moves[b] = <<>> /\ batches[b] \notin Complete BY <2>1
  <2>2. CASE WholeFile(b) /\ batches[b] # None
    <3>1. tx[b].file \in Files /\ Accepted(Content[tx[b].file]) BY <2>2 DEF ImportInv, Begun
    <3>2. HoldsAllOf(b, tx[b].file) BY <2>2, <3>1, WholeFileHoldsAll
    <3> QED BY <2>2, <3>2
  <2> QED BY <2>1, <2>2 DEF ImportInv, WholeOrNothing
<1> QED BY <1>1, Invariance, PTL

\* What a campaign has frozen is the stock of one file, each of its products once
\* and with a cost, and stays so whatever is imported later.
THEOREM FrozenSnapshots == Spec => []SnapshotOfOneFile
<1>1. TableInv => SnapshotOfOneFile
  BY DEF TableInv, FrozenOfOneFile, OfOneFile, SnapshotOfOneFile
<1> QED BY <1>1, TableInvariance, PTL

\* The partial unique index on the file of an active batch lets one request
\* import it, whoever races; whoever is told "already imported" is told of
\* another batch of that file.
THEOREM OneImport == Spec => []OneImportPerFile
<1>1. ImportInv => OneImportPerFile BY DEF ImportInv
<1> QED BY <1>1, Invariance, PTL

\* The second transaction is one: what a batch leaves behind is all that the
\* parser made of its file, or nothing, and all if it is completed.
THEOREM BatchesAreWhole == Spec => []WholeOrNothing
<1>1. ImportInv => WholeOrNothing BY DEF ImportInv
<1> QED BY <1>1, Invariance, PTL

\* No import, however it overlaps with others, removes a product or a price.
THEOREM PricesAreKept == Spec => NothingErased
<1>1. ImportInv /\ [Next]_vars =>
         [\A r \in Refs : rows[r] # None =>
             /\ rows'[r] # None
             /\ \A p \in Prices : rows[r][p] # None => rows'[r][p] # None]_vars
  <2> SUFFICES ASSUME ImportInv, [Next]_vars, NEW r \in Refs, rows[r] # None
               PROVE  /\ rows'[r] # None
                      /\ \A p \in Prices : rows[r][p] # None => rows'[r][p] # None
    OBVIOUS
  <2>1. CASE rows' = rows BY <2>1
  <2>2. ASSUME NEW i \in Imports, NEW answered \in BOOLEAN, Commit(i, answered)
        PROVE  /\ rows'[r] # None
               /\ \A p \in Prices : rows[r][p] # None => rows'[r][p] # None
    BY <2>2, CommitKeeps DEF ImportInv
  <2> QED BY <2>1, <2>2, DatabaseStep DEF database, Create, RecordFailure
<1> QED BY <1>1, Invariance, PTL DEF Spec, NothingErased

\* What ImportsEnd rests on: a batch that is PROCESSING is in the hands of a
\* request that is still at work, unless it died ...
THEOREM ProcessingIsAtWork == Spec => []AtWork
<1>1. Init => AtWork
  <2> SUFFICES ASSUME Init PROVE AtWork OBVIOUS
  <2>1. \A i \in Imports : batches[i] = None /\ tx[i] = Blank /\ Blank.pc = "idle"
    BY DEF Init, Blank
  <2> QED BY <2>1 DEF AtWork, Active
<1>2. ImportInv /\ TableInv /\ AtWork /\ [Next]_vars => AtWork' BY AtWorkStep
<1> QED BY <1>1, <1>2, Invariance, TableInvariance, PTL DEF Spec

\* ... and such a request has a number of steps left which each of its own makes
\* smaller, and which nothing makes larger.
THEOREM StepsRunOut ==
    Spec => [][\A i \in Imports :
                  /\ StepsLeft(i) \in Nat
                  /\ Proceed(i) => StepsLeft(i)' < StepsLeft(i)
                  /\ tx[i].pc # "idle" => StepsLeft(i)' <= StepsLeft(i)]_vars
<1>1. ImportInv /\ TableInv /\ AtWork /\ [Next]_vars =>
         [\A i \in Imports :
             /\ StepsLeft(i) \in Nat
             /\ Proceed(i) => StepsLeft(i)' < StepsLeft(i)
             /\ tx[i].pc # "idle" => StepsLeft(i)' <= StepsLeft(i)]_vars
  <2> SUFFICES ASSUME ImportInv, TableInv, AtWork, Next, NEW i \in Imports
               PROVE  /\ StepsLeft(i) \in Nat
                      /\ Proceed(i) => StepsLeft(i)' < StepsLeft(i)
                      /\ tx[i].pc # "idle" => StepsLeft(i)' <= StepsLeft(i)
    OBVIOUS
  <2>1. StepsLeft(i) \in Nat /\ StepsLeft(i) <= StepsLeft(i)
    <3>1. StepsLeft(i) \in Nat BY StepsCounted
    <3> HIDE DEF StepsLeft
    <3> QED BY <3>1
  <2>2. Proceed(i) => StepsLeft(i)' < StepsLeft(i) BY StepsDrop
  <2>3. ASSUME tx'[i] = tx[i] PROVE StepsLeft(i)' = StepsLeft(i) BY <2>3 DEF StepsLeft, Data
  <2>4. ASSUME tx[i].pc # "idle" PROVE StepsLeft(i)' <= StepsLeft(i)
    <3>1. ASSUME NEW j \in Imports, NEW f \in Files, Begin(j, f)
          PROVE  tx'[i] = tx[i]
      <4>1. j # i BY <2>4, <3>1 DEF Begin, At
      <4> QED BY <3>1, <4>1, BeginRow DEF ImportInv, Others
    <3>2. ASSUME NEW j \in Imports, j # i, Proceed(j) PROVE tx'[i] = tx[i]
      BY <3>2, StepsDrop DEF Others
    <3>3. ASSUME NEW j \in Imports, j # i, Die(j) PROVE tx'[i] = tx[i]
      BY <3>3, EndRow DEF ImportInv, Die, Others
    <3>4. ASSUME Proceed(i) PROVE StepsLeft(i)' <= StepsLeft(i)
      <4>1. StepsLeft(i)' \in Int /\ StepsLeft(i)' < StepsLeft(i) BY <3>4, StepsDrop
      <4> HIDE DEF StepsLeft
      <4> QED BY <2>1, <4>1
    <3>5. ASSUME Die(i) PROVE StepsLeft(i)' <= StepsLeft(i)
      <4>1. tx'[i].pc = "dead" BY <3>5, EndRow DEF ImportInv, Die
      <4>2. StepsLeft(i)' = 0 BY <4>1 DEF StepsLeft
      <4> QED BY <2>1, <4>2
    <3>6. ASSUME NEW c \in Campaigns, (\E b \in Imports : SelectSource(c, b)) \/ Start(c)
          PROVE  tx'[i] = tx[i]
      BY <3>6 DEF SelectSource, Start
    <3>7. \/ tx'[i] = tx[i] \/ Proceed(i) \/ Die(i)
      BY <3>1, <3>2, <3>3, <3>6 DEF Next
    <3> QED BY <2>1, <2>3, <3>4, <3>5, <3>7
  <2> QED BY <2>1, <2>2, <2>4
<1> QED BY <1>1, Invariance, TableInvariance, ProcessingIsAtWork, PTL DEF Spec
=============================================================================
