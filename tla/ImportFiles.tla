----------------------------- MODULE ImportFiles -----------------------------
(***************************************************************************)
(* Reading the spreadsheets exported from Odoo: contacts, a flat product   *)
(* master, and a mixed export in which the rows below a product are its    *)
(* stock movements.                                                        *)
(*                                                                         *)
(* A file is the set of columns its header row names and a sequence of     *)
(* rows, functions from column to cell.  A cell is None (blank), Bad (not  *)
(* a number), an integer, or a text.                                       *)
(***************************************************************************)
EXTENDS Integers, Sequences, FiniteSets

CONSTANTS None, Bad

Prices == {"sale_price", "cost", "consignment_cost"}

-----------------------------------------------------------------------------
(* Which file it is, by its columns, and the columns that are read of it.  *)

ImportType(headers) ==
    IF {"contact_name", "external_ref"} \subseteq headers THEN "CONTACTS"
    ELSE IF {"internal_reference", "movement"} \subseteq headers THEN "MIXED_PRODUCT_EXPORT"
    ELSE IF {"internal_reference", "cost"} \subseteq headers THEN "PRODUCTS"
    ELSE None

Type(file) == ImportType(file.headers)

Required(type) ==
    IF type = "CONTACTS" THEN {"contact_name"} ELSE {"internal_reference", "name"}

\* The mixed export has no cost of its own, and only it has suppliers.
Optional(type) ==
    CASE type = "CONTACTS" -> {"external_ref"}
      [] type = "PRODUCTS" -> Prices \cup {"quantity"}
      [] type = "MIXED_PRODUCT_EXPORT" ->
            (Prices \ {"cost"}) \cup {"quantity", "supplier_ref", "movement", "movement_quantity"}

\* Any other file is refused with 400 before anything is stored.
Accepted(file) == Type(file) # None /\ Required(Type(file)) \subseteq file.headers

Columns(file) == file.headers \cap (Required(Type(file)) \cup Optional(Type(file)))

-----------------------------------------------------------------------------
(* A row.                                                                  *)

Cell(file, k, column) == IF column \in Columns(file) THEN file.rows[k][column] ELSE None

\* What is not a number is recorded as an error and read as absent.
Number(file, k, column) == LET cell == Cell(file, k, column)
                           IN  IF cell = Bad THEN None ELSE cell

BadCells(file, k, columns) == Cardinality({c \in columns : Cell(file, k, c) = Bad})

IsBlank(file, k) == \A c \in file.headers : file.rows[k][c] = None

IsProduct(file, k) == Cell(file, k, "internal_reference") # None

\* A child row that says anything at all.
IsMovement(file, k) == \/ Cell(file, k, "movement") # None
                       \/ Number(file, k, "movement_quantity") # None

ProductOf(file, k) == [ref      |-> Cell(file, k, "internal_reference"),
                       name     |-> Cell(file, k, "name"),
                       prices   |-> [p \in Prices |-> Number(file, k, p)],
                       quantity |-> Number(file, k, "quantity"),
                       supplier |-> Cell(file, k, "supplier_ref")]

MovementOf(file, k, ref) ==
    LET quantity == Number(file, k, "movement_quantity")
    IN  [ref |-> ref, description |-> Cell(file, k, "movement"),
         quantity |-> IF quantity = None THEN 0 ELSE quantity]

ContactOf(file, k) == [ref |-> Cell(file, k, "external_ref"),
                       name |-> Cell(file, k, "contact_name")]

-----------------------------------------------------------------------------
(* The parsers: one pass from the first row to the last.                   *)

Nothing == [products |-> <<>>, movements |-> <<>>, contacts |-> <<>>,
            errors |-> 0, current |-> None]

ReadContact(file, data, k) ==
    IF Cell(file, k, "contact_name") = None
    THEN [data EXCEPT !.errors = @ + 1]
    ELSE [data EXCEPT !.contacts = Append(@, ContactOf(file, k))]

WithProduct(data, file, k) ==
    [data EXCEPT !.products = Append(@, ProductOf(file, k)),
                 !.errors = @ + BadCells(file, k, Prices \cup {"quantity"})]

\* A reference that appears twice is reported, and its product kept twice.
ReadMaster(file, data, k) ==
    IF IsBlank(file, k) THEN data
    ELSE IF ~IsProduct(file, k) THEN [data EXCEPT !.errors = @ + 1]
    ELSE WithProduct(data, file, k)

\* Mutant: the first product keeps every movement.
FirstProduct(data, file, k) ==
    IF data.current = None THEN Cell(file, k, "internal_reference") ELSE data.current

Parent(data, file, k) == Cell(file, k, "internal_reference")

\* A movement is of the last product above it.
ReadMixed(file, data, k) ==
    IF IsProduct(file, k)
    THEN [WithProduct(data, file, k) EXCEPT !.current = Parent(data, file, k)]
    ELSE LET checked == [data EXCEPT !.errors =
                            @ + BadCells(file, k, {"movement_quantity"})]
         IN  IF ~IsMovement(file, k) THEN checked
             ELSE IF data.current = None THEN [checked EXCEPT !.errors = @ + 1]
             ELSE [checked EXCEPT !.movements =
                      Append(@, MovementOf(file, k, data.current))]

ReadRow(file, data, k) ==
    CASE Type(file) = "CONTACTS" -> ReadContact(file, data, k)
      [] Type(file) = "PRODUCTS" -> ReadMaster(file, data, k)
      [] Type(file) = "MIXED_PRODUCT_EXPORT" -> ReadMixed(file, data, k)

\* What has been read of the file after each of its rows.
Reading(file) ==
    LET data[k \in 0..Len(file.rows)] ==
            IF k = 0 THEN Nothing ELSE ReadRow(file, data[k - 1], k)
    IN  data

ParsedData(file) == Reading(file)[Len(file.rows)]

-----------------------------------------------------------------------------
(* The cost of a product: its own if positive, else that of consignment.   *)

EffectiveCost(cost, consignment) ==
    LET Positive(price) == price # None /\ price > 0
    IN  CASE Positive(cost) -> [amount |-> cost, source |-> "COST"]
          [] ~Positive(cost) /\ Positive(consignment)
                -> [amount |-> consignment, source |-> "CONSIGNMENT"]
          [] OTHER -> [amount |-> 0, source |-> "ZERO"]
=============================================================================
