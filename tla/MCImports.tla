------------------------------ MODULE MCImports ------------------------------
(* An instance of Imports for TLC: one file of each type, and one with a      *)
(* product twice.                                                             *)
EXTENDS Imports, TLC

CONSTANTS contactsFile, masterFile, mixedFile, twiceFile, r1, r2, r3, s1, s2, n1, n2

\* A row with these cells; the others are blank.
R(cells) == [c \in {"contact_name", "external_ref", "internal_reference", "name",
                    "quantity", "supplier_ref", "movement", "movement_quantity"} \cup Prices |->
                IF c \in DOMAIN cells THEN cells[c] ELSE None]

\* Two contacts of one name.
Contacts ==
    [headers |-> {"contact_name", "external_ref"},
     rows |-> <<R("contact_name" :> n1 @@ "external_ref" :> s1),
                R("contact_name" :> n1 @@ "external_ref" :> s2)>>]

\* A blank row, a row without reference, and a price that is not a number.
Master ==
    [headers |-> {"internal_reference", "name", "cost", "consignment_cost", "quantity"},
     rows |-> <<R(<<>>),
                R("name" :> n1),
                R("internal_reference" :> r1 @@ "name" :> n1 @@ "cost" :> 2
                    @@ "consignment_cost" :> Bad @@ "quantity" :> 1)>>]

\* Movements before, between and below the products.
Mixed ==
    [headers |-> {"internal_reference", "name", "consignment_cost", "quantity",
                  "supplier_ref", "movement", "movement_quantity"},
     rows |-> <<R("movement" :> n1),
                R("internal_reference" :> r2 @@ "name" :> n1 @@ "quantity" :> 2
                    @@ "supplier_ref" :> s2),
                R("movement_quantity" :> 1),
                R("internal_reference" :> r3 @@ "name" :> n1 @@ "quantity" :> Bad),
                R("internal_reference" :> r1 @@ "name" :> n2 @@ "consignment_cost" :> 1
                    @@ "quantity" :> 0),
                R("movement" :> n1 @@ "movement_quantity" :> Bad)>>]

\* A product twice, with its supplier.
Twice ==
    [headers |-> {"internal_reference", "name", "quantity", "supplier_ref", "movement"},
     rows |-> <<R("internal_reference" :> r2 @@ "name" :> n2 @@ "quantity" :> 1
                    @@ "supplier_ref" :> s2),
                R("internal_reference" :> r2 @@ "name" :> n2 @@ "quantity" :> 2
                    @@ "supplier_ref" :> s2)>>]

MCContent == contactsFile :> Contacts @@ masterFile :> Master
             @@ mixedFile :> Mixed @@ twiceFile :> Twice

\* Requests are alike, and beginning one has no effect on the others: they may
\* begin in the order of their numbers and of their files.
InOrder ==
    LET order == <<contactsFile, masterFile, mixedFile, twiceFile>>
    IN  \A i, j \in Imports : i < j =>
            \/ At(j, "idle")
            \/ \E m, n \in 1..4 : m <= n /\ tx[i].file = order[m] /\ tx[j].file = order[n]
=============================================================================
