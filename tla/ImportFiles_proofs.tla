-------------------------- MODULE ImportFiles_proofs --------------------------
(***************************************************************************)
(* What the parsers make of a file, for every file: of the pass over its   *)
(* rows, that it keeps the products, the movements and the contacts of the *)
(* file, each once and in their order, and gives each movement to the last *)
(* product above it.  By induction over the rows.                          *)
(***************************************************************************)
EXTENDS ImportFiles, Ranks_proofs

Lines(file) == Len(file.rows)

\* What a row is, wherever it stands.
ProductsOf(file)  == [k \in 1..Lines(file) |-> ProductOf(file, k)]
ContactsOf(file)  == [k \in 1..Lines(file) |-> ContactOf(file, k)]
MovementsOf(file) ==
    [k \in 1..Lines(file) |-> MovementOf(file, k, Reading(file)[k - 1].current)]

\* The rows, of the first n, that are kept.
ProductRows(file, n) == {k \in 1..n : IsProduct(file, k)}
ContactRows(file, n) ==
    {k \in 1..n : Type(file) = "CONTACTS" /\ Cell(file, k, "contact_name") # None}
ChildRows(file, n) ==
    {k \in 1..n : /\ Type(file) = "MIXED_PRODUCT_EXPORT"
                  /\ ~IsProduct(file, k) /\ IsMovement(file, k)
                  /\ Reading(file)[k - 1].current # None}

\* The last product of the first n rows has this reference.
LastNamed(file, n, r) ==
    \E j \in 1..n : /\ Cell(file, j, "internal_reference") = r
                    /\ \A l \in j + 1..n : ~IsProduct(file, l)

-----------------------------------------------------------------------------
\* The pass is what its definition says: a function of the rows read so far.
LEMMA ReadingByRow ==
    ASSUME NEW file, Lines(file) \in Nat
    PROVE  Reading(file) = [k \in 0..Lines(file) |->
               IF k = 0 THEN Nothing ELSE ReadRow(file, Reading(file)[k - 1], k)]
<1> DEFINE N == Lines(file)
           Pass(d, n) == d = [k \in 0..n |-> IF k = 0 THEN Nothing
                                             ELSE ReadRow(file, d[k - 1], k)]
           T == {n \in Nat : \E d : Pass(d, n)}
<1>1. 0 \in T
  <2>1. Pass([k \in 0..0 |-> Nothing], 0) OBVIOUS
  <2> QED BY <2>1
<1>2. ASSUME NEW n \in Nat, n \in T PROVE n + 1 \in T
  <2>1. PICK d : Pass(d, n) BY <1>2
  <2> DEFINE next == ReadRow(file, d[n], n + 1)
             e == [k \in 0..n + 1 |-> IF k = n + 1 THEN next ELSE d[k]]
  <2> HIDE DEF next
  <2>2. \A k \in 0..n : e[k] = d[k] OBVIOUS
  <2>3. \A k \in 0..n + 1 : e[k] = IF k = 0 THEN Nothing ELSE ReadRow(file, e[k - 1], k)
    <3> SUFFICES ASSUME NEW k \in 0..n + 1
                 PROVE  e[k] = IF k = 0 THEN Nothing ELSE ReadRow(file, e[k - 1], k)
      OBVIOUS
    <3>1. CASE k = n + 1
      <4>1. e[k - 1] = d[n] /\ e[k] = next /\ k # 0 BY <3>1
      <4> QED BY <3>1, <4>1 DEF next
    <3>2. CASE k # n + 1
      <4>1. k \in 0..n /\ e[k] = d[k] /\ (k # 0 => e[k - 1] = d[k - 1]) BY <3>2
      <4>2. d[k] = IF k = 0 THEN Nothing ELSE ReadRow(file, d[k - 1], k)
        <5>1. d = [j \in 0..n |-> IF j = 0 THEN Nothing ELSE ReadRow(file, d[j - 1], j)]
          BY <2>1
        <5> HIDE DEF e
        <5> QED BY <4>1, <5>1, Zenon
      <4> QED BY <4>1, <4>2
    <3> QED BY <3>1, <3>2
  <2>4. e = [k \in 0..n + 1 |-> e[k]] OBVIOUS
  <2> HIDE DEF e
  <2>5. Pass(e, n + 1) BY <2>3, <2>4, Zenon
  <2> QED BY <2>5
<1> HIDE DEF T
<1>3. N \in T BY <1>1, <1>2, InductionOnNat
<1>4. \E d : Pass(d, N) BY <1>3 DEF T
<1>5. Reading(file) = CHOOSE d : Pass(d, N) BY DEF Reading, Lines
<1> QED BY <1>4, <1>5

\* It begins with nothing and reads one row after the other.
LEMMA FirstAndNextRow ==
    ASSUME NEW file, Lines(file) \in Nat
    PROVE  /\ Reading(file)[0] = Nothing
           /\ \A k \in 1..Lines(file) :
                 Reading(file)[k] = ReadRow(file, Reading(file)[k - 1], k)
<1>1. Reading(file) = [k \in 0..Lines(file) |->
          IF k = 0 THEN Nothing ELSE ReadRow(file, Reading(file)[k - 1], k)]
  BY ReadingByRow
<1>2. \A k \in 0..Lines(file) :
         Reading(file)[k] = IF k = 0 THEN Nothing ELSE ReadRow(file, Reading(file)[k - 1], k)
  BY <1>1, Zenon
<1>3. 0 \in 0..Lines(file) /\ \A k \in 1..Lines(file) : k \in 0..Lines(file) /\ k # 0
  OBVIOUS
<1> QED BY <1>2, <1>3, Zenon

-----------------------------------------------------------------------------
(* What the rows of each kind of file can say.                             *)

\* Only rows of files with products name one, and a row that does is not blank.
LEMMA Kinds ==
    ASSUME NEW file, Accepted(file)
    PROVE  /\ Type(file) \in {"CONTACTS", "PRODUCTS", "MIXED_PRODUCT_EXPORT"}
           /\ Type(file) = "CONTACTS" => \A k : ~IsProduct(file, k)
           /\ Type(file) # "CONTACTS" => \A k : IsProduct(file, k) => ~IsBlank(file, k)
<1>1. Type(file) \in {"CONTACTS", "PRODUCTS", "MIXED_PRODUCT_EXPORT"}
  BY DEF Accepted, Type, ImportType
<1>2. ASSUME Type(file) = "CONTACTS", NEW k PROVE ~IsProduct(file, k)
  <2>1. "internal_reference" \notin Columns(file) BY <1>2 DEF Columns, Required, Optional
  <2> QED BY <2>1 DEF IsProduct, Cell
<1>3. ASSUME NEW k, IsProduct(file, k) PROVE ~IsBlank(file, k)
  <2>1. /\ "internal_reference" \in file.headers
        /\ file.rows[k]["internal_reference"] # None
    BY <1>3 DEF IsProduct, Cell, Columns
  <2> QED BY <2>1 DEF IsBlank
<1> QED BY <1>1, <1>2, <1>3

\* The fields of what has been read, whatever their values.
DataOf(products, movements, contacts, errors, current) ==
    [products |-> products, movements |-> movements, contacts |-> contacts,
     errors |-> errors, current |-> current]

\* What a row does: it adds a product, a contact, a movement, or nothing.
LEMMA RowEffect ==
    ASSUME NEW file, Accepted(file), NEW k, NEW p, NEW m, NEW c, NEW e, NEW r
    PROVE  \E errors :
              ReadRow(file, DataOf(p, m, c, e, r), k) =
                DataOf(IF IsProduct(file, k) THEN Append(p, ProductOf(file, k)) ELSE p,
                       IF /\ Type(file) = "MIXED_PRODUCT_EXPORT" /\ ~IsProduct(file, k)
                          /\ IsMovement(file, k) /\ r # None
                       THEN Append(m, MovementOf(file, k, r)) ELSE m,
                       IF Type(file) = "CONTACTS" /\ Cell(file, k, "contact_name") # None
                       THEN Append(c, ContactOf(file, k)) ELSE c,
                       errors,
                       IF Type(file) = "MIXED_PRODUCT_EXPORT" /\ IsProduct(file, k)
                       THEN Cell(file, k, "internal_reference") ELSE r)
<1> DEFINE data == DataOf(p, m, c, e, r)
<1>1. CASE Type(file) = "CONTACTS"
  <2>1. ReadRow(file, data, k) = ReadContact(file, data, k) BY <1>1 DEF ReadRow
  <2>2. ~IsProduct(file, k) BY <1>1, Kinds
  <2>3. CASE Cell(file, k, "contact_name") = None
    <3>1. ReadContact(file, data, k) = DataOf(p, m, c, e + 1, r)
      BY <2>3 DEF ReadContact, DataOf
    <3> QED BY <1>1, <2>1, <2>2, <2>3, <3>1
  <2>4. CASE Cell(file, k, "contact_name") # None
    <3>1. ReadContact(file, data, k) = DataOf(p, m, Append(c, ContactOf(file, k)), e, r)
      BY <2>4 DEF ReadContact, DataOf
    <3> QED BY <1>1, <2>1, <2>2, <2>4, <3>1
  <2> QED BY <2>3, <2>4
<1> DEFINE bad == e + BadCells(file, k, Prices \cup {"quantity"})
<1>2. WithProduct(data, file, k) = DataOf(Append(p, ProductOf(file, k)), m, c, bad, r)
  <2> DEFINE product == ProductOf(file, k)
  <2>1. data = [products |-> p, movements |-> m, contacts |-> c, errors |-> e, current |-> r]
    BY DEF DataOf
  <2>2. WithProduct(data, file, k) =
           [data EXCEPT !.products = Append(data.products, product),
                        !.errors = data.errors + BadCells(file, k, Prices \cup {"quantity"})]
    BY DEF WithProduct
  <2> HIDE DEF data, product
  <2>3. data.products = p /\ data.errors = e BY <2>1
  <2>4. WithProduct(data, file, k) =
           [data EXCEPT !.products = Append(p, product), !.errors = bad]
    BY <2>2, <2>3
  <2> HIDE DEF bad
  <2>5. WithProduct(data, file, k) =
           [products |-> Append(p, product), movements |-> m, contacts |-> c,
            errors |-> bad, current |-> r]
    BY <2>1, <2>4
  <2> QED BY <2>5 DEF data, product, DataOf
<1> HIDE DEF bad
<1>3. CASE Type(file) = "PRODUCTS"
  <2>1. ReadRow(file, data, k) = ReadMaster(file, data, k) BY <1>3 DEF ReadRow
  <2>2. CASE IsBlank(file, k)
    <3>1. ~IsProduct(file, k) BY <1>3, <2>2, Kinds
    <3>2. ReadMaster(file, data, k) = data BY <2>2 DEF ReadMaster
    <3> QED BY <1>3, <2>1, <3>1, <3>2
  <2>3. CASE ~IsBlank(file, k) /\ ~IsProduct(file, k)
    <3>1. ReadMaster(file, data, k) = DataOf(p, m, c, e + 1, r)
      BY <2>3 DEF ReadMaster, DataOf
    <3> QED BY <1>3, <2>1, <2>3, <3>1
  <2>4. CASE IsProduct(file, k)
    <3>1. ReadMaster(file, data, k) = WithProduct(data, file, k)
      BY <1>3, <2>4, Kinds DEF ReadMaster
    <3> QED BY <1>2, <1>3, <2>1, <2>4, <3>1
  <2> QED BY <2>2, <2>3, <2>4
<1>4. CASE Type(file) = "MIXED_PRODUCT_EXPORT"
  <2>1. ReadRow(file, data, k) = ReadMixed(file, data, k) BY <1>4 DEF ReadRow
  <2>2. CASE IsProduct(file, k)
    <3> DEFINE with == WithProduct(data, file, k)
    <3>1. ReadMixed(file, data, k) =
             [with EXCEPT !.current = Cell(file, k, "internal_reference")]
      BY <2>2 DEF ReadMixed, Parent
    <3> HIDE DEF with
    <3>2. with = DataOf(Append(p, ProductOf(file, k)), m, c, bad, r) BY <1>2 DEF with
    <3>3. [with EXCEPT !.current = Cell(file, k, "internal_reference")] =
             DataOf(Append(p, ProductOf(file, k)), m, c, bad,
                    Cell(file, k, "internal_reference"))
      BY <3>2 DEF DataOf
    <3> QED BY <1>4, <2>1, <2>2, <3>1, <3>3
  <2>3. CASE ~IsProduct(file, k)
    <3> DEFINE checked == [data EXCEPT !.errors =
                              @ + BadCells(file, k, {"movement_quantity"})]
           some == e + BadCells(file, k, {"movement_quantity"})
    <3>1. checked = DataOf(p, m, c, some, r) BY DEF DataOf
    <3> HIDE DEF some
    <3>2. ReadMixed(file, data, k) =
             IF ~IsMovement(file, k) THEN checked
             ELSE IF data.current = None THEN [checked EXCEPT !.errors = @ + 1]
             ELSE [checked EXCEPT !.movements = Append(@, MovementOf(file, k, data.current))]
      BY <2>3 DEF ReadMixed
    <3>3. data.current = r BY DEF DataOf
    <3> HIDE DEF checked, data
    <3>4. CASE ~IsMovement(file, k)
      BY <1>4, <2>1, <2>3, <3>1, <3>2, <3>4 DEF data
    <3>5. CASE IsMovement(file, k) /\ r = None
      <4>1. ReadMixed(file, data, k) = DataOf(p, m, c, some + 1, r)
        BY <3>1, <3>2, <3>3, <3>5 DEF DataOf
      <4> QED BY <1>4, <2>1, <2>3, <3>5, <4>1 DEF data
    <3>6. CASE IsMovement(file, k) /\ r # None
      <4>1. ReadMixed(file, data, k) =
               DataOf(p, Append(m, MovementOf(file, k, r)), c, some, r)
        BY <3>1, <3>2, <3>3, <3>6 DEF DataOf
      <4> QED BY <1>4, <2>1, <2>3, <3>6, <4>1 DEF data
    <3> QED BY <3>4, <3>5, <3>6
  <2> QED BY <2>2, <2>3
<1> QED BY <1>1, <1>3, <1>4, Kinds

-----------------------------------------------------------------------------
(* The whole pass.                                                         *)

ReadTo(file, n) ==
    /\ \E errors :
          Reading(file)[n] = DataOf(Picked(ProductsOf(file), ProductRows(file, n)),
                                    Picked(MovementsOf(file), ChildRows(file, n)),
                                    Picked(ContactsOf(file), ContactRows(file, n)),
                                    errors, Reading(file)[n].current)
    /\ Type(file) = "MIXED_PRODUCT_EXPORT" =>
          \A r : r # None => (Reading(file)[n].current = r <=> LastNamed(file, n, r))

\* One position more.
LEMMA PickedNext ==
    ASSUME NEW n \in Nat, NEW seq, NEW S \in SUBSET (1..n), NEW U,
           U = S \/ U = S \cup {n + 1}
    PROVE  Picked(seq, U) = IF n + 1 \in U THEN Append(Picked(seq, S), seq[n + 1])
                            ELSE Picked(seq, S)
<1>1. CASE U = S
  <2>1. n + 1 \notin U BY <1>1
  <2> QED BY <1>1, <2>1
<1>2. CASE U = S \cup {n + 1}
  <2> DEFINE T == {seq[j] : j \in S \cup {n + 1}}
  <2>1. \A j \in S \cup {n + 1} : seq[j] \in T OBVIOUS
  <2>2. n + 1 \in Nat /\ \A j \in S : j < n + 1 OBVIOUS
  <2> HIDE DEF T
  <2>3. Picked(seq, S \cup {n + 1}) = Append(Picked(seq, S), seq[n + 1])
    BY <2>1, <2>2, PickedAppend
  <2> QED BY <1>2, <2>3
<1> QED BY <1>1, <1>2

\* The last product named changes where a row names one.
LEMMA LastNamedNext ==
    ASSUME NEW file, NEW n \in Nat, NEW r, r # None
    PROVE  LastNamed(file, n + 1, r) <=>
              IF IsProduct(file, n + 1) THEN Cell(file, n + 1, "internal_reference") = r
              ELSE LastNamed(file, n, r)
<1> DEFINE At(j) == Cell(file, j, "internal_reference")
<1>1. \A j : IsProduct(file, j) <=> At(j) # None BY DEF IsProduct
<1> HIDE DEF At
<1>2. LastNamed(file, n + 1, r) <=>
         \E j \in 1..n + 1 : At(j) = r /\ \A l \in j + 1..n + 1 : ~IsProduct(file, l)
  BY DEF LastNamed, At
<1>3. LastNamed(file, n, r) <=>
         \E j \in 1..n : At(j) = r /\ \A l \in j + 1..n : ~IsProduct(file, l)
  BY DEF LastNamed, At
<1>4. CASE IsProduct(file, n + 1)
  <2>1. ASSUME At(n + 1) = r PROVE LastNamed(file, n + 1, r)
    <3>1. n + 1 \in 1..n + 1 /\ \A l \in (n + 1) + 1..n + 1 : ~IsProduct(file, l) OBVIOUS
    <3> QED BY <1>2, <2>1, <3>1
  <2>2. ASSUME LastNamed(file, n + 1, r) PROVE At(n + 1) = r
    <3>1. PICK j \in 1..n + 1 : At(j) = r /\ \A l \in j + 1..n + 1 : ~IsProduct(file, l)
      BY <1>2, <2>2
    <3>2. j = n + 1 BY <1>4, <3>1
    <3> QED BY <3>1, <3>2
  <2> QED BY <1>4, <2>1, <2>2 DEF At
<1>5. CASE ~IsProduct(file, n + 1)
  <2>1. ASSUME LastNamed(file, n, r) PROVE LastNamed(file, n + 1, r)
    <3>1. PICK j \in 1..n : At(j) = r /\ \A l \in j + 1..n : ~IsProduct(file, l)
      BY <1>3, <2>1
    <3>2. \A l \in j + 1..n + 1 : l \in j + 1..n \/ l = n + 1 OBVIOUS
    <3>3. j \in 1..n + 1 /\ \A l \in j + 1..n + 1 : ~IsProduct(file, l)
      BY <1>5, <3>1, <3>2
    <3> QED BY <1>2, <3>1, <3>3
  <2>2. ASSUME LastNamed(file, n + 1, r) PROVE LastNamed(file, n, r)
    <3>1. PICK j \in 1..n + 1 : At(j) = r /\ \A l \in j + 1..n + 1 : ~IsProduct(file, l)
      BY <1>2, <2>2
    <3>2. j # n + 1 BY <1>1, <1>5, <3>1
    <3>3. j \in 1..n /\ \A l \in j + 1..n : l \in j + 1..n + 1 BY <3>2
    <3> QED BY <1>3, <3>1, <3>3
  <2> QED BY <1>5, <2>1, <2>2
<1> QED BY <1>4, <1>5

\* Reading one row more keeps what has been read of those above it.
LEMMA ReadToNext ==
    ASSUME NEW file, Lines(file) \in Nat, Accepted(file),
           NEW n \in Nat, n + 1 <= Lines(file), ReadTo(file, n)
    PROVE  ReadTo(file, n + 1)
<1> DEFINE k == n + 1
           was == Reading(file)[n]
           now == Reading(file)[k]
           mixed == Type(file) = "MIXED_PRODUCT_EXPORT"
           p == Picked(ProductsOf(file), ProductRows(file, n))
           m == Picked(MovementsOf(file), ChildRows(file, n))
           c == Picked(ContactsOf(file), ContactRows(file, n))
<1>1. k \in 1..Lines(file) /\ k - 1 = n /\ n \in 0..Lines(file) OBVIOUS
<1>2. now = ReadRow(file, was, k) BY <1>1, FirstAndNextRow
<1>3. PICK e : was = DataOf(p, m, c, e, was.current) BY DEF ReadTo
<1>4. /\ ProductsOf(file)[k] = ProductOf(file, k) /\ ContactsOf(file)[k] = ContactOf(file, k)
      /\ MovementsOf(file)[k] = MovementOf(file, k, was.current)
  BY <1>1 DEF ProductsOf, ContactsOf, MovementsOf
<1>5. Picked(ProductsOf(file), ProductRows(file, k)) =
         IF IsProduct(file, k) THEN Append(p, ProductOf(file, k)) ELSE p
  <2> DEFINE S == ProductRows(file, n)
             U == ProductRows(file, n + 1)
  <2>1. S \in SUBSET (1..n) BY DEF ProductRows
  <2>2. (U = S \/ U = S \cup {n + 1}) /\ (k \in U <=> IsProduct(file, k)) BY DEF ProductRows
  <2> HIDE DEF S, U
  <2>3. Picked(ProductsOf(file), U) = IF n + 1 \in U THEN Append(Picked(ProductsOf(file), S),
                                                                 ProductsOf(file)[n + 1])
                                      ELSE Picked(ProductsOf(file), S)
    BY <2>1, <2>2, PickedNext
  <2> QED BY <1>4, <2>2, <2>3 DEF S, U
<1>6. Picked(ContactsOf(file), ContactRows(file, k)) =
         IF Type(file) = "CONTACTS" /\ Cell(file, k, "contact_name") # None
         THEN Append(c, ContactOf(file, k)) ELSE c
  <2> DEFINE S == ContactRows(file, n)
             U == ContactRows(file, n + 1)
  <2>1. S \in SUBSET (1..n) BY DEF ContactRows
  <2>2. /\ U = S \/ U = S \cup {n + 1}
        /\ k \in U <=> Type(file) = "CONTACTS" /\ Cell(file, k, "contact_name") # None
    BY DEF ContactRows
  <2> HIDE DEF S, U
  <2>3. Picked(ContactsOf(file), U) = IF n + 1 \in U THEN Append(Picked(ContactsOf(file), S),
                                                                 ContactsOf(file)[n + 1])
                                      ELSE Picked(ContactsOf(file), S)
    BY <2>1, <2>2, PickedNext
  <2> QED BY <1>4, <2>2, <2>3 DEF S, U
<1>7. Picked(MovementsOf(file), ChildRows(file, k)) =
         IF mixed /\ ~IsProduct(file, k) /\ IsMovement(file, k) /\ was.current # None
         THEN Append(m, MovementOf(file, k, was.current)) ELSE m
  <2> DEFINE S == ChildRows(file, n)
             U == ChildRows(file, n + 1)
  <2>1. S \in SUBSET (1..n) BY DEF ChildRows
  <2>2. /\ U = S \/ U = S \cup {n + 1}
        /\ k \in U <=> mixed /\ ~IsProduct(file, k) /\ IsMovement(file, k) /\ was.current # None
    BY <1>1 DEF ChildRows
  <2> HIDE DEF S, U
  <2>3. Picked(MovementsOf(file), U) = IF n + 1 \in U THEN Append(Picked(MovementsOf(file), S),
                                                                  MovementsOf(file)[n + 1])
                                       ELSE Picked(MovementsOf(file), S)
    BY <2>1, <2>2, PickedNext
  <2> QED BY <1>4, <2>2, <2>3 DEF S, U
<1> DEFINE q == Picked(ProductsOf(file), ProductRows(file, k))
           o == Picked(MovementsOf(file), ChildRows(file, k))
           d == Picked(ContactsOf(file), ContactRows(file, k))
           next == IF mixed /\ IsProduct(file, k)
                   THEN Cell(file, k, "internal_reference") ELSE was.current
<1> HIDE DEF was, now, p, m, c
<1>8. PICK errors : now = DataOf(q, o, d, errors, next)
  <2>1. now = ReadRow(file, DataOf(p, m, c, e, was.current), k) BY <1>2, <1>3
  <2>2. PICK errors : ReadRow(file, DataOf(p, m, c, e, was.current), k) =
           DataOf(IF IsProduct(file, k) THEN Append(p, ProductOf(file, k)) ELSE p,
                  IF mixed /\ ~IsProduct(file, k) /\ IsMovement(file, k) /\ was.current # None
                  THEN Append(m, MovementOf(file, k, was.current)) ELSE m,
                  IF Type(file) = "CONTACTS" /\ Cell(file, k, "contact_name") # None
                  THEN Append(c, ContactOf(file, k)) ELSE c,
                  errors, next)
    BY RowEffect
  <2> QED BY <1>5, <1>6, <1>7, <2>1, <2>2
<1> HIDE DEF q, o, d
<1>9. now.current = next BY <1>8 DEF DataOf
<1>10. ASSUME mixed, NEW r, r # None PROVE now.current = r <=> LastNamed(file, k, r)
  <2>1. was.current = r <=> LastNamed(file, n, r) BY <1>10 DEF ReadTo, was
  <2>2. LastNamed(file, n + 1, r) <=>
           IF IsProduct(file, n + 1) THEN Cell(file, n + 1, "internal_reference") = r
           ELSE LastNamed(file, n, r)
    BY <1>10, LastNamedNext
  <2> QED BY <1>9, <1>10, <2>1, <2>2
<1> QED BY <1>8, <1>9, <1>10 DEF ReadTo, now, q, o, d

\* By induction over the rows, this holds at every row of a file of any length.
LEMMA ReadToAll ==
    ASSUME NEW file, Lines(file) \in Nat, Accepted(file)
    PROVE  \A n \in 0..Lines(file) : ReadTo(file, n)
<1> DEFINE T == {n \in Nat : n <= Lines(file) => ReadTo(file, n)}
<1>1. ReadTo(file, 0)
  <2>1. /\ ProductRows(file, 0) = {} /\ ChildRows(file, 0) = {} /\ ContactRows(file, 0) = {}
        /\ \A r : ~LastNamed(file, 0, r)
    BY DEF ProductRows, ChildRows, ContactRows, LastNamed
  <2>2. \A seq : Picked(seq, {}) = <<>> BY FS_EmptySet DEF Picked
  <2>3. Reading(file)[0] = DataOf(<<>>, <<>>, <<>>, 0, None)
    BY FirstAndNextRow DEF Nothing, DataOf
  <2>4. Reading(file)[0].current = None BY <2>3 DEF DataOf
  <2> QED BY <2>1, <2>2, <2>3, <2>4 DEF ReadTo
<1>2. ASSUME NEW n \in Nat, n \in T PROVE n + 1 \in T
  <2> SUFFICES ASSUME n + 1 <= Lines(file) PROVE ReadTo(file, n + 1) OBVIOUS
  <2>1. ReadTo(file, n) BY <1>2
  <2> QED BY <2>1, ReadToNext
<1>3. 0 \in T BY <1>1
<1> HIDE DEF T
<1>4. Nat \subseteq T BY <1>2, <1>3, InductionOnNat
<1> QED BY <1>4 DEF T

\* Of a file that is accepted the parsers keep each product, each movement below
\* a product and each contact, once and in the order of the rows.
THEOREM RowsAreKept ==
    ASSUME NEW file, Lines(file) \in Nat, Accepted(file)
    PROVE  /\ ParsedData(file).products =
                Picked(ProductsOf(file), ProductRows(file, Lines(file)))
           /\ ParsedData(file).movements =
                Picked(MovementsOf(file), ChildRows(file, Lines(file)))
           /\ ParsedData(file).contacts =
                Picked(ContactsOf(file), ContactRows(file, Lines(file)))
<1>1. ReadTo(file, Lines(file)) BY ReadToAll
<1>2. PICK errors : ParsedData(file) =
         DataOf(Picked(ProductsOf(file), ProductRows(file, Lines(file))),
                Picked(MovementsOf(file), ChildRows(file, Lines(file))),
                Picked(ContactsOf(file), ContactRows(file, Lines(file))),
                errors, Reading(file)[Lines(file)].current)
  BY <1>1 DEF ReadTo, ParsedData, Lines
<1> QED BY <1>2 DEF DataOf

\* The parent of a movement is the last product named above its row, and a row
\* below no product leaves no movement.
THEOREM MovementsHaveParents ==
    ASSUME NEW file, Lines(file) \in Nat, Accepted(file),
           Type(file) = "MIXED_PRODUCT_EXPORT", NEW k \in 1..Lines(file),
           ~IsProduct(file, k), IsMovement(file, k)
    PROVE  /\ k \in ChildRows(file, Lines(file)) <=> Reading(file)[k - 1].current # None
           /\ \A r : r # None =>
                 (Reading(file)[k - 1].current = r <=> LastNamed(file, k, r))
<1>1. k - 1 \in 0..Lines(file) /\ k - 1 \in Nat /\ (k - 1) + 1 = k OBVIOUS
<1>2. \A r : r # None => (Reading(file)[k - 1].current = r <=> LastNamed(file, k - 1, r))
  BY <1>1, ReadToAll DEF ReadTo
<1>3. ASSUME NEW r, r # None PROVE LastNamed(file, k - 1, r) <=> LastNamed(file, k, r)
  <2> DEFINE j == k - 1
  <2>1. j \in Nat /\ j + 1 = k OBVIOUS
  <2> HIDE DEF j
  <2>2. LastNamed(file, j + 1, r) <=>
           IF IsProduct(file, j + 1) THEN Cell(file, j + 1, "internal_reference") = r
           ELSE LastNamed(file, j, r)
    BY <1>3, <2>1, LastNamedNext
  <2> QED BY <2>1, <2>2 DEF j
<1>4. k \in ChildRows(file, Lines(file)) <=> Reading(file)[k - 1].current # None
  BY DEF ChildRows
<1> QED BY <1>2, <1>3, <1>4
=============================================================================
